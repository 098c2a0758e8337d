------------------------- MODULE SyncLifecycleProofs --------------------------
(***************************************************************************)
(* The reconciliations of SyncLifecycle, for any accounts and any number   *)
(* of tasks: a settled client in the background does not sync, and one in  *)
(* the foreground does.  Each of the two has an invariant of its own, that *)
(* the proofs about the modules that extend SyncLifecycle build on.        *)
(***************************************************************************)
EXTENDS SyncLifecycle, TLAPS

\* What the argument needs of the types.
QueueType ==
    /\ lockQueue \in Seq(Callers)
    /\ held \in Work \union {None}
    /\ assumed \in BOOLEAN /\ desired \in BOOLEAN

\* Work under way is the lock's.
HeldIsLocked == held # None => lockQueue # <<>>

\* The service that is worked on is the one that SYNC_SERVICE holds, but for
\* work that outlived its service; it was not started if it is that work, or
\* was told to stop.
WorkIsDone ==
    held # None =>
        /\ held.current => service # None
        /\ ~held.current => run # "running"
        /\ held.called /\ ~held.want => run # "running"

\* Between two works, a service that runs is assumed to.
RunningIsAssumed == /\ run = "running" => service # None
                    /\ (run = "running" /\ held = None) => assumed

\* A service that should be stopped has somebody to do it.
StopIsComing == (assumed /\ ~desired /\ service # None) => lockQueue # <<>>

QuietInv == QueueType /\ HeldIsLocked /\ WorkIsDone /\ RunningIsAssumed /\ StopIsComing

LEMMA QuietImplies ==
    ASSUME QuietInv
    PROVE  BackgroundIsQuiet
  BY DEF QuietInv, HeldIsLocked, RunningIsAssumed, StopIsComing, BackgroundIsQuiet, Settled

LEMMA QuietInit ==
    ASSUME SyncInit
    PROVE  QuietInv
  <1>1. lockQueue \in Seq(Callers) /\ lockQueue = <<>> /\ held = None
    BY DEF SyncInit
  <1>2. run = "idle" /\ desired = TRUE /\ assumed = FALSE
    BY DEF SyncInit
  <1> QED
    BY <1>1, <1>2 DEF QuietInv, QueueType, HeldIsLocked, WorkIsDone, RunningIsAssumed, StopIsComing

\* What becomes of the queue and the work of a service that goes.
LEMMA Orphaning ==
    ASSUME QueueType
    PROVE  /\ Orphans \in Seq(Callers)
           /\ Orphans = <<>> <=> lockQueue = <<>>
           /\ Orphaned \in Work \union {None}
           /\ Orphaned = None <=> held = None
           /\ Orphaned # None => /\ ~Orphaned.current
                                 /\ Orphaned.want = held.want
                                 /\ Orphaned.called = held.called
  <1>1. lockQueue \in Seq(Callers) /\ held \in Work \union {None}
    BY DEF QueueType
  <1>2. Orphans \in Seq(Callers) /\ Len(Orphans) = Len(lockQueue)
    BY <1>1 DEF Orphans, Callers
  <1>3. CASE held = None
    BY <1>1, <1>2, <1>3 DEF Orphaned
  <1>4. CASE held # None
    <2>1. held \in Work
      BY <1>1, <1>4
    <2>2. Orphaned = [want |-> held.want, called |-> held.called, current |-> FALSE]
      BY <2>1, <1>4 DEF Orphaned, Work
    <2>3. Orphaned \in Work
      BY <2>1, <2>2 DEF Work
    <2>4. Orphaned # None
      BY <2>3, SyncAssumption
    <2> QED
      BY <1>1, <1>2, <1>4, <2>2, <2>3, <2>4
  <1> QED
    BY <1>3, <1>4

LEMMA QuietInstall ==
    ASSUME QuietInv, NEW a, InstallService(a)
    PROVE  QuietInv'
  <1> USE DEF QuietInv
  <1>1. lockQueue' \in Seq(Callers) /\ lockQueue' # <<>>
    BY Orphaning DEF InstallService, Callers
  <1>2. QueueType'
    BY <1>1, Orphaning DEF QueueType, InstallService
  <1>3. HeldIsLocked' /\ StopIsComing'
    BY <1>1 DEF HeldIsLocked, StopIsComing
  <1>4. WorkIsDone'
    BY Orphaning DEF WorkIsDone, InstallService
  <1>5. RunningIsAssumed'
    BY DEF RunningIsAssumed, InstallService
  <1> QED
    BY <1>2, <1>3, <1>4, <1>5

LEMMA QuietTake ==
    ASSUME QuietInv, TakeService, assumed' \in BOOLEAN, desired' = desired
    PROVE  QuietInv'
  <1> USE DEF QuietInv, TakeService
  <1>1. QueueType'
    BY Orphaning DEF QueueType
  <1>2. HeldIsLocked'
    BY Orphaning DEF HeldIsLocked
  <1>3. WorkIsDone'
    BY Orphaning DEF WorkIsDone
  <1>4. RunningIsAssumed' /\ StopIsComing'
    BY DEF RunningIsAssumed, StopIsComing
  <1> QED
    BY <1>1, <1>2, <1>3, <1>4

LEMMA QuietWish ==
    ASSUME QuietInv, NEW wish \in BOOLEAN, SetDesired(wish)
    PROVE  QuietInv'
  <1> USE DEF QuietInv, SetDesired
  <1>1. /\ lockQueue' \in Seq(Callers)
        /\ lockQueue # <<>> => lockQueue' # <<>>
        /\ ~(desired = wish /\ assumed = wish) => lockQueue' # <<>>
    BY DEF QueueType, Callers
  <1>2. QueueType'
    BY <1>1 DEF QueueType
  <1>3. HeldIsLocked' /\ WorkIsDone' /\ RunningIsAssumed'
    BY <1>1 DEF HeldIsLocked, WorkIsDone, RunningIsAssumed
  <1>4. StopIsComing'
    BY <1>1 DEF StopIsComing
  <1> QED
    BY <1>2, <1>3, <1>4

LEMMA QuietApply ==
    ASSUME QuietInv, Apply
    PROVE  QuietInv'
  <1> USE DEF QuietInv
  <1>1. CASE ApplyLooks
    <2>1. CASE (assumed = desired \/ service = None) /\ Release
      <3> lockQueue \in Seq(Callers) /\ lockQueue # <<>> /\ lockQueue' = Tail(lockQueue)
        BY <1>1, <2>1 DEF ApplyLooks, Release, QueueType
      <3>1. lockQueue' \in Seq(Callers)
        OBVIOUS
      <3>2. held = None /\ held' = None /\ UNCHANGED <<desired, assumed, service, run>>
        BY <1>1, <2>1 DEF ApplyLooks, Release
      <3>3. QueueType'
        BY <3>1, <3>2 DEF QueueType
      <3>4. HeldIsLocked' /\ WorkIsDone' /\ RunningIsAssumed'
        BY <3>2 DEF HeldIsLocked, WorkIsDone, RunningIsAssumed
      <3>5. StopIsComing'
        BY <2>1, <3>2 DEF StopIsComing, QueueType
      <3> QED
        BY <3>3, <3>4, <3>5
    <2>2. CASE /\ assumed # desired /\ service # None
               /\ held' = [want |-> desired, called |-> FALSE, current |-> TRUE]
               /\ UNCHANGED <<desired, assumed, service, run, lockQueue, listener, heard>>
      <3>1. held = None /\ lockQueue # <<>>
        BY <1>1 DEF ApplyLooks
      <3>2. held' \in Work /\ held'.current /\ ~held'.called
        BY <2>2 DEF QueueType, Work
      <3> QED
        BY <2>2, <3>1, <3>2
           DEF QueueType, HeldIsLocked, WorkIsDone, RunningIsAssumed, StopIsComing
    <2> QED
      BY <1>1, <2>1, <2>2 DEF ApplyLooks
  <1>2. CASE ApplyCalls
    <2>1. held \in Work
      BY <1>2 DEF ApplyCalls, QueueType
    <2>2. held' = [want |-> held.want, called |-> TRUE, current |-> held.current]
      BY <1>2, <2>1 DEF ApplyCalls, Work
    <2>3. held' \in Work /\ held' # None /\ held # None
      BY <1>2, <2>1, <2>2, SyncAssumption DEF Work, ApplyCalls
    <2>4. /\ UNCHANGED <<desired, assumed, service, lockQueue>>
          /\ run' = IF ~held.current THEN run ELSE IF held.want THEN "running" ELSE "idle"
      BY <1>2 DEF ApplyCalls
    <2>5. QueueType' /\ HeldIsLocked' /\ StopIsComing'
      BY <2>3, <2>4 DEF QueueType, HeldIsLocked, StopIsComing
    <2>6. WorkIsDone' /\ RunningIsAssumed'
      BY <2>2, <2>3, <2>4 DEF WorkIsDone, RunningIsAssumed
    <2> QED
      BY <2>5, <2>6
  <1>3. CASE ApplyRecords
    <2>1. held \in Work /\ held # None /\ held.called
      BY <1>3 DEF ApplyRecords, QueueType
    <2>2. /\ assumed' = held.want /\ held' = None
          /\ UNCHANGED <<desired, service, run, lockQueue>>
      BY <1>3 DEF ApplyRecords, Outcome
    <2>3. assumed' \in BOOLEAN /\ lockQueue' # <<>>
      BY <2>1, <2>2 DEF Work, HeldIsLocked
    <2>4. run = "running" => held.want
      BY <2>1 DEF WorkIsDone
    <2> QED
      BY <2>1, <2>2, <2>3, <2>4
         DEF QueueType, HeldIsLocked, WorkIsDone, RunningIsAssumed, StopIsComing
  <1> QED
    BY <1>1, <1>2, <1>3 DEF Apply

\* Whoever ends the run of a service without a reconciliation.
LEMMA QuietHalt ==
    ASSUME QuietInv, run' # "running", assumed' \in {assumed, FALSE},
           UNCHANGED <<desired, service, lockQueue, held>>
    PROVE  QuietInv'
  <1> USE DEF QuietInv
  <1>1. QueueType'
    BY DEF QueueType
  <1>2. HeldIsLocked' /\ WorkIsDone' /\ RunningIsAssumed'
    BY DEF HeldIsLocked, WorkIsDone, RunningIsAssumed
  <1>3. StopIsComing'
    BY DEF StopIsComing, QueueType
  <1> QED
    BY <1>1, <1>2, <1>3

LEMMA QuietListens ==
    ASSUME QuietInv, ListenerHears
    PROVE  QuietInv'
  <1> USE DEF QuietInv
  <1>1. lockQueue' \in Seq(Callers) /\ (lockQueue # <<>> => lockQueue' # <<>>)
    BY DEF QueueType, Callers, ListenerHears
  <1>2. run = "error" /\ assumed' = FALSE /\ UNCHANGED <<desired, service, run, held>>
    BY DEF ListenerHears, ErrorIsNew
  <1>3. QueueType' /\ HeldIsLocked' /\ StopIsComing'
    BY <1>1, <1>2 DEF QueueType, HeldIsLocked, StopIsComing
  <1>4. WorkIsDone' /\ RunningIsAssumed'
    BY <1>2 DEF WorkIsDone, RunningIsAssumed
  <1> QED
    BY <1>3, <1>4

LEMMA QuietStutter ==
    ASSUME QuietInv, UNCHANGED <<desired, assumed, service, run, lockQueue, held>>
    PROVE  QuietInv'
  BY DEF QuietInv, QueueType, HeldIsLocked, WorkIsDone, RunningIsAssumed, StopIsComing

\* Of one session that is set up once, in the background: no service is left
\* running by the starts, stops and errors that came in between
\* (apply_sync_service_desired_state).
THEOREM QuietOnce == SyncSpec => []BackgroundIsQuiet
  <1>1. QuietInv /\ [SyncNext]_syncVars => QuietInv'
    <2> SUFFICES ASSUME QuietInv, [SyncNext]_syncVars PROVE QuietInv'
      OBVIOUS
    <2>1. CASE \E a \in Users : SetUp(a)
      BY <2>1, QuietInstall DEF SetUp
    <2>2. CASE \E wish \in BOOLEAN : SetDesired(wish)
      BY <2>2, QuietWish
    <2>3. CASE Apply
      BY <2>3, QuietApply
    <2>4. CASE ServiceFails
      BY <2>4, QuietHalt DEF ServiceFails
    <2>5. CASE ListenerHears
      BY <2>5, QuietListens
    <2>6. CASE UNCHANGED syncVars
      BY <2>6, QuietStutter DEF syncVars
    <2> QED
      BY <2>1, <2>2, <2>3, <2>4, <2>5, <2>6 DEF SyncNext
  <1> QED
    BY <1>1, QuietInit, QuietImplies, PTL DEF SyncSpec
----------------------------------------------------------------------------
(* The foreground.                                                         *)

\* A service that should run has somebody to start it.
StartIsComing == (desired /\ ~assumed /\ service # None) => lockQueue # <<>>

\* No service was taken away: work is on the service that is there.
Undisturbed == /\ service = None => ~assumed /\ held = None
               /\ held # None => held.current

\* What is assumed to run runs, or has failed; and so does what was just started.
AssumedRuns ==
    /\ (held = None /\ service # None /\ run = "idle") => ~assumed
    /\ (held # None /\ held.called /\ held.want) => run # "idle"

ForegroundInv == QueueType /\ StartIsComing /\ Undisturbed /\ AssumedRuns

LEMMA ForegroundImplies ==
    ASSUME QueueType, HeldIsLocked, StartIsComing, AssumedRuns
    PROVE  ForegroundSyncs
  BY DEF QueueType, HeldIsLocked, StartIsComing, AssumedRuns, ForegroundSyncs, Settled

\* What the holder of the lock can do to the work under way.
LEMMA ApplyFacts ==
    ASSUME QueueType, Apply
    PROVE  /\ UNCHANGED <<desired, service>>
           /\ \/ /\ held = None /\ held' = None /\ lockQueue' \in Seq(Callers)
                 /\ assumed = desired \/ service = None
                 /\ UNCHANGED <<assumed, run>>
              \/ /\ held = None /\ service # None /\ held' \in Work /\ held' # None
                 /\ held'.current /\ ~held'.called
                 /\ UNCHANGED <<assumed, run, lockQueue>>
              \/ /\ held # None /\ held' \in Work /\ held' # None
                 /\ held'.current = held.current /\ held'.want = held.want
                 /\ (held.current /\ held.want) => run' = "running"
                 /\ UNCHANGED <<assumed, lockQueue>>
              \/ /\ held # None /\ held \in Work /\ held.called /\ held' = None
                 /\ assumed' = held.want
                 /\ UNCHANGED <<run, lockQueue>>
  <1>1. CASE ApplyLooks
    <2>1. CASE (assumed = desired \/ service = None) /\ Release
      <3>1. lockQueue \in Seq(Callers) /\ lockQueue # <<>> /\ lockQueue' = Tail(lockQueue)
        BY <1>1, <2>1 DEF ApplyLooks, Release, QueueType
      <3>2. lockQueue' \in Seq(Callers)
        BY <3>1
      <3> QED
        BY <1>1, <2>1, <3>2 DEF ApplyLooks, Release
    <2>2. CASE /\ assumed # desired /\ service # None
               /\ held' = [want |-> desired, called |-> FALSE, current |-> TRUE]
               /\ UNCHANGED <<desired, assumed, service, run, lockQueue, listener, heard>>
      <3>1. held' \in Work /\ held'.current /\ ~held'.called
        BY <2>2 DEF QueueType, Work
      <3> QED
        BY <1>1, <2>2, <3>1, SyncAssumption DEF ApplyLooks
    <2> QED
      BY <1>1, <2>1, <2>2 DEF ApplyLooks
  <1>2. CASE ApplyCalls
    <2>1. held \in Work
      BY <1>2 DEF ApplyCalls, QueueType
    <2>2. held' = [want |-> held.want, called |-> TRUE, current |-> held.current]
      BY <1>2, <2>1 DEF ApplyCalls, Work
    <2>3. held' \in Work /\ held' # None /\ held # None
      BY <1>2, <2>1, <2>2, SyncAssumption DEF Work, ApplyCalls
    <2> QED
      BY <1>2, <2>2, <2>3 DEF ApplyCalls
  <1>3. CASE ApplyRecords
    BY <1>3 DEF ApplyRecords, Outcome, QueueType
  <1> QED
    BY <1>1, <1>2, <1>3 DEF Apply

\* The steps of a session that nobody takes the service from.
LEMMA QueueNext ==
    ASSUME QueueType, SyncNext
    PROVE  QueueType'
  <1>1. CASE \E a \in Users : SetUp(a)
    <2>1. lockQueue' \in Seq(Callers)
      BY <1>1, Orphaning DEF SetUp, InstallService, Callers
    <2> QED
      BY <1>1, <2>1, Orphaning DEF SetUp, InstallService, QueueType
  <1>2. CASE \E wish \in BOOLEAN : SetDesired(wish)
    BY <1>2 DEF SetDesired, QueueType, Callers
  <1>3. CASE Apply
    BY <1>3, ApplyFacts DEF QueueType, Work
  <1>4. CASE ServiceFails
    BY <1>4 DEF ServiceFails, QueueType
  <1>5. CASE ListenerHears
    <2>1. lockQueue' \in Seq(Callers) /\ held' = held /\ desired' = desired /\ assumed' = FALSE
      BY <1>5 DEF ListenerHears, QueueType, Callers
    <2> QED
      BY <2>1 DEF QueueType
  <1> QED
    BY <1>1, <1>2, <1>3, <1>4, <1>5 DEF SyncNext

LEMMA StartNext ==
    ASSUME QueueType, HeldIsLocked, StartIsComing, SyncNext
    PROVE  StartIsComing'
  <1>1. CASE \E a \in Users : SetUp(a)
    <2>1. lockQueue' # <<>>
      BY <1>1, Orphaning DEF SetUp, InstallService
    <2> QED
      BY <2>1 DEF StartIsComing
  <1>2. CASE \E wish \in BOOLEAN : SetDesired(wish)
    <2>1. PICK wish \in BOOLEAN : SetDesired(wish)
      BY <1>2
    <2>2. /\ lockQueue # <<>> => lockQueue' # <<>>
          /\ ~(desired = wish /\ assumed = wish) => lockQueue' # <<>>
      BY <2>1 DEF SetDesired, QueueType, Callers
    <2> QED
      BY <2>1, <2>2 DEF SetDesired, StartIsComing
  <1>3. CASE Apply
    <2>1. held # None => lockQueue # <<>>
      BY DEF HeldIsLocked
    <2> QED
      BY <1>3, <2>1, ApplyFacts DEF StartIsComing, QueueType
  <1>4. CASE ServiceFails
    BY <1>4 DEF ServiceFails, StartIsComing
  <1>5. CASE ListenerHears
    BY <1>5 DEF ListenerHears, StartIsComing, QueueType, Callers
  <1> QED
    BY <1>1, <1>2, <1>3, <1>4, <1>5 DEF SyncNext

LEMMA UndisturbedNext ==
    ASSUME QueueType, Undisturbed, SyncNext
    PROVE  Undisturbed'
  <1>1. CASE \E a \in Users : SetUp(a)
    <2>1. held = None /\ held' = None
      BY <1>1 DEF SetUp, InstallService, Orphaned, Undisturbed
    <2>2. service' # None
      BY <1>1, SyncAssumption DEF SetUp, InstallService
    <2> QED
      BY <2>1, <2>2 DEF Undisturbed
  <1>2. CASE \E wish \in BOOLEAN : SetDesired(wish)
    BY <1>2 DEF SetDesired, Undisturbed
  <1>3. CASE Apply
    BY <1>3, ApplyFacts DEF Undisturbed
  <1>4. CASE ServiceFails
    BY <1>4 DEF ServiceFails, Undisturbed
  <1>5. CASE ListenerHears
    BY <1>5 DEF ListenerHears, Undisturbed
  <1> QED
    BY <1>1, <1>2, <1>3, <1>4, <1>5 DEF SyncNext

LEMMA AssumedNext ==
    ASSUME QueueType, Undisturbed, AssumedRuns, SyncNext
    PROVE  AssumedRuns'
  <1>1. CASE \E a \in Users : SetUp(a)
    BY <1>1 DEF SetUp, InstallService, Orphaned, Undisturbed, AssumedRuns
  <1>2. CASE \E wish \in BOOLEAN : SetDesired(wish)
    BY <1>2 DEF SetDesired, AssumedRuns
  <1>3. CASE Apply
    BY <1>3, ApplyFacts DEF Undisturbed, AssumedRuns
  <1>4. CASE ServiceFails
    BY <1>4 DEF ServiceFails, AssumedRuns
  <1>5. CASE ListenerHears
    BY <1>5 DEF ListenerHears, AssumedRuns
  <1> QED
    BY <1>1, <1>2, <1>3, <1>4, <1>5 DEF SyncNext

LEMMA LockedNext ==
    ASSUME QueueType, HeldIsLocked, SyncNext
    PROVE  HeldIsLocked'
  <1>1. CASE \E a \in Users : SetUp(a)
    <2>1. lockQueue' # <<>>
      BY <1>1, Orphaning DEF SetUp, InstallService
    <2> QED
      BY <2>1 DEF HeldIsLocked
  <1>2. CASE \E wish \in BOOLEAN : SetDesired(wish)
    BY <1>2 DEF SetDesired, HeldIsLocked, QueueType, Callers
  <1>3. CASE Apply
    BY <1>3 DEF Apply, ApplyLooks, Release, ApplyCalls, ApplyRecords, HeldIsLocked
  <1>4. CASE ServiceFails
    BY <1>4 DEF ServiceFails, HeldIsLocked
  <1>5. CASE ListenerHears
    BY <1>5 DEF ListenerHears, HeldIsLocked, QueueType, Callers
  <1> QED
    BY <1>1, <1>2, <1>3, <1>4, <1>5 DEF SyncNext

\* Of one session that is set up once, in the foreground: once the
\* reconciliations have settled its service runs, or has failed; no wish is lost
\* to a reconciliation that was under way when it came.
THEOREM ForegroundOnce == SyncSpec => []ForegroundSyncs
  <1> DEFINE Inv == ForegroundInv /\ HeldIsLocked
  <1>1. SyncInit => Inv
    <2>1. ASSUME SyncInit PROVE QueueType
      BY <2>1, QuietInit DEF QuietInv
    <2>2. ASSUME SyncInit PROVE HeldIsLocked /\ StartIsComing /\ Undisturbed /\ AssumedRuns
      BY <2>2 DEF SyncInit, HeldIsLocked, StartIsComing, Undisturbed, AssumedRuns
    <2> QED
      BY <2>1, <2>2 DEF ForegroundInv
  <1>2. Inv /\ [SyncNext]_syncVars => Inv'
    <2> SUFFICES ASSUME Inv, [SyncNext]_syncVars PROVE Inv'
      OBVIOUS
    <2>1. CASE SyncNext
      BY <2>1, QueueNext, StartNext, UndisturbedNext, AssumedNext, LockedNext DEF ForegroundInv
    <2>2. CASE UNCHANGED syncVars
      BY <2>2 DEF syncVars, ForegroundInv, QueueType, HeldIsLocked, StartIsComing, Undisturbed,
             AssumedRuns
    <2> QED
      BY <2>1, <2>2
  <1>3. Inv => ForegroundSyncs
    BY ForegroundImplies DEF ForegroundInv
  <1> QED
    BY <1>1, <1>2, <1>3, PTL DEF SyncSpec

----------------------------------------------------------------------------
(* The types of the reconciliations, for the modules that extend them.     *)

LEMMA OrphanTypes ==
    ASSUME SyncTypeOK
    PROVE  Orphans \in Seq(Callers) /\ Orphaned \in Work \union {None}
  BY Orphaning DEF SyncTypeOK, QueueType

LEMMA SetUpTypes ==
    ASSUME SyncTypeOK, NEW a \in Users, SetUp(a)
    PROVE  SyncTypeOK'
  <1>1. Append(Orphans, "main") \in Seq(Callers)
    BY OrphanTypes DEF Callers
  <1> QED
    BY <1>1, OrphanTypes DEF SetUp, InstallService, SyncTypeOK

LEMMA TakeTypes ==
    ASSUME SyncTypeOK, TakeService, assumed' \in BOOLEAN, desired' \in BOOLEAN
    PROVE  SyncTypeOK'
  BY OrphanTypes DEF TakeService, SyncTypeOK

LEMMA WishTypes ==
    ASSUME SyncTypeOK, NEW wish \in BOOLEAN, SetDesired(wish)
    PROVE  SyncTypeOK'
  <1>1. Append(lockQueue, "ui") \in Seq(Callers)
    BY DEF SyncTypeOK, Callers
  <1> QED
    BY <1>1 DEF SetDesired, SyncTypeOK

LEMMA ApplyTypes ==
    ASSUME SyncTypeOK, Apply
    PROVE  SyncTypeOK'
  <1>1. CASE ApplyLooks
    <2>1. CASE (assumed = desired \/ service = None) /\ Release
      <3>1. lockQueue \in Seq(Callers) /\ lockQueue # <<>>
        BY <1>1 DEF ApplyLooks, SyncTypeOK
      <3>2. Tail(lockQueue) \in Seq(Callers)
        BY <3>1
      <3> QED
        BY <2>1, <3>2 DEF Release, SyncTypeOK
    <2>2. CASE /\ assumed # desired /\ service # None
               /\ held' = [want |-> desired, called |-> FALSE, current |-> TRUE]
               /\ UNCHANGED <<desired, assumed, service, run, lockQueue, listener, heard>>
      <3>1. held' \in Work
        BY <2>2 DEF SyncTypeOK, Work
      <3> QED
        BY <2>2, <3>1 DEF SyncTypeOK
    <2> QED
      BY <1>1, <2>1, <2>2 DEF ApplyLooks
  <1>2. CASE ApplyCalls
    <2>1. held \in Work
      BY <1>2 DEF ApplyCalls, SyncTypeOK
    <2>2. held' \in Work
      BY <1>2, <2>1 DEF ApplyCalls, Work
    <2>3. heard' \in BOOLEAN
      BY <1>2 DEF ApplyCalls
    <2> QED
      BY <1>2, <2>2, <2>3 DEF ApplyCalls, SyncTypeOK
  <1>3. CASE ApplyRecords
    <2>1. held.want \in BOOLEAN
      BY <1>3 DEF ApplyRecords, SyncTypeOK, Work
    <2> QED
      BY <1>3, <2>1 DEF ApplyRecords, Outcome, SyncTypeOK
  <1> QED
    BY <1>1, <1>2, <1>3 DEF Apply

LEMMA ErrorTypes ==
    ASSUME SyncTypeOK, ServiceFails \/ ListenerHears
    PROVE  SyncTypeOK'
  <1>1. Append(lockQueue, "listener") \in Seq(Callers)
    BY DEF SyncTypeOK, Callers
  <1> QED
    BY <1>1 DEF ServiceFails, ListenerHears, SyncTypeOK

=============================================================================
