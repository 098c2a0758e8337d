----------------------------- MODULE AppStateFile ------------------------------
(***************************************************************************)
(* The app state and the file per account it is saved to                   *)
(* (persistence/app_state.rs).  The UI thread saves App::app_state to the  *)
(* file of whoever is logged in; a task per session loads the account's    *)
(* file and posts what it found, which then replaces App::app_state.  A    *)
(* file is truncated before it is written, and a crash, or a load, can     *)
(* come in between.                                                        *)
(*                                                                         *)
(* Of the state only the agent registry is told apart, as the accounts     *)
(* whose agents it holds; the empty registry stands for the default state. *)
(***************************************************************************)
EXTENDS Naturals, Sequences

CONSTANTS
    Owners,       \* the accounts
    Nobody,       \* no account, no file
    MaxSessions,  \* bound: logins and switches
    MaxCrashes    \* bound: crashes

ASSUME AppStateAssumption == /\ Nobody \notin Owners
                             /\ MaxSessions \in Nat \ {0}
                             /\ MaxCrashes \in Nat

VARIABLES
    memory,    \* App::app_state
    files,     \* latest_app_state.json of every account
    writing,   \* whose file the UI thread has truncated and not written
    user,      \* current_user_id: of CLIENT
    session,   \* how many sessions there have been
    loads,     \* handle_load_app_state tasks that have not read yet
    inbox,     \* what was posted to the UI thread: restores, and one clearing
    skip,      \* accounts with a skip_app_state_restore_once marker
    lastSave,  \* AppLifecycle::last_app_state_save
    crashes    \* how often the app crashed

appStateVars == <<memory, files, writing, user, session, loads, inbox, skip, lastSave,
                  crashes>>

States == SUBSET Owners
Default == {}
Missing == [is |-> "missing", state |-> Default]
Torn == [is |-> "torn", state |-> Default]
Whole(state) == [is |-> "whole", state |-> state]
Restore(s, state) == [kind |-> "restore", session |-> s, state |-> state]
Clearing == [kind |-> "clear", session |-> 0, state |-> Default]

AppStateTypeOK ==
    /\ memory \in States
    /\ files \in [Owners -> {Missing, Torn} \union {Whole(state) : state \in States}]
    /\ {writing, user} \subseteq Owners \union {Nobody}
    /\ session \in 0..MaxSessions
    /\ loads \subseteq [session : 1..MaxSessions, owner : Owners]
    /\ \A i \in DOMAIN inbox : inbox[i] = Clearing \/ inbox[i].state \in States \ {Default}
    /\ skip \subseteq Owners
    /\ crashes \in 0..MaxCrashes

AppStateInit ==
    /\ memory = Default
    /\ files = [a \in Owners |-> Missing]
    /\ writing = Nobody /\ user = Nobody /\ lastSave = <<>>
    /\ session = 0 /\ crashes = 0
    /\ loads = {} /\ skip = {}
    /\ inbox = <<>>

----------------------------------------------------------------------------
(* The UI thread, which does nothing else while it saves.                  *)

\* File::create truncates the file of the account that is logged in, if any.
Saves(state) ==
    /\ memory' = state
    /\ IF user = Nobody
         THEN UNCHANGED <<files, writing>>
         ELSE /\ writing' = user
              /\ files' = [files EXCEPT ![user] = Torn]

\* The bytes reach the file; or the backup, if a load has moved it away.
EndsSave ==
    /\ writing # Nobody
    /\ writing' = Nobody
    /\ files' = [files EXCEPT ![writing] = IF @ = Torn THEN Whole(memory) ELSE @]
    /\ UNCHANGED <<memory, user, session, loads, inbox, skip, lastSave, crashes>>

\* An agent is registered, or removed: the state is saved directly.
EditsState ==
    /\ writing = Nobody
    /\ user # Nobody
    /\ \/ Saves(memory \union {user})
       \/ \E b \in memory : Saves(memory \ {b})
    /\ UNCHANGED <<user, session, loads, inbox, skip, lastSave, crashes>>

\* persist_runtime_state, at pause, background, close, quit and shutdown: not
\* twice in a row for the same account and state.
Persists ==
    /\ writing = Nobody
    /\ user # Nobody
    /\ lastSave # <<user, memory>>
    /\ Saves(memory)
    /\ lastSave' = <<user, memory>>
    /\ UNCHANGED <<user, session, loads, inbox, skip, crashes>>

\* What was posted replaces the state, which is saved again if bindings of
\* rooms that are gone had to be pruned.
HandlesRestore ==
    /\ writing = Nobody
    /\ inbox # <<>>
    /\ Head(inbox).kind = "restore"
    /\ inbox' = Tail(inbox)
    /\ \/ Saves(Head(inbox).state)
       \/ memory' = Head(inbox).state /\ UNCHANGED <<files, writing>>
    /\ UNCHANGED <<user, session, loads, skip, lastSave, crashes>>

\* LogoutAction::ClearAppState
HandlesClearing ==
    /\ writing = Nobody
    /\ inbox # <<>>
    /\ Head(inbox).kind = "clear"
    /\ inbox' = Tail(inbox)
    /\ memory' = Default
    /\ UNCHANGED <<files, writing, user, session, loads, skip, lastSave, crashes>>

----------------------------------------------------------------------------
(* Sessions.                                                               *)

\* A session begins, after a login or a switch: CLIENT is set and a task spawned
\* that loads the state.  After a logout the UI thread has cleared its own.
BeginsSession(a) ==
    /\ user = Nobody
    /\ ~\E i \in DOMAIN inbox : inbox[i] = Clearing
    /\ session < MaxSessions
    /\ session' = session + 1
    /\ user' = a
    /\ loads' = loads \union {[session |-> session + 1, owner |-> a]}
    /\ UNCHANGED <<memory, files, writing, inbox, skip, lastSave, crashes>>

\* A switch clears rooms and tabs, and keeps the rest of the state.
LeavesForSwitch ==
    /\ user # Nobody
    /\ user' = Nobody
    /\ UNCHANGED <<memory, files, writing, session, loads, inbox, skip, lastSave, crashes>>

LogsOutExplicitly ==
    /\ user # Nobody
    /\ user' = Nobody
    /\ skip' = skip \union {user}
    /\ inbox' = Append(inbox, Clearing)
    /\ UNCHANGED <<memory, files, writing, session, loads, lastSave, crashes>>

\* load_app_state: a marker is consumed instead; a file that cannot be read is
\* moved away; the default state is not worth restoring.
Loads(l) ==
    /\ loads' = loads \ {l}
    /\ skip' = skip \ {l.owner}
    /\ LET found == IF l.owner \in skip THEN Missing ELSE files[l.owner]
       IN  /\ files' = IF found = Torn THEN [files EXCEPT ![l.owner] = Missing] ELSE files
           /\ inbox' = IF found.state = Default THEN inbox
                       ELSE Append(inbox, Restore(l.session, found.state))
    /\ UNCHANGED <<memory, writing, user, session, lastSave, crashes>>

\* The process ends at any point, and is started again.
Crashes ==
    /\ crashes < MaxCrashes
    /\ crashes' = crashes + 1
    /\ memory' = Default
    /\ writing' = Nobody /\ user' = Nobody /\ lastSave' = <<>>
    /\ loads' = {}
    /\ inbox' = <<>>
    /\ UNCHANGED <<files, session, skip>>

AppStateNext ==
    \/ EndsSave \/ EditsState \/ Persists \/ HandlesRestore \/ HandlesClearing
    \/ \E a \in Owners : BeginsSession(a)
    \/ LeavesForSwitch \/ LogsOutExplicitly \/ Crashes
    \/ \E l \in loads : Loads(l)

AppStateSpec == AppStateInit /\ [][AppStateNext]_appStateVars

----------------------------------------------------------------------------
(* Properties.                                                             *)

\* "Distinct accounts map to distinct storage paths, so one account's saved
\* state can never overwrite another's" (test_agent_registry_persists_per_
\* account_no_cross_leak): an account's file holds agents of that account.
AccountsStayApart == \A a \in Owners : files[a].state \subseteq {a}
=============================================================================
