-------------------------- MODULE TimelinePagination ---------------------------
(***************************************************************************)
(* Backwards pagination of one timeline.  Many ask for it: the screen to   *)
(* fill its viewport, when it is scrolled and while it searches for an     *)
(* event; the rooms list, the task that searches and the Retry of an error *)
(* ask for it behind the screen's back.  TimelinePaginationStatus lets one *)
(* task at a time do it; what else is asked for is dropped without a word. *)
(* The screen keeps a flag of its own, and asks for nothing more until an  *)
(* update clears it.                                                       *)
(***************************************************************************)
EXTENDS Naturals, Sequences

CONSTANT MaxPages  \* bound: paginations that are asked for

ASSUME PaginationAssumption == MaxPages \in Nat \ {0}

VARIABLES
    asked,     \* PaginateTimeline requests in the worker's channel
    inFlight,  \* TimelinePaginationStatus::backwards_in_flight
    once,      \* backwards_completed_once
    pages,     \* every pagination task: its stage, and its outcome
    updates,   \* its TimelineUpdates on their way to the screen
    screen,    \* whether a room screen has the timeline, or dropped it
    waits,     \* TimelineUiState.backwards_pagination_in_flight
    atStart,   \* TimelineUiState.fully_paginated
    searching  \* the loading pane searches for an event

pageVars == <<asked, inFlight, once, pages, updates, screen, waits, atStart, searching>>

Terminal == {"Idle", "Start", "Error"}
Page == [at : {"starting", "paging", "freeing", "telling", "over"}, outcome : Terminal]

PaginationTypeOK ==
    /\ asked \in Nat
    /\ {inFlight, once, waits, atStart, searching} \subseteq BOOLEAN
    /\ pages \in Seq(Page)
    /\ updates \in Seq({"Running"} \union Terminal)
    /\ screen \in {"none", "open", "dropped"}

PaginationInit ==
    /\ asked = 0
    /\ inFlight = FALSE /\ once = FALSE
    /\ waits = FALSE /\ atStart = FALSE /\ searching = FALSE
    /\ pages = <<>> /\ updates = <<>>
    /\ screen = "none"

----------------------------------------------------------------------------
(* The worker, and the tasks it spawns.                                    *)

\* One is under way: this one is dropped.
DropsDuplicate == inFlight /\ UNCHANGED <<inFlight, pages>>

Spawns ==
    /\ ~inFlight
    /\ inFlight' = TRUE
    /\ pages' = Append(pages, [at |-> "starting", outcome |-> "Idle"])

TakesRequest ==
    /\ asked > 0
    /\ asked' = asked - 1
    /\ DropsDuplicate \/ Spawns
    /\ UNCHANGED <<once, updates, screen, waits, atStart, searching>>

\* An update to a screen that is gone is lost.
Send(update) == updates' = IF screen = "dropped" THEN updates ELSE Append(updates, update)

\* Mutated form of After: the flag is freed when the screen was told.
AfterTold == [paging |-> "telling", telling |-> "freeing", freeing |-> "over"]

\* PaginationInFlightGuard::finish comes before the terminal update.
After == [paging |-> "freeing", freeing |-> "telling", telling |-> "over"]

Steps(p, from, to) == pages[p].at = from /\ pages' = [pages EXCEPT ![p].at = to]

\* Without a screen to tell, the guard is dropped, and frees the flag.
Starts(p) ==
    /\ Steps(p, "starting", IF screen = "dropped" THEN "over" ELSE "paging")
    /\ inFlight' = (inFlight /\ screen # "dropped")
    /\ Send("Running")
    /\ UNCHANGED <<asked, once, screen, waits, atStart, searching>>

\* The homeserver answers, after a second try if the batch token was invalid.
Answers(p) ==
    /\ pages[p].at = "paging"
    /\ \E outcome \in Terminal :
          pages' = [pages EXCEPT ![p] = [at |-> After["paging"], outcome |-> outcome]]
    /\ UNCHANGED <<asked, inFlight, once, updates, screen, waits, atStart, searching>>

Frees(p) ==
    /\ Steps(p, "freeing", After["freeing"])
    /\ inFlight' = FALSE
    /\ once' = (once \/ pages[p].outcome # "Error")
    /\ UNCHANGED <<asked, updates, screen, waits, atStart, searching>>

\* The guard, no longer active, is dropped.
AfterDrop == inFlight

Tells(p) ==
    /\ Steps(p, "telling", After["telling"])
    /\ Send(pages[p].outcome)
    /\ inFlight' = AfterDrop
    /\ UNCHANGED <<asked, once, screen, waits, atStart, searching>>

----------------------------------------------------------------------------
(* Who asks.                                                               *)

Room == asked + Len(pages) < MaxPages
Asks == Room /\ asked' = asked + 1 /\ waits' = TRUE

\* The screen shows the timeline for the first time: unless pagination has
\* begun before, it asks for it.
Opens ==
    /\ screen = "none"
    /\ screen' = "open"
    /\ IF inFlight \/ once THEN waits' = inFlight /\ UNCHANGED asked ELSE Asks
    /\ UNCHANGED <<inFlight, once, pages, updates, atStart, searching>>

\* The viewport is not filled, or scrolled up to the first item.
FillsViewport ==
    /\ screen = "open"
    /\ ~atStart
    /\ ~waits
    /\ Asks
    /\ UNCHANGED <<inFlight, once, pages, updates, screen, atStart, searching>>

\* The rooms list, the subscriber's search, Retry, an ignored user.
OthersAsk ==
    /\ Room
    /\ asked' = asked + 1
    /\ UNCHANGED <<inFlight, once, pages, updates, screen, waits, atStart, searching>>

\* A search begins, succeeds, or is given up.
TogglesSearch ==
    /\ screen = "open"
    /\ searching' = ~searching
    /\ UNCHANGED <<asked, inFlight, once, pages, updates, screen, waits, atStart>>

\* The screen and its receiver are dropped for good.
DropsScreen ==
    /\ screen = "open"
    /\ screen' = "dropped"
    /\ updates' = <<>>
    /\ waits' = FALSE /\ searching' = FALSE
    /\ UNCHANGED <<asked, inFlight, once, pages, atStart>>

----------------------------------------------------------------------------
(* The screen handles an update; a search goes on after it.                *)

HandlesRunning ==
    /\ Head(updates) = "Running"
    /\ waits' = TRUE
    /\ UNCHANGED <<asked, atStart>>

\* An error ends no search, and continues none.
HandlesError ==
    /\ Head(updates) = "Error"
    /\ waits' = inFlight
    /\ UNCHANGED <<asked, atStart>>

HandlesIdle ==
    /\ Head(updates) \in {"Idle", "Start"}
    /\ atStart' = (Head(updates) = "Start")
    /\ IF searching /\ (Head(updates) = "Idle" \/ inFlight)
         THEN Asks
         ELSE waits' = inFlight /\ UNCHANGED asked

HandlesUpdate ==
    /\ screen = "open"
    /\ updates # <<>>
    /\ updates' = Tail(updates)
    /\ HandlesRunning \/ HandlesError \/ HandlesIdle
    /\ UNCHANGED <<inFlight, once, pages, screen, searching>>

\* A snapshot of the items: one that changes what is above the viewport has a
\* search go on, and one of other items may not reach the timeline's start.  An
\* empty one asks for more.
HandlesSnapshot ==
    /\ screen = "open"
    /\ \/ atStart' = FALSE /\ ~searching /\ UNCHANGED <<asked, waits>>
       \/ atStart' = FALSE /\ searching /\ Asks
       \/ Asks /\ UNCHANGED atStart
    /\ UNCHANGED <<inFlight, once, pages, updates, screen, searching>>

PageTask(p) == Starts(p) \/ Answers(p) \/ Frees(p) \/ Tells(p)

PaginationNext ==
    \/ TakesRequest
    \/ \E p \in DOMAIN pages : PageTask(p)
    \/ Opens \/ FillsViewport \/ OthersAsk \/ TogglesSearch \/ DropsScreen
    \/ HandlesUpdate \/ HandlesSnapshot

PaginationSpec == PaginationInit /\ [][PaginationNext]_pageVars

----------------------------------------------------------------------------
(* Properties.                                                             *)

\* A screen that waits for a pagination, and asks for none meanwhile, is told
\* of its end: the request, the task or the update is on its way, although
\* requests are dropped and the flag is read later than it was freed
\* (PaginationInFlightGuard::finish: "before the terminal UI notification").
AnswerIsComing ==
    waits => \/ asked > 0
             \/ \E p \in DOMAIN pages : pages[p].at # "over"
             \/ \E i \in DOMAIN updates : updates[i] \in Terminal

\* Tasks that may page: one at a time has the flag.
Holders == {p \in DOMAIN pages : pages[p].at \in {"starting", "paging", "freeing"}}

\* One task at a time pages a timeline, and it holds the flag.
OnePageAtATime == \A p, q \in Holders : p = q /\ inFlight
=============================================================================
