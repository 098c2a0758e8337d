----------------------------- MODULE TimelineProofs ----------------------------
(***************************************************************************)
(* Proofs about a timeline and the room screen that shows it.              *)
(*                                                                         *)
(* Pagination: one task at a time pages it, and a screen that waits for a  *)
(* pagination is told of its end, for any number of requests, tasks and    *)
(* updates.                                                                *)
(*                                                                         *)
(* Subscriber: what is drawn is what the screen has, for any events, any   *)
(* lengths of the items, of the batches and of the channel.  Each update   *)
(* says what is other than in the snapshot before it, so the argument is   *)
(* about the chain of snapshots between the screen's items and the task's. *)
(*                                                                         *)
(* Searches, in a timeline that grows: an answer is right when it arrives, *)
(* and no search waits in vain for what the task has.  Each snapshot in    *)
(* the chain is shorter than the task's items, or is them, and each answer *)
(* in between points at the target in the snapshot before it.              *)
(***************************************************************************)
EXTENDS TimelineSubscriber, TimelinePagination, TLAPS

----------------------------------------------------------------------------
(* Pagination.                                                             *)

\* Those that still have something to tell after they said "Running".
Telling == {p \in DOMAIN pages : pages[p].at \in {"paging", "freeing", "telling"}}

\* The flag stands for a task that will free it; a screen that was dropped is
\* told nothing; and every "Running" is followed by the end of a pagination.
FlagHasHolder == inFlight => Holders # {}
DroppedIsSilent == screen = "dropped" => (~waits /\ updates = <<>>)
RunningEnds ==
    \A i \in DOMAIN updates :
        updates[i] = "Running" => \/ \E j \in DOMAIN updates : j > i /\ updates[j] \in Terminal
                                  \/ Telling # {}

PageInv == /\ PaginationTypeOK
           /\ OnePageAtATime
           /\ FlagHasHolder
           /\ DroppedIsSilent
           /\ RunningEnds
           /\ AnswerIsComing

LEMMA FlagsType ==
    ASSUME PaginationTypeOK
    PROVE  /\ inFlight \in BOOLEAN /\ once \in BOOLEAN /\ waits \in BOOLEAN
           /\ atStart \in BOOLEAN /\ searching \in BOOLEAN
  BY Zenon DEF PaginationTypeOK

\* The stages of the pages are all that a step of a task changes, one of them.
LEMMA StepsFacts ==
    ASSUME pages \in Seq(Page), NEW p \in DOMAIN pages, NEW from, NEW to,
           to \in {"starting", "paging", "freeing", "telling", "over"}, Steps(p, from, to)
    PROVE  /\ pages' \in Seq(Page)
           /\ DOMAIN pages' = DOMAIN pages
           /\ pages[p].at = from /\ pages'[p].at = to
           /\ \A q \in DOMAIN pages : q # p => pages'[q] = pages[q]
  <1>1. pages[p] \in Page
    OBVIOUS
  <1>2. pages' = [pages EXCEPT ![p] = [at |-> to, outcome |-> pages[p].outcome]]
    <2> DEFINE new == [pages[p] EXCEPT !.at = to]
    <2>1. new = [at |-> to, outcome |-> pages[p].outcome]
      BY <1>1 DEF Page
    <2>2. pages' = [pages EXCEPT ![p] = new]
      BY DEF Steps
    <2> HIDE DEF new
    <2> QED
      BY <2>1, <2>2
  <1>3. [at |-> to, outcome |-> pages[p].outcome] \in Page
    BY <1>1 DEF Page
  <1>4. pages' \in Seq(Page) /\ DOMAIN pages' = DOMAIN pages
    BY <1>2, <1>3
  <1>5. pages'[p] = [at |-> to, outcome |-> pages[p].outcome]
    BY <1>2
  <1> QED
    BY <1>2, <1>4, <1>5 DEF Steps

\* A step of the environment changes neither the tasks nor their flag.
LEMMA HoldersStay ==
    ASSUME OnePageAtATime, FlagHasHolder, UNCHANGED <<inFlight, pages>>
    PROVE  OnePageAtATime' /\ FlagHasHolder' /\ Telling' = Telling
  BY DEF OnePageAtATime, FlagHasHolder, Holders, Telling

\* An update more, or none, on its way to a screen.
LEMMA SendFacts ==
    ASSUME updates \in Seq({"Running"} \union Terminal), NEW u \in {"Running"} \union Terminal,
           Send(u)
    PROVE  /\ updates' \in Seq({"Running"} \union Terminal)
           /\ screen = "dropped" => updates' = updates
           /\ \A i \in DOMAIN updates : i \in DOMAIN updates' /\ updates'[i] = updates[i]
           /\ screen # "dropped" => /\ Len(updates) + 1 \in DOMAIN updates'
                                    /\ updates'[Len(updates) + 1] = u
           /\ \A i \in DOMAIN updates' : i \in DOMAIN updates \/ i = Len(updates) + 1
  BY DEF Send

\* A task begins, goes on, or ends without having said "Running".
LEMMA HoldersMove ==
    ASSUME PageInv, NEW p \in DOMAIN pages, UNCHANGED inFlight,
           DOMAIN pages' = DOMAIN pages,
           \A q \in DOMAIN pages : q # p => pages'[q] = pages[q],
           p \in Holders <=> pages'[p].at \in {"starting", "paging", "freeing"}
    PROVE  OnePageAtATime' /\ FlagHasHolder' /\ Holders' = Holders
  <1>1. Holders' = Holders
    BY DEF Holders
  <1> QED
    BY <1>1 DEF PageInv, OnePageAtATime, FlagHasHolder

\* The task that had the flag frees it.
LEMMA HoldersEnd ==
    ASSUME PageInv, NEW p \in Holders, inFlight' = FALSE,
           DOMAIN pages' = DOMAIN pages,
           \A q \in DOMAIN pages : q # p => pages'[q] = pages[q],
           pages'[p].at \notin {"starting", "paging", "freeing"}
    PROVE  OnePageAtATime' /\ FlagHasHolder'
  <1>1. Holders' = {}
    BY DEF Holders, PageInv, OnePageAtATime
  <1> QED
    BY <1>1 DEF OnePageAtATime, FlagHasHolder

LEMMA PageStarts ==
    ASSUME PageInv, NEW p \in DOMAIN pages, Starts(p)
    PROVE  PageInv'
  <1> USE DEF PageInv
  <1> DEFINE to == IF screen = "dropped" THEN "over" ELSE "paging"
  <1>1. /\ pages' \in Seq(Page) /\ DOMAIN pages' = DOMAIN pages
        /\ pages[p].at = "starting" /\ pages'[p].at = to
        /\ \A q \in DOMAIN pages : q # p => pages'[q] = pages[q]
    <2>1. Steps(p, "starting", to)
      BY DEF Starts
    <2>2. pages \in Seq(Page)
      BY DEF PaginationTypeOK
    <2>3. to \in {"starting", "paging", "freeing", "telling", "over"}
      OBVIOUS
    <2> HIDE DEF to
    <2> QED
      BY <2>1, <2>2, <2>3, StepsFacts
  <1>2. p \in Holders /\ inFlight
    BY <1>1 DEF Holders, OnePageAtATime
  <1>3. PaginationTypeOK'
    <2>1. updates' \in Seq({"Running"} \union Terminal)
      BY DEF Starts, Send, PaginationTypeOK
    <2>2. inFlight' \in BOOLEAN
      BY DEF Starts
    <2>3. UNCHANGED <<asked, once, screen, waits, atStart, searching>>
      BY DEF Starts
    <2> QED
      BY <1>1, <2>1, <2>2, <2>3 DEF PaginationTypeOK
  <1>4. CASE screen = "dropped"
    <2>1. inFlight' = FALSE /\ UNCHANGED <<updates, waits, screen>>
      BY <1>4 DEF Starts, Send
    <2>2. OnePageAtATime' /\ FlagHasHolder'
      BY <1>1, <1>2, <1>4, <2>1, HoldersEnd
    <2>3. DroppedIsSilent' /\ RunningEnds' /\ AnswerIsComing'
      BY <1>4, <2>1 DEF DroppedIsSilent, RunningEnds, AnswerIsComing
    <2> QED
      BY <1>3, <2>2, <2>3
  <1>5. CASE screen # "dropped"
    <2>1. inFlight' = inFlight /\ UNCHANGED <<asked, waits, screen>>
      BY <1>2, <1>5 DEF Starts
    <2>2. OnePageAtATime' /\ FlagHasHolder'
      BY <1>1, <1>2, <1>5, <2>1, HoldersMove
    <2>3. p \in Telling'
      BY <1>1, <1>5 DEF Telling
    <2>4. DroppedIsSilent' /\ RunningEnds' /\ AnswerIsComing'
      BY <1>1, <1>5, <2>1, <2>3 DEF DroppedIsSilent, RunningEnds, AnswerIsComing
    <2> QED
      BY <1>3, <2>2, <2>4
  <1> QED
    BY <1>4, <1>5

LEMMA PageAnswers ==
    ASSUME PageInv, NEW p \in DOMAIN pages, Answers(p)
    PROVE  PageInv'
  <1> USE DEF PageInv
  <1>1. PICK outcome \in Terminal :
           pages' = [pages EXCEPT ![p] = [at |-> "freeing", outcome |-> outcome]]
    BY DEF Answers, After
  <1>2. /\ pages' \in Seq(Page) /\ DOMAIN pages' = DOMAIN pages
        /\ pages[p].at = "paging" /\ pages'[p].at = "freeing"
        /\ \A q \in DOMAIN pages : q # p => pages'[q] = pages[q]
    BY <1>1 DEF Answers, PaginationTypeOK, Page
  <1>3. UNCHANGED <<asked, inFlight, once, updates, screen, waits, atStart, searching>>
    BY DEF Answers
  <1>4. PaginationTypeOK'
    BY <1>2, <1>3 DEF PaginationTypeOK
  <1>5. OnePageAtATime' /\ FlagHasHolder'
    <2>1. p \in Holders
      BY <1>2 DEF Holders
    <2> QED
      BY <1>2, <1>3, <2>1, HoldersMove
  <1>6. p \in Telling'
    BY <1>2 DEF Telling
  <1>7. DroppedIsSilent' /\ RunningEnds' /\ AnswerIsComing'
    BY <1>2, <1>3, <1>6 DEF DroppedIsSilent, RunningEnds, AnswerIsComing
  <1> QED
    BY <1>4, <1>5, <1>7

LEMMA PageFrees ==
    ASSUME PageInv, NEW p \in DOMAIN pages, Frees(p)
    PROVE  PageInv'
  <1> USE DEF PageInv
  <1>1. /\ pages' \in Seq(Page) /\ DOMAIN pages' = DOMAIN pages
        /\ pages[p].at = "freeing" /\ pages'[p].at = "telling"
        /\ \A q \in DOMAIN pages : q # p => pages'[q] = pages[q]
    BY StepsFacts DEF Frees, After, PaginationTypeOK
  <1>2. inFlight' = FALSE /\ UNCHANGED <<asked, updates, screen, waits, atStart, searching>>
    BY DEF Frees
  <1>3. PaginationTypeOK'
    <2>1. once' \in BOOLEAN
      BY DEF Frees
    <2> QED
      BY <1>1, <1>2, <2>1 DEF PaginationTypeOK
  <1>4. OnePageAtATime' /\ FlagHasHolder'
    <2>1. p \in Holders
      BY <1>1 DEF Holders
    <2> QED
      BY <1>1, <1>2, <2>1, HoldersEnd
  <1>5. p \in Telling'
    BY <1>1 DEF Telling
  <1>6. DroppedIsSilent' /\ RunningEnds' /\ AnswerIsComing'
    BY <1>1, <1>2, <1>5 DEF DroppedIsSilent, RunningEnds, AnswerIsComing
  <1> QED
    BY <1>3, <1>4, <1>6

LEMMA PageTells ==
    ASSUME PageInv, NEW p \in DOMAIN pages, Tells(p)
    PROVE  PageInv'
  <1> USE DEF PageInv
  <1>1. /\ pages' \in Seq(Page) /\ DOMAIN pages' = DOMAIN pages
        /\ pages[p].at = "telling" /\ pages'[p].at = "over"
        /\ \A q \in DOMAIN pages : q # p => pages'[q] = pages[q]
    BY StepsFacts DEF Tells, After, PaginationTypeOK
  <1>2. pages[p].outcome \in Terminal
    <2>1. pages \in Seq(Page)
      BY DEF PaginationTypeOK
    <2>2. pages[p] \in Page
      BY <2>1
    <2> QED
      BY <2>2 DEF Page
  <1>3. UNCHANGED <<asked, inFlight, once, screen, waits, atStart, searching>>
    BY DEF Tells, AfterDrop
  <1>4. Send(pages[p].outcome)
    BY DEF Tells
  <1>5. PaginationTypeOK'
    <2>1. updates' \in Seq({"Running"} \union Terminal)
      BY <1>2, <1>4, SendFacts DEF PaginationTypeOK
    <2> QED
      BY <1>1, <1>3, <2>1 DEF PaginationTypeOK
  <1>6. OnePageAtATime' /\ FlagHasHolder'
    <2>1. p \notin Holders
      BY <1>1 DEF Holders
    <2> QED
      BY <1>1, <1>3, <2>1, HoldersMove
  <1>7. CASE screen = "dropped"
    <2>1. UNCHANGED <<updates, waits, screen>>
      BY <1>3, <1>4, <1>7 DEF Send
    <2> QED
      BY <1>5, <1>6, <1>7, <2>1 DEF DroppedIsSilent, RunningEnds, AnswerIsComing
  <1>8. CASE screen # "dropped"
    <2>1. updates' = Append(updates, pages[p].outcome) /\ updates \in Seq({"Running"} \union Terminal)
      BY <1>4, <1>8 DEF Send, PaginationTypeOK
    <2>2. /\ Len(updates) + 1 \in DOMAIN updates'
          /\ updates'[Len(updates) + 1] \in Terminal
          /\ \A i \in DOMAIN updates' : i = Len(updates) + 1 \/ i < Len(updates) + 1
      BY <1>2, <2>1
    <2>3. "Running" \notin Terminal
      BY DEF Terminal
    <2>4. RunningEnds'
      BY <2>2, <2>3 DEF RunningEnds
    <2> QED
      BY <1>3, <1>5, <1>6, <1>8, <2>2, <2>4 DEF DroppedIsSilent, AnswerIsComing
  <1> QED
    BY <1>7, <1>8

\* A request that is taken is dropped for a task that has the flag, or begins one.
LEMMA RequestTaken ==
    ASSUME PageInv, TakesRequest
    PROVE  PageInv'
  <1> USE DEF PageInv
  <1>1. UNCHANGED <<once, updates, screen, waits, atStart, searching>> /\ asked' \in Nat
    BY DEF TakesRequest, PaginationTypeOK
  <1>2. CASE DropsDuplicate
    <2>1. PICK p \in Holders : TRUE
      BY <1>2 DEF DropsDuplicate, FlagHasHolder
    <2>2. p \in DOMAIN pages /\ pages[p].at # "over"
      BY DEF Holders
    <2>3. OnePageAtATime' /\ FlagHasHolder' /\ Telling' = Telling
      BY <1>2, HoldersStay DEF DropsDuplicate
    <2>4. PaginationTypeOK'
      BY <1>1, <1>2 DEF DropsDuplicate, PaginationTypeOK
    <2>5. DroppedIsSilent' /\ RunningEnds' /\ AnswerIsComing'
      BY <1>1, <1>2, <2>2, <2>3 DEF DropsDuplicate, DroppedIsSilent, RunningEnds, AnswerIsComing
    <2> QED
      BY <2>3, <2>4, <2>5
  <1>3. CASE Spawns
    <2> DEFINE new == [at |-> "starting", outcome |-> "Idle"]
    <2>1. new \in Page /\ new.at = "starting"
      BY DEF Page, Terminal
    <2>2. pages \in Seq(Page) /\ pages' = Append(pages, new)
      BY <1>3 DEF Spawns, PaginationTypeOK
    <2> HIDE DEF new
    <2> DEFINE last == Len(pages) + 1
    <2>3. /\ pages' \in Seq(Page)
          /\ last \in DOMAIN pages' /\ pages'[last].at = "starting"
          /\ \A q \in DOMAIN pages : q \in DOMAIN pages' /\ pages'[q] = pages[q]
          /\ \A q \in DOMAIN pages' : q = last \/ q \in DOMAIN pages
      BY <2>1, <2>2
    <2> HIDE DEF last
    <2>4. PaginationTypeOK'
      BY <1>1, <1>3, <2>3 DEF Spawns, PaginationTypeOK
    <2>5. Holders = {}
      BY <1>3 DEF Spawns, OnePageAtATime
    <2>6. Holders' = {last}
      BY <2>3, <2>5 DEF Holders
    <2>7. OnePageAtATime' /\ FlagHasHolder'
      BY <1>3, <2>6 DEF Spawns, OnePageAtATime, FlagHasHolder
    <2>8. Telling \subseteq Telling'
      BY <2>3 DEF Telling
    <2>9. DroppedIsSilent' /\ RunningEnds' /\ AnswerIsComing'
      BY <1>1, <2>3, <2>8 DEF DroppedIsSilent, RunningEnds, AnswerIsComing
    <2> QED
      BY <2>4, <2>7, <2>9
  <1> QED
    BY <1>2, <1>3 DEF TakesRequest

\* A step of the screen or of another that asks: it waits for a request that it
\* made, for the task that has the flag, or not at all.
LEMMA AskerSteps ==
    ASSUME PageInv, UNCHANGED <<inFlight, once, pages, updates>>,
           asked' \in Nat /\ asked' >= asked,
           {waits', atStart', searching'} \subseteq BOOLEAN,
           screen' = screen \/ (screen = "none" /\ screen' = "open"),
           \/ asked' > 0 \/ (waits' => inFlight) \/ waits' = waits,
           waits' => (screen' # "dropped" \/ waits)
    PROVE  PageInv'
  <1> USE DEF PageInv
  <1>1. PaginationTypeOK'
    BY DEF PaginationTypeOK
  <1>2. OnePageAtATime' /\ FlagHasHolder' /\ Telling' = Telling
    BY HoldersStay
  <1>3. DroppedIsSilent' /\ RunningEnds'
    BY <1>2 DEF DroppedIsSilent, RunningEnds
  <1>4. inFlight => \E p \in DOMAIN pages : pages[p].at # "over"
    BY DEF FlagHasHolder, Holders
  <1>5. asked \in Nat
    BY DEF PaginationTypeOK
  <1>6. asked > 0 => asked' > 0
    BY <1>5
  <1>7. AnswerIsComing'
    <2>1. CASE asked' > 0
      BY <2>1 DEF AnswerIsComing
    <2>2. CASE waits' => inFlight
      BY <1>4, <2>2 DEF AnswerIsComing
    <2>3. CASE waits' = waits
      BY <1>6, <2>3, Zenon DEF AnswerIsComing
    <2> QED
      BY <2>1, <2>2, <2>3
  <1> QED
    BY <1>1, <1>2, <1>3, <1>7

LEMMA ScreenDropped ==
    ASSUME PageInv, DropsScreen
    PROVE  PageInv'
  <1>1. PaginationTypeOK'
    <2>1. /\ asked' \in Nat /\ pages' \in Seq(Page) /\ screen' \in {"none", "open", "dropped"}
          /\ updates' \in Seq({"Running"} \union Terminal)
      BY DEF PageInv, DropsScreen, PaginationTypeOK
    <2>2. {inFlight, once, waits, atStart, searching}' \subseteq BOOLEAN
      BY FlagsType DEF PageInv, DropsScreen
    <2> QED
      BY <2>1, <2>2 DEF PaginationTypeOK
  <1>2. OnePageAtATime' /\ FlagHasHolder'
    BY HoldersStay DEF PageInv, DropsScreen
  <1>3. DroppedIsSilent' /\ RunningEnds' /\ AnswerIsComing'
    BY DEF DropsScreen, DroppedIsSilent, RunningEnds, AnswerIsComing
  <1> QED
    BY <1>1, <1>2, <1>3 DEF PageInv

\* An update is handled: after "Running" the end is still to come, after an end
\* the flag is looked up.
LEMMA UpdateHandled ==
    ASSUME PageInv, HandlesUpdate
    PROVE  PageInv'
  <1> USE DEF PageInv
  <1>1. /\ updates \in Seq({"Running"} \union Terminal) /\ updates # <<>>
        /\ updates' = Tail(updates)
        /\ screen = "open" /\ UNCHANGED <<inFlight, once, pages, screen, searching>>
    BY DEF HandlesUpdate, PaginationTypeOK
  <1>2. /\ updates' \in Seq({"Running"} \union Terminal)
        /\ 1 \in DOMAIN updates /\ Head(updates) = updates[1]
        /\ \A i \in DOMAIN updates' : i + 1 \in DOMAIN updates /\ updates'[i] = updates[i + 1]
        /\ \A i \in DOMAIN updates : i > 1 => /\ i - 1 \in DOMAIN updates'
                                             /\ updates'[i - 1] = updates[i]
        /\ DOMAIN updates \subseteq Nat
    BY <1>1
  <1>3. asked \in Nat /\ asked' \in Nat /\ waits' \in BOOLEAN /\ atStart' \in BOOLEAN
    <2>1. asked \in Nat /\ asked + 1 \in Nat
      BY DEF PaginationTypeOK
    <2>2. inFlight \in BOOLEAN /\ atStart \in BOOLEAN
      BY FlagsType
    <2>3. asked' = asked \/ asked' = asked + 1
      BY DEF HandlesUpdate, HandlesRunning, HandlesError, HandlesIdle, Asks
    <2>4. waits' = TRUE \/ waits' = inFlight
      BY Zenon DEF HandlesUpdate, HandlesRunning, HandlesError, HandlesIdle, Asks
    <2>5. atStart' = atStart \/ atStart' = (Head(updates) = "Start")
      BY Zenon DEF HandlesUpdate, HandlesRunning, HandlesError, HandlesIdle
    <2> QED
      BY <2>1, <2>2, <2>3, <2>4, <2>5
  <1>4. PaginationTypeOK'
    BY <1>1, <1>2, <1>3 DEF PaginationTypeOK
  <1>5. OnePageAtATime' /\ FlagHasHolder' /\ Telling' = Telling
    BY <1>1, HoldersStay
  <1>6. DroppedIsSilent'
    BY <1>1 DEF DroppedIsSilent
  <1>7. RunningEnds'
    <2> SUFFICES ASSUME NEW i \in DOMAIN updates', updates'[i] = "Running", Telling = {}
                 PROVE  \E j \in DOMAIN updates' : j > i /\ updates'[j] \in Terminal
      BY <1>5 DEF RunningEnds
    <2>1. PICK j \in DOMAIN updates : j > i + 1 /\ updates[j] \in Terminal
      BY <1>2 DEF RunningEnds
    <2>2. i \in Nat /\ j \in Nat
      BY <1>1, <1>2
    <2>3. j - 1 \in DOMAIN updates' /\ j - 1 > i /\ updates'[j - 1] \in Terminal
      BY <1>1, <1>2, <2>1, <2>2
    <2> QED
      BY <2>3
  <1>8. inFlight => \E p \in DOMAIN pages : pages[p].at # "over"
    BY DEF FlagHasHolder, Holders
  <1>9. AnswerIsComing'
    <2>1. CASE HandlesRunning
      <3>1. CASE Telling # {}
        <4>1. \E p \in DOMAIN pages' : pages'[p].at # "over"
          BY <1>1, <3>1 DEF Telling
        <4> QED
          BY <4>1 DEF AnswerIsComing
      <3>2. CASE Telling = {}
        <4>1. PICK j \in DOMAIN updates : j > 1 /\ updates[j] \in Terminal
          BY <1>2, <2>1, <3>2 DEF HandlesRunning, RunningEnds
        <4>2. \E i \in DOMAIN updates' : updates'[i] \in Terminal
          BY <1>2, <4>1
        <4> QED
          BY <4>2 DEF AnswerIsComing
      <3> QED
        BY <3>1, <3>2
    <2>2. CASE asked' > 0
      BY <2>2 DEF AnswerIsComing
    <2>3. CASE waits' = inFlight
      BY <1>1, <1>8, <2>3 DEF AnswerIsComing
    <2>4. HandlesRunning \/ asked' > 0 \/ waits' = inFlight
      BY <1>3 DEF HandlesUpdate, HandlesError, HandlesIdle, Asks
    <2> QED
      BY <2>1, <2>2, <2>3, <2>4
  <1> QED
    BY <1>4, <1>5, <1>6, <1>7, <1>9

LEMMA PageNext ==
    ASSUME PageInv, [PaginationNext]_pageVars
    PROVE  PageInv'
  <1>1. CASE TakesRequest
    BY <1>1, RequestTaken
  <1>2. CASE \E p \in DOMAIN pages : PageTask(p)
    BY <1>2, PageStarts, PageAnswers, PageFrees, PageTells DEF PageTask
  <1>3. CASE DropsScreen
    BY <1>3, ScreenDropped
  <1>4. CASE HandlesUpdate
    BY <1>4, UpdateHandled
  <1>5. asked \in Nat /\ asked + 1 \in Nat /\ asked + 1 >= asked /\ asked >= asked /\ asked + 1 > 0
    BY DEF PageInv, PaginationTypeOK
  <1>6. /\ inFlight \in BOOLEAN /\ waits \in BOOLEAN /\ atStart \in BOOLEAN
        /\ searching \in BOOLEAN
    BY FlagsType DEF PageInv
  <1>7. CASE Opens
    <2>1. /\ UNCHANGED <<inFlight, once, pages, updates, atStart, searching>>
          /\ screen = "none" /\ screen' = "open"
          /\ \/ asked' = asked /\ waits' = inFlight
             \/ asked' = asked + 1 /\ waits' = TRUE
      BY <1>7 DEF Opens, Asks
    <2> QED
      BY <1>5, <1>6, <2>1, AskerSteps
  <1>8. CASE FillsViewport
    BY <1>5, <1>6, <1>8, AskerSteps DEF FillsViewport, Asks
  <1>9. CASE HandlesSnapshot
    <2>1. /\ UNCHANGED <<inFlight, once, pages, updates, screen, searching>>
          /\ screen = "open"
          /\ atStart' = FALSE \/ atStart' = atStart
          /\ \/ asked' = asked /\ waits' = waits
             \/ asked' = asked + 1 /\ waits' = TRUE
      BY <1>9 DEF HandlesSnapshot, Asks
    <2> QED
      BY <1>5, <1>6, <2>1, AskerSteps
  <1>10. CASE OthersAsk
    BY <1>5, <1>6, <1>10, AskerSteps DEF OthersAsk
  <1>11. CASE TogglesSearch
    BY <1>5, <1>6, <1>11, AskerSteps DEF TogglesSearch
  <1>12. CASE UNCHANGED pageVars
    BY <1>5, <1>6, <1>12, AskerSteps DEF pageVars
  <1> QED
    BY <1>1, <1>2, <1>3, <1>4, <1>7, <1>8, <1>9, <1>10, <1>11, <1>12 DEF PaginationNext

LEMMA PageInit == ASSUME PaginationInit PROVE PageInv
  <1>1. PaginationTypeOK
    <2>1. {inFlight, once, waits, atStart, searching} \subseteq BOOLEAN
      BY Zenon DEF PaginationInit
    <2> QED
      BY <2>1 DEF PaginationInit, PaginationTypeOK
  <1>2. OnePageAtATime /\ FlagHasHolder /\ DroppedIsSilent /\ RunningEnds /\ AnswerIsComing
    BY DEF PaginationInit, OnePageAtATime, Holders, FlagHasHolder, DroppedIsSilent, RunningEnds,
           AnswerIsComing
  <1> QED
    BY <1>1, <1>2 DEF PageInv

\* A screen that waits for a pagination is told of its end, however many
\* requests are dropped meanwhile (PaginationInFlightGuard::finish).
THEOREM AnswerAlwaysComes == PaginationSpec => []AnswerIsComing
  <1>1. PageInv => AnswerIsComing
    BY DEF PageInv
  <1> QED
    BY <1>1, PageInit, PageNext, PTL DEF PaginationSpec

\* One task at a time pages a timeline, and it has the flag
\* (PaginationInFlightGuard::try_start, its Drop).
THEOREM OnePageAlways == PaginationSpec => []OnePageAtATime
  <1>1. PageInv => OnePageAtATime
    BY DEF PageInv
  <1> QED
    BY <1>1, PageInit, PageNext, PTL DEF PaginationSpec

\* The types of the paginations, of which nobody bounds the number: the flags,
\* the stage of every task, and what the screen is told (TimelinePaginationStatus).
THEOREM PaginationTypeCorrect == PaginationSpec => []PaginationTypeOK
  <1>1. PageInv => PaginationTypeOK
    BY DEF PageInv
  <1> QED
    BY <1>1, PageInit, PageNext, PTL DEF PaginationSpec

----------------------------------------------------------------------------
(* Subscriber.                                                             *)
(* What a screen is told, against what it draws.  The updates on their way *)
(* carry one snapshot of the items after the other: each says which of its *)
(* indices are other than in the one before it.  The chain starts with     *)
(* what the screen shows, or the start of it, if it skipped an empty one,  *)
(* and ends with the task's items, but for the batch at hand and what was  *)
(* deferred.                                                               *)

Redraws(i, first, last, clear) == clear \/ (first <= i /\ i < last)

\* Index i of s is as in a.
Same(a, s, i) == i < Len(a) /\ a[i + 1] = s[i + 1]
Covers(a, s, first, last, clear) ==
    \A i \in Nat : i < Len(s) => Redraws(i, first, last, clear) \/ Same(a, s, i)

\* a is the start of s.
StartOf(a, s) == \A i \in Nat : i < Len(a) => Same(s, a, i)

Carries(u, a, b) ==
    IF u.is = "NewItems" THEN b = u.items /\ Covers(a, u.items, u.first, u.last, u.clear)
                         ELSE b = a

\* What is deferred, and the batch, are nothing or something.
Batches == [first : Nat, last : Nat, clear : BOOLEAN, append : BOOLEAN, only : BOOLEAN,
            begun : BOOLEAN]
Deferrals == [some : BOOLEAN, appends : BOOLEAN, start : Nat \union {Nowhere}, full : BOOLEAN]
Snapshots == [is : {"NewItems"}, items : Seq(Item), first : Nat, last : Nat, clear : BOOLEAN]
Founds == [is : {"TargetFound"}, index : Nat]
Updates == Snapshots \union Founds

\* The items h before each of the updates c, and after all of them: each update
\* leads from the one to the next as R says.
Linked(c, h, R) ==
    /\ h \in Seq(Seq(Item))
    /\ Len(h) = Len(c) + 1
    /\ \A k \in 1..Len(c) : <<c[k], h[k], h[k + 1]>> \in R

Links == Updates \X Seq(Item) \X Seq(Item)
Redrawing == {r \in Links : Carries(r[1], r[2], r[3])}
Chained(c, h) == Linked(c, h, Redrawing)

Deferred(i) == deferred.some /\ (deferred.full \/ deferred.start <= i)
Pends(a) ==
    \A i \in Nat : i < Len(items) =>
        Redraws(i, batch.first, batch.last, batch.clear) \/ Deferred(i) \/ Same(a, items, i)

ChainInv ==
    \E h : Chained(channel, h) /\ StartOf(h[1], shown) /\ Pends(h[Len(h)])

ItemsType ==
    /\ items \in Seq(Item) /\ shown \in Seq(Item)
    /\ batch \in Batches
    /\ deferred \in Deferrals
    /\ found \in Nat \union {Nowhere}
    /\ channel \in Seq(Updates)
    /\ DOMAIN drawn \subseteq Nat

DeferralInv ==
    /\ isOpen => ~deferred.some
    /\ deferred.some => deferred.full \/ deferred.start \in Nat
    /\ ~deferred.some => deferred.start = Nowhere
    /\ ~batch.begun => batch = NoBatch

SubscriberInv == ItemsType /\ DeferralInv /\ ChainInv /\ DrawnIsCurrent

----------------------------------------------------------------------------
(* Chains.                                                                 *)

LEMMA CoversSelf == ASSUME NEW s \in Seq(Item), NEW first, NEW last, NEW clear
                    PROVE  Covers(s, s, first, last, clear)
  BY DEF Covers, Same

LEMMA LinkGrows ==
    ASSUME NEW R, NEW c \in Seq(Updates), NEW h, Linked(c, h, R), NEW u \in Updates,
           NEW b \in Seq(Item), <<u, h[Len(h)], b>> \in R
    PROVE  /\ Linked(Append(c, u), Append(h, b), R)
           /\ Append(h, b)[1] = h[1]
           /\ Append(h, b)[Len(Append(h, b))] = b
  <1>1. /\ h \in Seq(Seq(Item)) /\ Len(h) = Len(c) + 1
        /\ \A k \in 1..Len(c) : <<c[k], h[k], h[k + 1]>> \in R
    BY DEF Linked
  <1>2. /\ Append(h, b) \in Seq(Seq(Item)) /\ Len(Append(h, b)) = Len(h) + 1
        /\ Len(Append(c, u)) = Len(c) + 1
        /\ \A k \in 1..Len(h) : Append(h, b)[k] = h[k]
        /\ Append(h, b)[Len(h) + 1] = b
        /\ \A k \in 1..Len(c) : Append(c, u)[k] = c[k]
        /\ Append(c, u)[Len(c) + 1] = u
    BY <1>1
  <1>3. ASSUME NEW k \in 1..Len(Append(c, u))
        PROVE  <<Append(c, u)[k], Append(h, b)[k], Append(h, b)[k + 1]>> \in R
    <2>1. CASE k = Len(c) + 1
      BY <1>1, <1>2, <2>1
    <2>2. CASE k \in 1..Len(c)
      <3>1. k \in 1..Len(h) /\ k + 1 \in 1..Len(h)
        BY <1>1, <2>2
      <3>2. /\ Append(h, b)[k] = h[k] /\ Append(h, b)[k + 1] = h[k + 1]
            /\ Append(c, u)[k] = c[k]
        BY <1>2, <2>2, <3>1
      <3>3. <<c[k], h[k], h[k + 1]>> \in R
        BY <1>1, <2>2
      <3> QED
        BY <3>2, <3>3
    <2>3. k = Len(c) + 1 \/ k \in 1..Len(c)
      BY <1>2
    <2> QED
      BY <2>1, <2>2, <2>3
  <1>4. Linked(Append(c, u), Append(h, b), R)
    BY <1>1, <1>2, <1>3 DEF Linked
  <1> QED
    BY <1>1, <1>2, <1>4

LEMMA LinkShrinks ==
    ASSUME NEW R, NEW c \in Seq(Updates), c # <<>>, NEW h, Linked(c, h, R)
    PROVE  /\ Linked(Tail(c), Tail(h), R)
           /\ Tail(h)[1] = h[2]
           /\ Tail(h)[Len(Tail(h))] = h[Len(h)]
           /\ <<Head(c), h[1], h[2]>> \in R
           /\ h[1] \in Seq(Item) /\ h[2] \in Seq(Item)
  <1>1. /\ h \in Seq(Seq(Item)) /\ Len(h) = Len(c) + 1
        /\ \A k \in 1..Len(c) : <<c[k], h[k], h[k + 1]>> \in R
    BY DEF Linked
  <1>2. Len(c) \in Nat /\ Len(c) >= 1
    OBVIOUS
  <1>3. /\ Tail(h) \in Seq(Seq(Item)) /\ Len(Tail(h)) = Len(h) - 1
        /\ Len(Tail(c)) = Len(c) - 1
        /\ \A k \in 1..Len(h) - 1 : Tail(h)[k] = h[k + 1]
        /\ \A k \in 1..Len(c) - 1 : Tail(c)[k] = c[k + 1]
    BY <1>1, <1>2
  <1>4. ASSUME NEW k \in 1..Len(Tail(c))
        PROVE  <<Tail(c)[k], Tail(h)[k], Tail(h)[k + 1]>> \in R
    <2>1. k + 1 \in 1..Len(c) /\ k \in 1..Len(h) - 1 /\ k + 1 \in 1..Len(h) - 1
          /\ k \in 1..Len(c) - 1
      BY <1>1, <1>2, <1>3
    <2> QED
      BY <1>1, <1>3, <2>1
  <1>5. Linked(Tail(c), Tail(h), R)
    BY <1>1, <1>2, <1>3, <1>4 DEF Linked
  <1>6. <<c[1], h[1], h[2]>> \in R /\ Head(c) = c[1]
    BY <1>1, <1>2
  <1>7. h[1] \in Seq(Item) /\ h[2] \in Seq(Item)
    BY <1>1, <1>2
  <1>8. Tail(h)[1] = h[2] /\ Tail(h)[Len(Tail(h))] = h[Len(h)]
    BY <1>1, <1>2, <1>3
  <1> QED
    BY <1>5, <1>6, <1>7, <1>8

LEMMA LinkOf ==
    ASSUME NEW u \in Updates, NEW a \in Seq(Item), NEW b \in Seq(Item)
    PROVE  <<u, a, b>> \in Redrawing <=> Carries(u, a, b)
  BY DEF Redrawing, Links

LEMMA ChainGrows ==
    ASSUME NEW c \in Seq(Updates), NEW h, Chained(c, h), NEW u \in Updates,
           NEW b \in Seq(Item), Carries(u, h[Len(h)], b)
    PROVE  /\ Chained(Append(c, u), Append(h, b))
           /\ Append(h, b)[1] = h[1]
           /\ Append(h, b)[Len(Append(h, b))] = b
  <1>1. h[Len(h)] \in Seq(Item)
    BY DEF Chained, Linked
  <1>2. <<u, h[Len(h)], b>> \in Redrawing
    BY <1>1, LinkOf
  <1> DEFINE R == Redrawing
  <1>3. Linked(c, h, R) /\ <<u, h[Len(h)], b>> \in R
    BY <1>2 DEF Chained
  <1> HIDE DEF R
  <1>4. Linked(Append(c, u), Append(h, b), R)
    BY <1>3, LinkGrows, SMT
  <1>5. h \in Seq(Seq(Item)) /\ Len(h) = Len(c) + 1
    BY <1>3 DEF Linked
  <1>6. Append(h, b)[1] = h[1] /\ Append(h, b)[Len(Append(h, b))] = b
    BY <1>5
  <1> QED
    BY <1>4, <1>6 DEF Chained, R

LEMMA ChainShrinks ==
    ASSUME NEW c \in Seq(Updates), c # <<>>, NEW h, Chained(c, h)
    PROVE  /\ Chained(Tail(c), Tail(h))
           /\ Tail(h)[1] = h[2]
           /\ Tail(h)[Len(Tail(h))] = h[Len(h)]
           /\ Carries(Head(c), h[1], h[2])
           /\ h[1] \in Seq(Item) /\ h[2] \in Seq(Item)
  <1>1. /\ Linked(Tail(c), Tail(h), Redrawing)
        /\ Tail(h)[1] = h[2]
        /\ Tail(h)[Len(Tail(h))] = h[Len(h)]
        /\ <<Head(c), h[1], h[2]>> \in Redrawing
        /\ h[1] \in Seq(Item) /\ h[2] \in Seq(Item)
    BY LinkShrinks DEF Chained
  <1>2. Head(c) \in Updates
    OBVIOUS
  <1> QED
    BY <1>1, <1>2, LinkOf DEF Chained

LEMMA ConcatFacts ==
    ASSUME NEW S, NEW a \in Seq(S), NEW b \in Seq(S)
    PROVE  /\ a \o b \in Seq(S) /\ Len(a \o b) = Len(a) + Len(b)
           /\ \A k \in 1..Len(a) : (a \o b)[k] = a[k]
           /\ \A k \in 1..Len(b) : (a \o b)[Len(a) + k] = b[k]
  OBVIOUS

LEMMA ConcatEnd ==
    ASSUME NEW S, NEW a \in Seq(S), NEW b \in Seq(S), NEW k \in 1..Len(b)
    PROVE  (a \o b)[Len(a) + k] = b[k]
  OBVIOUS

LEMMA RemoveAtFacts ==
    ASSUME NEW S, NEW s \in Seq(S), NEW i \in 1..Len(s)
    PROVE  /\ RemoveAt(s, i) \in Seq(S)
           /\ Len(RemoveAt(s, i)) = Len(s) - 1
           /\ \A k \in 1..i - 1 : RemoveAt(s, i)[k] = s[k]
           /\ \A k \in i..Len(s) - 1 : RemoveAt(s, i)[k] = s[k + 1]
  <1> DEFINE a == SubSeq(s, 1, i - 1)  b == SubSeq(s, i + 1, Len(s))
  <1>0. i \in Nat /\ i >= 1 /\ i <= Len(s) /\ Len(s) \in Nat
    OBVIOUS
  <1>1. /\ a \in Seq(S) /\ Len(a) = i - 1 /\ \A k \in 1..i - 1 : a[k] = s[k]
    BY <1>0
  <1>2. /\ b \in Seq(S) /\ Len(b) = Len(s) - i
        /\ \A k \in 1..Len(s) - i : b[k] = s[k + i]
    <2>1. b \in Seq(S) /\ Len(b) = Len(s) - i
      BY <1>0
    <2>2. ASSUME NEW k \in 1..Len(s) - i PROVE b[k] = s[(i + 1) + k - 1]
      BY <1>0
    <2>3. ASSUME NEW k \in 1..Len(s) - i PROVE (i + 1) + k - 1 = k + i
      BY <1>0
    <2> QED
      BY <2>1, <2>2, <2>3
  <1>3. RemoveAt(s, i) = a \o b
    BY DEF RemoveAt
  <1> HIDE DEF a, b
  <1>4. /\ a \o b \in Seq(S) /\ Len(a \o b) = Len(s) - 1
        /\ \A k \in 1..Len(a) : (a \o b)[k] = a[k]
        /\ \A k \in 1..Len(b) : (a \o b)[Len(a) + k] = b[k]
    <2>1. a \in Seq(S) /\ b \in Seq(S)
      BY <1>1, <1>2
    <2>2. Len(a) + Len(b) = Len(s) - 1
      BY <1>0, <1>1, <1>2
    <2> QED
      BY <2>1, <2>2, ConcatFacts
  <1>5. \A k \in i..Len(s) - 1 : (a \o b)[k] = s[k + 1]
    <2> TAKE k \in i..Len(s) - 1
    <2> DEFINE m == k - (i - 1)
    <2>1. m \in 1..Len(b) /\ Len(a) + m = k /\ m + i = k + 1
      BY <1>0, <1>1, <1>2
    <2> HIDE DEF m
    <2>2. (a \o b)[Len(a) + m] = b[m] /\ b[m] = s[m + i]
      BY <1>2, <1>4, <2>1
    <2> QED
      BY <2>1, <2>2
  <1> QED
    BY <1>1, <1>3, <1>4, <1>5

LEMMA InsertAtFacts ==
    ASSUME NEW S, NEW s \in Seq(S), NEW i \in 1..Len(s) + 1, NEW x \in S
    PROVE  /\ InsertAt(s, i, x) \in Seq(S)
           /\ Len(InsertAt(s, i, x)) = Len(s) + 1
           /\ \A k \in 1..i - 1 : InsertAt(s, i, x)[k] = s[k]
           /\ InsertAt(s, i, x)[i] = x
           /\ \A k \in i..Len(s) : InsertAt(s, i, x)[k + 1] = s[k]
  <1> DEFINE a == SubSeq(s, 1, i - 1)  b == SubSeq(s, i, Len(s))
  <1>1. /\ a \in Seq(S) /\ Len(a) = i - 1 /\ \A k \in 1..i - 1 : a[k] = s[k]
    OBVIOUS
  <1>2. /\ b \in Seq(S) /\ Len(b) = Len(s) + 1 - i
        /\ \A k \in 1..Len(s) + 1 - i : b[k] = s[i + k - 1]
    OBVIOUS
  <1>3. InsertAt(s, i, x) = a \o <<x>> \o b
    BY DEF InsertAt
  <1> DEFINE c == a \o <<x>>
  <1> HIDE DEF a, b
  <1>4. /\ c \in Seq(S) /\ Len(c) = i /\ \A k \in 1..i - 1 : c[k] = s[k]
        /\ c[i] = x
    BY <1>1
  <1> HIDE DEF c
  <1>5. /\ c \o b \in Seq(S) /\ Len(c \o b) = Len(s) + 1
        /\ \A k \in 1..Len(c) : (c \o b)[k] = c[k]
        /\ \A k \in 1..Len(b) : (c \o b)[Len(c) + k] = b[k]
    BY <1>2, <1>4, ConcatFacts
  <1>6. \A k \in i..Len(s) : (c \o b)[k + 1] = s[k]
    <2> TAKE k \in i..Len(s)
    <2> DEFINE m == k - i + 1
    <2>1. m \in 1..Len(b) /\ Len(c) + m = k + 1 /\ i + m - 1 = k /\ m \in 1..Len(s) + 1 - i
      BY <1>2, <1>4
    <2> HIDE DEF m
    <2>2. (c \o b)[Len(c) + m] = b[m] /\ b[m] = s[i + m - 1]
      BY <1>2, <1>5, <2>1
    <2> QED
      BY <2>1, <2>2
  <1>7. \A k \in 1..i - 1 : k \in 1..Len(c) /\ i \in 1..Len(c)
    BY <1>4
  <1>8. /\ \A k \in 1..i - 1 : (c \o b)[k] = s[k]
        /\ (c \o b)[i] = x
    BY <1>4, <1>5, <1>7
  <1> QED
    BY <1>3, <1>5, <1>6, <1>8 DEF c

\* What was told of two snapshots in a row covers the second after the first's start.
LEMMA CoversTwice ==
    ASSUME NEW a \in Seq(Item), NEW u \in Snapshots, NEW v \in Snapshots, NEW w \in Snapshots,
           Covers(a, u.items, u.first, u.last, u.clear),
           Covers(u.items, v.items, v.first, v.last, v.clear),
           w.items = v.items, w.first <= u.first, w.first <= v.first,
           u.last <= w.last, v.last <= w.last, u.clear => w.clear, v.clear => w.clear
    PROVE  Covers(a, w.items, w.first, w.last, w.clear)
  <1> SUFFICES ASSUME NEW i \in Nat, i < Len(w.items), ~Redraws(i, w.first, w.last, w.clear)
               PROVE  Same(a, w.items, i)
    BY DEF Covers
  <1>0. /\ u.items \in Seq(Item) /\ u.first \in Nat /\ u.last \in Nat
        /\ v.items \in Seq(Item) /\ v.first \in Nat /\ v.last \in Nat
        /\ w.first \in Nat /\ w.last \in Nat
    BY DEF Snapshots
  <1>1. ~Redraws(i, u.first, u.last, u.clear) /\ ~Redraws(i, v.first, v.last, v.clear)
    BY <1>0 DEF Redraws
  <1>2. Same(u.items, v.items, i)
    BY <1>1 DEF Covers
  <1>3. Same(a, u.items, i)
    BY <1>1, <1>2 DEF Covers, Same
  <1> QED
    BY <1>2, <1>3 DEF Same

\* The update that two snapshots in a row become.
Merged(c, i) == NewItems(c[i + 1].items, Least(c[i].first, c[i + 1].first),
                         Most(c[i].last, c[i + 1].last), c[i].clear \/ c[i + 1].clear)

LEMMA SnapshotFields ==
    ASSUME NEW u \in Updates
    PROVE  /\ u.is = "NewItems" => /\ u.items \in Seq(Item) /\ u.first \in Nat /\ u.last \in Nat
                                   /\ u.clear \in BOOLEAN
           /\ u.is = "TargetFound" => u.index \in Nat
           /\ u.is \in {"NewItems", "TargetFound"}
  BY DEF Updates, Snapshots, Founds

LEMMA SnapshotType ==
    ASSUME NEW s \in Seq(Item), NEW first \in Nat, NEW last \in Nat, NEW clear \in BOOLEAN
    PROVE  /\ NewItems(s, first, last, clear) \in Updates
           /\ NewItems(s, first, last, clear).is = "NewItems"
           /\ NewItems(s, first, last, clear).items = s
           /\ NewItems(s, first, last, clear).first = first
           /\ NewItems(s, first, last, clear).last = last
           /\ NewItems(s, first, last, clear).clear = clear
  BY DEF NewItems, Updates, Snapshots

LEMMA FoundType ==
    ASSUME NEW index \in Nat
    PROVE  /\ TargetFound(index) \in Updates
           /\ TargetFound(index).is = "TargetFound"
  BY DEF TargetFound, Updates, Founds

LEMMA LeastMost ==
    ASSUME NEW i \in Nat, NEW j \in Nat
    PROVE  /\ Least(i, j) \in Nat /\ Most(i, j) \in Nat
           /\ Least(i, j) <= i /\ Least(i, j) <= j /\ Most(i, j) >= i /\ Most(i, j) >= j
  BY DEF Least, Most

LEMMA MergedFacts ==
    ASSUME NEW c \in Seq(Updates), NEW i \in 1..Len(c) - 1,
           c[i].is = "NewItems", c[i + 1].is = "NewItems"
    PROVE  LET new == Merged(c, i)
           IN  /\ new \in Updates /\ new.is = "NewItems" /\ new.items = c[i + 1].items
               /\ new.first \in Nat /\ new.last \in Nat /\ new.clear \in BOOLEAN
               /\ new.first <= c[i].first /\ new.first <= c[i + 1].first
               /\ c[i].last <= new.last /\ c[i + 1].last <= new.last
               /\ (c[i].clear => new.clear) /\ (c[i + 1].clear => new.clear)
  <1> DEFINE new == Merged(c, i)
  <1>2. c[i] \in Updates /\ c[i + 1] \in Updates
    OBVIOUS
  <1>3. /\ new \in Updates /\ new.is = "NewItems" /\ new.items = c[i + 1].items
        /\ new.first \in Nat /\ new.last \in Nat /\ new.clear \in BOOLEAN
        /\ new.first <= c[i].first /\ new.first <= c[i + 1].first
        /\ c[i].last <= new.last /\ c[i + 1].last <= new.last
        /\ (c[i].clear => new.clear) /\ (c[i + 1].clear => new.clear)
    <2> DEFINE f == Least(c[i].first, c[i + 1].first)
               l == Most(c[i].last, c[i + 1].last)
               r == c[i].clear \/ c[i + 1].clear
    <2>1. /\ c[i].first \in Nat /\ c[i].last \in Nat
          /\ c[i + 1].first \in Nat /\ c[i + 1].last \in Nat
          /\ c[i + 1].items \in Seq(Item)
      BY <1>2, SnapshotFields
    <2>2. /\ f \in Nat /\ l \in Nat /\ f <= c[i].first /\ f <= c[i + 1].first
          /\ c[i].last <= l /\ c[i + 1].last <= l
      BY <2>1, LeastMost
    <2>3. r \in BOOLEAN /\ (c[i].clear => r) /\ (c[i + 1].clear => r)
      OBVIOUS
    <2>4. new = NewItems(c[i + 1].items, f, l, r)
      BY DEF Merged
    <2> HIDE DEF f, l, r, new
    <2>5. /\ new \in Updates /\ new.is = "NewItems" /\ new.items = c[i + 1].items
          /\ new.first = f /\ new.last = l /\ new.clear = r
      BY <2>1, <2>2, <2>3, <2>4, SnapshotType
    <2> QED
      BY <2>2, <2>3, <2>5
  <1> QED
    BY <1>3 DEF new

\* Two updates become one, that leads from before the first to after the second.
\* One update takes the place of two: the others stay.
LEMMA MergePlaces ==
    ASSUME NEW c \in Seq(Updates), NEW i \in 1..Len(c) - 1, NEW new \in Updates
    PROVE  LET d == ReplaceAt(RemoveAt(c, i), i, new)
           IN  /\ d \in Seq(Updates) /\ Len(d) = Len(c) - 1
               /\ \A k \in 1..i - 1 : d[k] = c[k]
               /\ d[i] = new
               /\ \A k \in i + 1..Len(c) - 1 : d[k] = c[k + 1]
  <1> DEFINE e == RemoveAt(c, i)
             d == ReplaceAt(e, i, new)
  <1>0. i \in Nat /\ i >= 1 /\ i + 1 <= Len(c) /\ Len(c) \in Nat
    OBVIOUS
  <1>5. /\ e \in Seq(Updates) /\ Len(e) = Len(c) - 1
        /\ \A k \in 1..i - 1 : e[k] = c[k]
        /\ \A k \in i..Len(c) - 1 : e[k] = c[k + 1]
    <2>1. i \in 1..Len(c)
      BY <1>0
    <2> QED
      BY <2>1, RemoveAtFacts
  <1> HIDE DEF e
  <1>6. /\ d \in Seq(Updates) /\ Len(d) = Len(c) - 1
        /\ \A k \in 1..i - 1 : d[k] = c[k]
        /\ d[i] = new
        /\ \A k \in i + 1..Len(c) - 1 : d[k] = c[k + 1]
    <2>1. d = [e EXCEPT ![i] = new]
      BY DEF ReplaceAt
    <2>2. i \in 1..Len(e)
      BY <1>0, <1>5
    <2>3. d \in Seq(Updates) /\ Len(d) = Len(e) /\ d[i] = new
          /\ \A k \in 1..Len(e) : k # i => d[k] = e[k]
      BY <1>5, <2>1, <2>2
    <2> HIDE DEF d
    <2>4. ASSUME NEW k \in 1..i - 1 PROVE d[k] = c[k]
      <3>1. k \in 1..Len(e) /\ k # i
        BY <1>0, <1>5
      <3> QED
        BY <1>5, <2>3, <3>1
    <2>5. ASSUME NEW k \in i + 1..Len(c) - 1 PROVE d[k] = c[k + 1]
      <3>1. k \in 1..Len(e) /\ k # i /\ k \in i..Len(c) - 1
        BY <1>0, <1>5
      <3> QED
        BY <1>5, <2>3, <3>1
    <2> QED
      BY <1>5, <2>3, <2>4, <2>5
  <1> QED
    BY <1>6 DEF e

LEMMA LinkMerges ==
    ASSUME NEW R, NEW c \in Seq(Updates), NEW h, Linked(c, h, R), NEW i \in 1..Len(c) - 1,
           NEW new \in Updates, <<new, h[i], h[i + 2]>> \in R
    PROVE  LET d == ReplaceAt(RemoveAt(c, i), i, new)
           IN  /\ d \in Seq(Updates)
               /\ \E g : /\ Linked(d, g, R) /\ g[1] = h[1] /\ g[Len(g)] = h[Len(h)]
                         /\ \A k \in 1..Len(g) : \E m \in 1..Len(h) : g[k] = h[m]
  <1> DEFINE d == ReplaceAt(RemoveAt(c, i), i, new)
             g == RemoveAt(h, i + 1)
  <1>0. i \in Nat /\ i >= 1 /\ i + 1 <= Len(c) /\ Len(c) \in Nat
    OBVIOUS
  <1>1. /\ h \in Seq(Seq(Item)) /\ Len(h) = Len(c) + 1
        /\ \A k \in 1..Len(c) : <<c[k], h[k], h[k + 1]>> \in R
    BY DEF Linked
  <1>6. /\ d \in Seq(Updates) /\ Len(d) = Len(c) - 1
        /\ \A k \in 1..i - 1 : d[k] = c[k]
        /\ d[i] = new
        /\ \A k \in i + 1..Len(c) - 1 : d[k] = c[k + 1]
    BY MergePlaces
  <1> HIDE DEF d
  <1>7. /\ g \in Seq(Seq(Item)) /\ Len(g) = Len(h) - 1
        /\ \A k \in 1..i : g[k] = h[k]
        /\ \A k \in i + 1..Len(h) - 1 : g[k] = h[k + 1]
    <2>1. i + 1 \in 1..Len(h) /\ (i + 1) - 1 = i
      BY <1>0, <1>1
    <2>2. /\ g \in Seq(Seq(Item)) /\ Len(g) = Len(h) - 1
          /\ \A k \in 1..(i + 1) - 1 : g[k] = h[k]
          /\ \A k \in i + 1..Len(h) - 1 : g[k] = h[k + 1]
      BY <1>1, <2>1, RemoveAtFacts
    <2> QED
      BY <2>1, <2>2
  <1> HIDE DEF g
  <1>8. ASSUME NEW k \in 1..Len(d)
        PROVE  <<d[k], g[k], g[k + 1]>> \in R
    <2>1. CASE k < i
      <3>1. k \in 1..i - 1 /\ k \in 1..i /\ k + 1 \in 1..i /\ k \in 1..Len(c)
        BY <1>0, <2>1
      <3>2. d[k] = c[k] /\ g[k] = h[k] /\ g[k + 1] = h[k + 1]
        BY <1>6, <1>7, <3>1
      <3>3. <<c[k], h[k], h[k + 1]>> \in R
        BY <1>1, <3>1
      <3> QED
        BY <3>2, <3>3
    <2>2. CASE k = i
      <3>1. i \in 1..i /\ i + 1 \in i + 1..Len(h) - 1 /\ (i + 1) + 1 = i + 2
        BY <1>0, <1>1
      <3>2. g[i] = h[i] /\ g[i + 1] = h[i + 2]
        BY <1>7, <3>1
      <3>3. d[i] = new
        BY <1>6
      <3> QED
        BY <2>2, <3>2, <3>3
    <2>3. CASE k > i
      <3>1. /\ k \in i + 1..Len(c) - 1 /\ k + 1 \in 1..Len(c)
            /\ k \in i + 1..Len(h) - 1 /\ k + 1 \in i + 1..Len(h) - 1
        BY <1>0, <1>1, <1>6, <2>3
      <3>2. d[k] = c[k + 1] /\ g[k] = h[k + 1] /\ g[k + 1] = h[(k + 1) + 1]
        BY <1>6, <1>7, <3>1
      <3>3. <<c[k + 1], h[k + 1], h[(k + 1) + 1]>> \in R
        BY <1>1, <3>1
      <3> QED
        BY <3>2, <3>3
    <2>4. k < i \/ k = i \/ k > i
      BY <1>0
    <2> QED
      BY <2>1, <2>2, <2>3, <2>4
  <1>9. Linked(d, g, R)
    <2>1. g \in Seq(Seq(Item)) /\ Len(g) = Len(d) + 1
      BY <1>0, <1>1, <1>6, <1>7
    <2> QED
      BY <1>8, <2>1, Zenon DEF Linked
  <1>10. g[1] = h[1] /\ g[Len(g)] = h[Len(h)]
    <2>1. 1 \in 1..i /\ Len(g) \in i + 1..Len(h) - 1 /\ Len(g) + 1 = Len(h)
      BY <1>0, <1>1, <1>7
    <2> QED
      BY <1>7, <2>1
  <1>11. \A k \in 1..Len(g) : \E m \in 1..Len(h) : g[k] = h[m]
    <2> TAKE k \in 1..Len(g)
    <2>1. \/ k \in 1..i /\ k \in 1..Len(h)
          \/ k \in i + 1..Len(h) - 1 /\ k + 1 \in 1..Len(h)
      BY <1>0, <1>1, <1>7
    <2> QED
      BY <1>7, <2>1
  <1>12. /\ d \in Seq(Updates)
         /\ \E g2 : /\ Linked(d, g2, R) /\ g2[1] = h[1] /\ g2[Len(g2)] = h[Len(h)]
                    /\ \A k \in 1..Len(g2) : \E m \in 1..Len(h) : g2[k] = h[m]
    BY <1>6, <1>9, <1>10, <1>11
  <1> QED
    BY <1>12 DEF d

LEMMA ChainMerges ==
    ASSUME NEW c \in Seq(Updates), NEW h, Chained(c, h), NEW i \in 1..Len(c) - 1,
           c[i].is = "NewItems", c[i + 1].is = "NewItems"
    PROVE  LET d == ReplaceAt(RemoveAt(c, i), i, Merged(c, i))
           IN  /\ d \in Seq(Updates)
               /\ \E g : Chained(d, g) /\ g[1] = h[1] /\ g[Len(g)] = h[Len(h)]
  <1> DEFINE new == Merged(c, i)
  <1>0. i \in Nat /\ i >= 1 /\ i + 1 <= Len(c) /\ Len(c) \in Nat
    OBVIOUS
  <1>1. /\ h \in Seq(Seq(Item)) /\ Len(h) = Len(c) + 1
        /\ \A k \in 1..Len(c) : <<c[k], h[k], h[k + 1]>> \in Redrawing
    BY DEF Chained, Linked
  <1>2. c[i] \in Updates /\ c[i + 1] \in Updates
    BY <1>0
  <1>3. /\ new \in Updates /\ new.is = "NewItems" /\ new.items = c[i + 1].items
        /\ new.first \in Nat /\ new.last \in Nat /\ new.clear \in BOOLEAN
        /\ new.first <= c[i].first /\ new.first <= c[i + 1].first
        /\ c[i].last <= new.last /\ c[i + 1].last <= new.last
        /\ (c[i].clear => new.clear) /\ (c[i + 1].clear => new.clear)
    BY MergedFacts
  <1> HIDE DEF new
  <1>4. Carries(new, h[i], h[i + 2])
    <2>1. Carries(c[i], h[i], h[i + 1]) /\ Carries(c[i + 1], h[i + 1], h[i + 2])
      <3>1. i \in 1..Len(c) /\ i + 1 \in 1..Len(c) /\ (i + 1) + 1 = i + 2
        BY <1>0
      <3>2. h[i] \in Seq(Item) /\ h[i + 1] \in Seq(Item) /\ h[(i + 1) + 1] \in Seq(Item)
        BY <1>0, <1>1
      <3> QED
        BY <1>1, <1>2, <3>1, <3>2, LinkOf
    <2>2. /\ h[i + 1] = c[i].items
          /\ Covers(h[i], c[i].items, c[i].first, c[i].last, c[i].clear)
          /\ h[i + 2] = c[i + 1].items
          /\ Covers(h[i + 1], c[i + 1].items, c[i + 1].first, c[i + 1].last, c[i + 1].clear)
      BY <2>1 DEF Carries
    <2>3. h[i] \in Seq(Item)
      BY <1>0, <1>1
    <2>4. /\ c[i].items \in Seq(Item) /\ c[i + 1].items \in Seq(Item)
          /\ c[i].first \in Nat /\ c[i].last \in Nat /\ c[i].clear \in BOOLEAN
          /\ c[i + 1].first \in Nat /\ c[i + 1].last \in Nat /\ c[i + 1].clear \in BOOLEAN
      BY <1>2, SnapshotFields
    <2>5. c[i] \in Snapshots /\ c[i + 1] \in Snapshots /\ new \in Snapshots
      BY <1>2, <1>3 DEF Updates, Snapshots, Founds
    <2> HIDE DEF new
    <2>6. Covers(h[i], new.items, new.first, new.last, new.clear)
      BY <1>3, <2>2, <2>3, <2>5, CoversTwice
    <2> QED
      BY <1>3, <2>2, <2>6 DEF Carries
  <1>5. <<new, h[i], h[i + 2]>> \in Redrawing
    <2>1. h[i] \in Seq(Item) /\ h[i + 2] \in Seq(Item)
      <3>1. i \in 1..Len(h) /\ i + 2 \in 1..Len(h)
        BY <1>0, <1>1
      <3> QED
        BY <1>1, <3>1
    <2> QED
      BY <1>3, <1>4, <2>1, LinkOf
  <1>6. LET d == ReplaceAt(RemoveAt(c, i), i, new)
        IN  /\ d \in Seq(Updates)
            /\ \E g : Chained(d, g) /\ g[1] = h[1] /\ g[Len(g)] = h[Len(h)]
    BY <1>3, <1>5, LinkMerges DEF Chained
  <1> QED
    BY <1>6 DEF new

----------------------------------------------------------------------------
(* The steps.                                                              *)

LEMMA NothingAtHand ==
    NoBatch \in Batches /\ NoChanges \in Deferrals
  BY SubscriberAssumption DEF NoBatch, NoChanges, Batches, Deferrals, Huge

LEMMA NothingRedrawn ==
    ASSUME NEW i \in Nat
    PROVE  ~Redraws(i, NoBatch.first, NoBatch.last, NoBatch.clear)
  BY DEF NoBatch, Redraws

LEMMA PendsStays ==
    ASSUME NEW a, Pends(a), UNCHANGED <<items, batch, deferred>>
    PROVE  Pends(a)'
  BY DEF Pends, Deferred, Same

LEMMA SubscriberStarts == ASSUME SubscriberInit PROVE SubscriberInv
  <1>1. items \in Seq(Item) /\ shown = items
    <2>1. Fresh(Divider) \in Item /\ \A e \in Events : Fresh(e) \in Item
      BY DEF Fresh, Item
    <2> QED
      BY <2>1 DEF SubscriberInit
  <1>2. batch = NoBatch /\ deferred = NoChanges /\ found = Nowhere /\ channel = <<>>
    BY DEF SubscriberInit
  <1>3. drawn = [i \in 0..Len(items) - 1 |-> items[i + 1]]
    BY DEF SubscriberInit
  <1>4. ItemsType
    BY <1>1, <1>2, <1>3, NothingAtHand DEF ItemsType
  <1>5. DeferralInv
    BY <1>2 DEF DeferralInv, NoChanges
  <1>6. DrawnIsCurrent
    BY <1>1, <1>3 DEF DrawnIsCurrent
  <1>7. ChainInv
    <2> DEFINE h == <<items>>
    <2>1. h \in Seq(Seq(Item)) /\ Len(h) = 1 /\ h[1] = items /\ Len(channel) = 0
      BY <1>1, <1>2
    <2> HIDE DEF h
    <2>2. Chained(channel, h)
      BY <2>1 DEF Chained, Linked
    <2>3. StartOf(h[1], shown) /\ Pends(h[Len(h)])
      BY <1>1, <2>1 DEF StartOf, Pends, Same
    <2> QED
      BY <2>2, <2>3 DEF ChainInv
  <1> QED
    BY <1>4, <1>5, <1>6, <1>7 DEF SubscriberInv

\* A diff changes the indices that it says.
LEMMA DiffStep ==
    ASSUME SubscriberInv, NEW s \in Seq(Item), NEW first \in Nat, NEW last \in Nat,
           NEW clear \in BOOLEAN, NEW append \in BOOLEAN, NEW only \in BOOLEAN,
           Diff(s, first, last, clear, append, only), Covers(items, s, first, last, clear),
           found' \in Nat \union {Nowhere}
    PROVE  SubscriberInv'
  <1>1. /\ items' = s
        /\ batch' = [first |-> Least(batch.first, first), last |-> Most(batch.last, last),
                     clear |-> batch.clear \/ clear, append |-> batch.append \/ append,
                     only |-> batch.only /\ only, begun |-> TRUE]
        /\ UNCHANGED <<isOpen, deferred, channel, shown, drawn>>
    BY DEF Diff, viewVars
  <1>2. batch.first \in Nat /\ batch.last \in Nat
    BY DEF SubscriberInv, ItemsType, Batches
  <1>3. /\ Least(batch.first, first) \in Nat /\ Most(batch.last, last) \in Nat
        /\ Least(batch.first, first) <= batch.first /\ Least(batch.first, first) <= first
        /\ Most(batch.last, last) >= batch.last /\ Most(batch.last, last) >= last
    BY <1>2, LeastMost
  <1>4. /\ batch' \in Batches /\ batch'.begun
        /\ batch'.first = Least(batch.first, first) /\ batch'.last = Most(batch.last, last)
        /\ (batch.clear => batch'.clear) /\ (clear => batch'.clear)
    <2> DEFINE f == Least(batch.first, first)
               l == Most(batch.last, last)
               c == batch.clear \/ clear
               a == batch.append \/ append
               o == batch.only /\ only
    <2>1. c \in BOOLEAN /\ a \in BOOLEAN /\ o \in BOOLEAN /\ (batch.clear => c) /\ (clear => c)
      OBVIOUS
    <2>2. batch' = [first |-> f, last |-> l, clear |-> c, append |-> a, only |-> o, begun |-> TRUE]
      BY <1>1
    <2>3. f \in Nat /\ l \in Nat
      BY <1>3
    <2> HIDE DEF f, l, c, a, o
    <2>4. batch' \in Batches /\ batch'.begun /\ batch'.first = f /\ batch'.last = l /\ batch'.clear = c
      BY <2>1, <2>2, <2>3 DEF Batches
    <2>5. (batch.clear => batch'.clear) /\ (clear => batch'.clear)
      BY <2>1, <2>4
    <2> QED
      BY <2>4, <2>5 DEF f, l
  <1>5. ItemsType'
    BY <1>1, <1>4 DEF SubscriberInv, ItemsType
  <1>6. DeferralInv'
    BY <1>1, <1>4 DEF SubscriberInv, DeferralInv
  <1>7. DrawnIsCurrent'
    BY <1>1 DEF SubscriberInv, DrawnIsCurrent
  <1>8. ChainInv'
    <2>1. PICK h : Chained(channel, h) /\ StartOf(h[1], shown) /\ Pends(h[Len(h)])
      BY DEF SubscriberInv, ChainInv
    <2> DEFINE a == h[Len(h)]
    <2>2. Pends(a)
      BY <2>1
    <2> HIDE DEF a
    <2>3. Pends(a)'
      <3> SUFFICES ASSUME NEW i \in Nat, i < Len(s),
                          ~Redraws(i, batch'.first, batch'.last, batch'.clear), ~Deferred(i)'
                   PROVE  Same(a, s, i)
        BY <1>1 DEF Pends
      <3>1. ~Redraws(i, first, last, clear) /\ ~Redraws(i, batch.first, batch.last, batch.clear)
        BY <1>2, <1>3, <1>4 DEF Redraws
      <3>2. Same(items, s, i)
        BY <3>1 DEF Covers
      <3>3. ~Deferred(i)
        BY <1>1 DEF Deferred
      <3>4. Same(a, items, i)
        BY <2>2, <3>1, <3>2, <3>3 DEF Pends, Same
      <3> QED
        BY <3>2, <3>4 DEF Same
    <2> QED
      BY <1>1, <2>1, <2>3 DEF ChainInv, a
  <1> QED
    BY <1>5, <1>6, <1>7, <1>8 DEF SubscriberInv

LEMMA HugeIsNat == Huge \in Nat /\ Huge = MaxLength + 1 /\ MaxLength \in Nat
  BY SubscriberAssumption DEF Huge

LEMMA SeekTypes ==
    ASSUME ItemsType
    PROVE  /\ SeeksOn => found' \in Nat \union {Nowhere}
           /\ \A id, index : index \in Nat /\ LooksAt(id, index) => found' \in Nat \union {Nowhere}
           /\ \A index : Unshifts(index) => found' \in Nat \union {Nowhere}
  BY DEF ItemsType, SeeksOn, LooksAt, ShiftedBy, Unshifts, Most

LEMMA ChangesAllStep ==
    ASSUME SubscriberInv, NEW s \in Seq(Item), ChangesAll(s), found' \in Nat \union {Nowhere}
    PROVE  SubscriberInv'
  <1>1. Covers(items, s, Huge, 0, TRUE)
    BY DEF Covers, Redraws
  <1> QED
    BY <1>1, HugeIsNat, DiffStep DEF ChangesAll

\* All from an index on changes.
LEMMA ChangesFromStep ==
    ASSUME SubscriberInv, NEW s \in Seq(Item), NEW first \in Nat, Changes(s, first, Huge),
           Len(s) <= MaxLength => \A i \in Nat : i < Len(s) /\ i < first => Same(items, s, i),
           found' \in Nat \union {Nowhere}
    PROVE  SubscriberInv'
  <1>1. Len(s) <= MaxLength
    BY DEF Changes, Diff
  <1>2. Covers(items, s, first, Huge, FALSE)
    BY <1>1, HugeIsNat DEF Covers, Redraws
  <1> QED
    BY <1>2, HugeIsNat, DiffStep DEF Changes

LEMMA ArrivalsType == Arrivals \subseteq Item /\ Older \subseteq Item
  BY SubscriberAssumption DEF Arrivals, Older, Fresh, Item

LEMMA AppendsStep ==
    ASSUME SubscriberInv, Appends
    PROVE  SubscriberInv'
  <1>0. ItemsType /\ items \in Seq(Item) /\ Len(items) \in Nat
    BY DEF SubscriberInv, ItemsType
  <1>1. found' \in Nat \union {Nowhere}
    BY <1>0, SeekTypes DEF Appends
  <1>2. ASSUME NEW x \in Arrivals, Diff(Append(items, x), Len(items), Len(items) + 1, FALSE, TRUE, TRUE)
        PROVE  SubscriberInv'
    <2>1. /\ Append(items, x) \in Seq(Item)
          /\ Covers(items, Append(items, x), Len(items), Len(items) + 1, FALSE)
      BY <1>0, ArrivalsType DEF Covers, Redraws, Same
    <2> DEFINE yes == TRUE  no == FALSE  new == Append(items, x)
    <2>2. Diff(new, Len(items), Len(items) + 1, no, yes, yes)
      BY <1>2, Zenon
    <2>3. Covers(items, new, Len(items), Len(items) + 1, no)
      BY <2>1, Zenon
    <2>4. yes \in BOOLEAN /\ no \in BOOLEAN /\ new \in Seq(Item) /\ Len(items) + 1 \in Nat
      BY <1>0, <2>1
    <2> HIDE DEF yes, no, new
    <2> QED
      BY <1>0, <1>1, <2>2, <2>3, <2>4, DiffStep
  <1>3. ASSUME NEW x \in Arrivals, NEW y \in Arrivals,
               Diff(items \o <<x, y>>, Len(items), Len(items) + 2, FALSE, TRUE, TRUE)
        PROVE  SubscriberInv'
    <2>1. x \in Item /\ y \in Item /\ <<x, y>> \in Seq(Item) /\ Len(<<x, y>>) = 2
      BY ArrivalsType
    <2> DEFINE new == items \o <<x, y>>
    <2>2. /\ new \in Seq(Item) /\ Len(new) = Len(items) + 2
          /\ \A k \in 1..Len(items) : new[k] = items[k]
      BY <1>0, <2>1, ConcatFacts
    <2> HIDE DEF new
    <2>3. Covers(items, new, Len(items), Len(items) + 2, FALSE)
      BY <1>0, <2>2 DEF Covers, Redraws, Same
    <2> DEFINE yes == TRUE  no == FALSE
    <2>4. Diff(new, Len(items), Len(items) + 2, no, yes, yes)
      BY <1>3, Zenon DEF new
    <2>5. Covers(items, new, Len(items), Len(items) + 2, no)
      BY <2>3, Zenon
    <2>6. yes \in BOOLEAN /\ no \in BOOLEAN /\ Len(items) + 2 \in Nat
      BY <1>0
    <2> HIDE DEF yes, no
    <2> QED
      BY <1>0, <1>1, <2>2, <2>4, <2>5, <2>6, DiffStep
  <1> QED
    BY <1>2, <1>3 DEF Appends

LEMMA GrowsStep ==
    ASSUME SubscriberInv, Grows
    PROVE  SubscriberInv'
  <1>0. ItemsType /\ items \in Seq(Item) /\ Len(items) \in Nat
    BY DEF SubscriberInv, ItemsType
  <1>1. CASE Appends
    BY <1>1, AppendsStep
  <1>2. CASE PushesFront
    <2>1. PICK x \in Older : LooksAt(x.id, 0) /\ ChangesAll(<<x>> \o items)
      BY <1>2 DEF PushesFront
    <2>2. <<x>> \o items \in Seq(Item)
      BY <1>0, ArrivalsType
    <2> QED
      BY <1>0, <2>1, <2>2, SeekTypes, ChangesAllStep
  <1>3. CASE Inserts
    <2>1. PICK x \in Older, index \in 0..Len(items) :
             /\ LooksAt(x.id, index)
             /\ Diff(InsertAt(items, index + 1, x),
                     IF index = 0 THEN Huge ELSE index, IF index = 0 THEN 0 ELSE Huge,
                     index = 0, index >= Len(items), index >= Len(items))
      BY <1>3 DEF Inserts
    <2> DEFINE s == InsertAt(items, index + 1, x)
               f == IF index = 0 THEN Huge ELSE index
               l == IF index = 0 THEN 0 ELSE Huge
               c == index = 0
               e == index >= Len(items)
    <2>2. /\ s \in Seq(Item) /\ Len(s) = Len(items) + 1
          /\ \A k \in 1..index : s[k] = items[k]
      <3> DEFINE j == index + 1
      <3>1. j \in 1..Len(items) + 1 /\ x \in Item /\ j - 1 = index
        BY <1>0, ArrivalsType
      <3>2. s = InsertAt(items, j, x)
        OBVIOUS
      <3> HIDE DEF s, j
      <3>3. /\ s \in Seq(Item) /\ Len(s) = Len(items) + 1
            /\ \A k \in 1..j - 1 : s[k] = items[k]
        BY <1>0, <3>1, <3>2, InsertAtFacts, SMTT(30)
      <3> QED
        BY <3>1, <3>3
    <2>3. f \in Nat /\ l \in Nat /\ c \in BOOLEAN /\ e \in BOOLEAN /\ index \in Nat
      BY <1>0, HugeIsNat
    <2>4. Len(s) <= MaxLength
      BY <2>1 DEF Diff
    <2>5. Covers(items, s, f, l, c)
      <3> HIDE DEF s
      <3>1. CASE index = 0
        BY <3>1 DEF Covers, Redraws
      <3>2. CASE index # 0
        BY <1>0, <2>2, <2>3, <2>4, <3>2, HugeIsNat DEF Covers, Redraws, Same
      <3> QED
        BY <3>1, <3>2
    <2>6. found' \in Nat \union {Nowhere}
      BY <1>0, <2>1, <2>3, SeekTypes
    <2>7. Diff(s, f, l, c, e, e)
      BY <2>1
    <2> HIDE DEF s, f, l, c, e
    <2> QED
      BY <2>2, <2>3, <2>5, <2>6, <2>7, DiffStep
  <1> QED
    BY <1>1, <1>2, <1>3 DEF Grows

LEMMA ShrinksStep ==
    ASSUME SubscriberInv, Shrinks
    PROVE  SubscriberInv'
  <1>0. ItemsType /\ items \in Seq(Item) /\ Len(items) \in Nat
    BY DEF SubscriberInv, ItemsType
  <1>1. CASE Sets
    <2>1. PICK index \in 0..Len(items) - 1 :
             SeeksOn /\ Changes([items EXCEPT ![index + 1].rev = 1 - @], index, index + 1)
      BY <1>1 DEF Sets
    <2> DEFINE new == [items[index + 1] EXCEPT !.rev = 1 - @]
               s == [items EXCEPT ![index + 1] = new]
    <2>2. index + 1 \in 1..Len(items) /\ items[index + 1] \in Item
      BY <1>0
    <2>3. new \in Item
      BY <2>2 DEF Item
    <2>4. [items EXCEPT ![index + 1].rev = 1 - @] = s
      OBVIOUS
    <2> HIDE DEF new
    <2>5. s \in Seq(Item) /\ Len(s) = Len(items) /\ \A k \in 1..Len(items) : k # index + 1 => s[k] = items[k]
      BY <1>0, <2>2, <2>3
    <2>6. Diff(s, index, index + 1, FALSE, FALSE, FALSE)
      BY <2>1, <2>4 DEF Changes
    <2> HIDE DEF s
    <2>7. Covers(items, s, index, index + 1, FALSE)
      BY <1>0, <2>5 DEF Covers, Redraws, Same
    <2> DEFINE no == FALSE
    <2>8. Diff(s, index, index + 1, no, no, no)
      BY <2>6, Zenon
    <2>9. Covers(items, s, index, index + 1, no)
      BY <2>7, Zenon
    <2>10. no \in BOOLEAN /\ index \in Nat /\ index + 1 \in Nat
      BY <1>0
    <2>11. found' \in Nat \union {Nowhere}
      BY <1>0, <2>1, SeekTypes
    <2> HIDE DEF no
    <2> QED
      BY <2>5, <2>8, <2>9, <2>10, <2>11, DiffStep
  <1>2. CASE PopsFront
    <2>1. Tail(items) \in Seq(Item)
      BY <1>0, <1>2 DEF PopsFront
    <2> QED
      BY <1>0, <1>2, <2>1, SeekTypes, ChangesAllStep DEF PopsFront
  <1>3. CASE PopsBack
    <2>1. items # <<>> /\ SeeksOn /\ Changes(Front(items), Len(items) - 1, Huge)
      BY <1>3 DEF PopsBack
    <2>2. /\ Front(items) \in Seq(Item) /\ Len(items) - 1 \in Nat
          /\ Len(Front(items)) = Len(items) - 1
          /\ \A k \in 1..Len(items) - 1 : Front(items)[k] = items[k]
      <3>1. Len(items) - 1 \in Nat
        BY <1>0, <2>1
      <3>2. Front(items) = SubSeq(items, 1, Len(items) - 1)
        BY DEF Front
      <3> DEFINE n == Len(items) - 1
      <3>3. n \in Nat /\ n <= Len(items)
        BY <1>0, <3>1
      <3> HIDE DEF n
      <3>4. /\ SubSeq(items, 1, n) \in Seq(Item) /\ Len(SubSeq(items, 1, n)) = n
            /\ \A k \in 1..n : SubSeq(items, 1, n)[k] = items[k]
        BY <1>0, <3>3
      <3> QED
        BY <3>1, <3>2, <3>4 DEF n
    <2>3. \A i \in Nat : i < Len(Front(items)) => Same(items, Front(items), i)
      BY <1>0, <2>2 DEF Same
    <2> QED
      BY <1>0, <2>1, <2>2, <2>3, SeekTypes, ChangesFromStep
  <1>4. CASE Removes
    <2>1. PICK index \in 0..Len(items) - 1 :
             /\ Unshifts(index)
             /\ IF index = 0 THEN ChangesAll(RemoveAt(items, index + 1))
                             ELSE Changes(RemoveAt(items, index + 1), index - 1, Huge)
      BY <1>4 DEF Removes
    <2> DEFINE s == RemoveAt(items, index + 1)
    <2>2. s \in Seq(Item) /\ Len(s) = Len(items) - 1 /\ \A k \in 1..index : s[k] = items[k]
      <3>1. index + 1 \in 1..Len(items) /\ (index + 1) - 1 = index
        BY <1>0
      <3>2. \A k \in 1..(index + 1) - 1 : s[k] = items[k]
        BY <1>0, <3>1, RemoveAtFacts
      <3> QED
        BY <1>0, <3>1, <3>2, RemoveAtFacts
    <2>3. found' \in Nat \union {Nowhere}
      BY <1>0, <2>1, SeekTypes
    <2> HIDE DEF s
    <2>4. CASE index = 0
      BY <2>1, <2>2, <2>3, <2>4, ChangesAllStep DEF s
    <2>5. CASE index # 0
      <3>1. index - 1 \in Nat /\ \A i \in Nat : i < Len(s) /\ i < index - 1 => Same(items, s, i)
        BY <1>0, <2>2, <2>5 DEF Same
      <3>2. Changes(s, index - 1, Huge)
        BY <2>1, <2>5 DEF s
      <3> QED
        BY <2>2, <2>3, <3>1, <3>2, ChangesFromStep
    <2> QED
      BY <2>4, <2>5
  <1>5. CASE Truncates
    <2>1. PICK length \in 0..Len(items) :
             /\ SeeksOn
             /\ IF length = 0 THEN ChangesAll(SubSeq(items, 1, length))
                              ELSE Changes(SubSeq(items, 1, length), length - 1, Huge)
      BY <1>5 DEF Truncates
    <2> DEFINE s == SubSeq(items, 1, length)
    <2>2. s \in Seq(Item) /\ Len(s) = length /\ \A k \in 1..length : s[k] = items[k]
      BY <1>0
    <2>3. found' \in Nat \union {Nowhere}
      BY <1>0, <2>1, SeekTypes
    <2> HIDE DEF s
    <2>4. CASE length = 0
      BY <2>1, <2>2, <2>3, <2>4, ChangesAllStep DEF s
    <2>5. CASE length # 0
      <3>1. length - 1 \in Nat /\ \A i \in Nat : i < Len(s) /\ i < length - 1 => Same(items, s, i)
        BY <1>0, <2>2, <2>5 DEF Same
      <3>2. Changes(s, length - 1, Huge)
        BY <2>1, <2>5 DEF s
      <3> QED
        BY <2>2, <2>3, <3>1, <3>2, ChangesFromStep
    <2> QED
      BY <2>4, <2>5
  <1>6. CASE ClearsAll
    <2>1. <<>> \in Seq(Item)
      OBVIOUS
    <2> QED
      BY <1>0, <1>6, <2>1, SeekTypes, ChangesAllStep DEF ClearsAll
  <1>7. CASE Resets
    <2>1. PICK x \in Arrivals : SeeksOn /\ ChangesAll(<<Fresh(Divider), x>>)
      BY <1>7 DEF Resets
    <2>2. <<Fresh(Divider), x>> \in Seq(Item)
      <3>1. Fresh(Divider) \in Item /\ x \in Item
        BY ArrivalsType DEF Fresh, Item
      <3> QED
        BY <3>1
    <2> QED
      BY <1>0, <2>1, <2>2, SeekTypes, ChangesAllStep
  <1> QED
    BY <1>1, <1>2, <1>3, <1>4, <1>5, <1>6, <1>7 DEF Shrinks

\* One update more, or none.
LEMMA ChainTold ==
    ASSUME NEW c \in Seq(Updates), NEW h, Chained(c, h), NEW t, NEW b,
           \/ t = <<>> /\ b = h[Len(h)]
           \/ b \in Seq(Item) /\ \E u \in Updates : t = <<u>> /\ Carries(u, h[Len(h)], b)
    PROVE  /\ c \o t \in Seq(Updates)
           /\ \E g : Chained(c \o t, g) /\ g[1] = h[1] /\ g[Len(g)] = b
  <1>1. CASE t = <<>> /\ b = h[Len(h)]
    <2>1. c \o t = c
      BY <1>1
    <2> QED
      BY <1>1, <2>1
  <1>2. ASSUME b \in Seq(Item), NEW u \in Updates, t = <<u>>, Carries(u, h[Len(h)], b)
        PROVE  /\ c \o t \in Seq(Updates)
               /\ \E g : Chained(c \o t, g) /\ g[1] = h[1] /\ g[Len(g)] = b
    <2>1. c \o t = Append(c, u) /\ Append(c, u) \in Seq(Updates)
      BY <1>2
    <2>2. /\ Chained(Append(c, u), Append(h, b))
          /\ Append(h, b)[1] = h[1]
          /\ Append(h, b)[Len(Append(h, b))] = b
      BY <1>2, ChainGrows
    <2> QED
      BY <2>1, <2>2
  <1> QED
    BY <1>1, <1>2

\* A target found tells nothing of the items.
LEMMA ChainFound ==
    ASSUME NEW c \in Seq(Updates), NEW h, Chained(c, h), NEW t, h[Len(h)] \in Seq(Item),
           t = <<>> \/ \E index \in Nat : t = <<TargetFound(index)>>
    PROVE  /\ c \o t \in Seq(Updates)
           /\ \E g : Chained(c \o t, g) /\ g[1] = h[1] /\ g[Len(g)] = h[Len(h)]
  <1>1. ASSUME NEW index \in Nat
        PROVE  /\ TargetFound(index) \in Updates
               /\ Carries(TargetFound(index), h[Len(h)], h[Len(h)])
    BY FoundType DEF Carries
  <1> QED
    BY <1>1, ChainTold

LEMMA EndsOpenBatch ==
    ASSUME SubscriberInv, EndsBatch, isOpen
    PROVE  SubscriberInv'
  <1> DEFINE first == IF BehindDivider THEN 0 ELSE batch.first
             clear == batch.clear \/ BehindDivider
             u == NewItems(items, first, batch.last, clear)
             t == IF found = Nowhere THEN <<>> ELSE <<TargetFound(found)>>
  <1>0. ItemsType /\ DeferralInv /\ ChainInv /\ DrawnIsCurrent
    BY DEF SubscriberInv
  <1>1. /\ batch' = NoBatch /\ channel' = channel \o <<u>> \o t /\ found' = Nowhere
        /\ UNCHANGED <<deferred, items, isOpen, shown, drawn>>
    BY DEF EndsBatch, viewVars
  <1>2. /\ items \in Seq(Item) /\ channel \in Seq(Updates) /\ batch \in Batches
        /\ found \in Nat \union {Nowhere} /\ ~deferred.some
    BY <1>0 DEF ItemsType, DeferralInv
  <1>3. /\ batch.first \in Nat /\ batch.last \in Nat /\ first \in Nat
        /\ first <= batch.first /\ clear \in BOOLEAN /\ (batch.clear => clear)
    <2>1. batch.first \in Nat /\ batch.last \in Nat
      BY <1>2 DEF Batches
    <2> QED
      BY <2>1
  <1>4. PICK h : Chained(channel, h) /\ StartOf(h[1], shown) /\ Pends(h[Len(h)])
    BY <1>0 DEF ChainInv
  <1> HIDE DEF first, clear
  <1>5. /\ u \in Updates /\ u.is = "NewItems" /\ u.items = items
        /\ u.first = first /\ u.last = batch.last /\ u.clear = clear
    BY <1>2, <1>3, SnapshotType
  <1> HIDE DEF u
  <1>6. Carries(u, h[Len(h)], items)
    <2>1. Pends(h[Len(h)])
      BY <1>4
    <2> DEFINE a == h[Len(h)]
    <2> HIDE DEF a
    <2>2. ASSUME Pends(a) PROVE Covers(a, items, first, batch.last, clear)
      BY <1>2, <1>3, <2>2 DEF Pends, Covers, Redraws, Deferred
    <2>3. Covers(a, u.items, u.first, u.last, u.clear)
      BY <1>5, <2>1, <2>2 DEF a
    <2> QED
      BY <1>5, <2>3 DEF Carries, a
  <1>7. /\ channel \o <<u>> \in Seq(Updates)
        /\ \E g : Chained(channel \o <<u>>, g) /\ g[1] = h[1] /\ g[Len(g)] = items
    BY <1>2, <1>4, <1>5, <1>6, ChainTold
  <1>8. PICK g : Chained(channel \o <<u>>, g) /\ g[1] = h[1] /\ g[Len(g)] = items
    BY <1>7
  <1>9. t = <<>> \/ \E index \in Nat : t = <<TargetFound(index)>>
    BY <1>2
  <1> HIDE DEF t
  <1>10. /\ channel' \in Seq(Updates)
         /\ \E k : Chained(channel', k) /\ k[1] = h[1] /\ k[Len(k)] = items
    <2> DEFINE c == channel \o <<u>>
    <2>1. c \in Seq(Updates) /\ Chained(c, g) /\ channel' = c \o t
      BY <1>1, <1>7, <1>8
    <2>2. g[Len(g)] \in Seq(Item)
      BY <1>2, <1>8
    <2> HIDE DEF c
    <2>3. /\ c \o t \in Seq(Updates)
          /\ \E k : Chained(c \o t, k) /\ k[1] = g[1] /\ k[Len(k)] = g[Len(g)]
      BY <1>9, <2>1, <2>2, ChainFound
    <2> QED
      BY <1>8, <2>1, <2>3
  <1>11. Pends(items)'
    BY <1>1, <1>2 DEF Pends, Same
  <1>12. ChainInv'
    BY <1>1, <1>4, <1>10, <1>11 DEF ChainInv
  <1>13. ItemsType'
    BY <1>0, <1>1, <1>10, NothingAtHand DEF ItemsType
  <1>14. DeferralInv' /\ DrawnIsCurrent'
    BY <1>0, <1>1 DEF DeferralInv, DrawnIsCurrent
  <1> QED
    BY <1>12, <1>13, <1>14 DEF SubscriberInv

\* What was deferred, and the batch, are deferred.
LEMMA RecordedFacts ==
    ASSUME SubscriberInv, NEW d, d \in {Recorded, [Recorded EXCEPT !.full = TRUE, !.start = Nowhere]}
    PROVE  /\ d \in Deferrals /\ d.some
           /\ d.full \/ d.start \in Nat
           /\ \A i \in Nat : Redraws(i, batch.first, batch.last, batch.clear) \/ Deferred(i)
                                => d.full \/ d.start <= i
  <1> DEFINE a == deferred.appends \/ batch.append
             f == deferred.full \/ ~OnlyAppended
             n == IF OnlyAppended /\ ~deferred.full
                    THEN IF deferred.start = Nowhere THEN batch.first
                                                     ELSE Least(deferred.start, batch.first)
                    ELSE Nowhere
             r == [some |-> TRUE, appends |-> a, start |-> n, full |-> f]
  <1>1. /\ batch.first \in Nat /\ deferred.start \in Nat \union {Nowhere}
        /\ (deferred.some => deferred.full \/ deferred.start \in Nat)
    BY DEF SubscriberInv, ItemsType, DeferralInv, Batches, Deferrals
  <1>2. a \in BOOLEAN /\ f \in BOOLEAN
    OBVIOUS
  <1>3. n \in Nat \union {Nowhere} /\ (f \/ n \in Nat)
    BY <1>1, LeastMost
  <1>4. ASSUME NEW i \in Nat, Redraws(i, batch.first, batch.last, batch.clear) \/ Deferred(i), ~f
        PROVE  n <= i
    <2>1. OnlyAppended /\ ~deferred.full /\ ~batch.clear
      BY <1>4 DEF OnlyAppended
    <2>2. CASE Redraws(i, batch.first, batch.last, batch.clear)
      BY <1>1, <2>1, <2>2, LeastMost DEF Redraws
    <2>3. CASE Deferred(i)
      <3>1. deferred.start \in Nat /\ deferred.start <= i /\ deferred.start # Nowhere
        BY <1>1, <2>1, <2>3, SubscriberAssumption DEF Deferred
      <3>2. n = Least(deferred.start, batch.first)
        BY <2>1, <3>1
      <3> HIDE DEF n
      <3> QED
        BY <1>1, <3>1, <3>2 DEF Least
    <2> QED
      BY <1>4, <2>2, <2>3
  <1>5. Recorded = r
    BY DEF Recorded
  <1> HIDE DEF a, f, n
  <1>6. r \in Deferrals /\ r.some /\ r.start = n /\ r.full = f
    BY <1>2, <1>3 DEF Deferrals
  <1> HIDE DEF r
  <1>8. CASE d = Recorded
    BY <1>2, <1>3, <1>4, <1>5, <1>6, <1>8
  <1>9. CASE d = [Recorded EXCEPT !.full = TRUE, !.start = Nowhere]
    <2>1. d = [r EXCEPT !.full = TRUE, !.start = Nowhere]
      BY <1>5, <1>9
    <2>2. d \in Deferrals /\ d.some /\ d.full
      BY <1>6, <2>1 DEF Deferrals
    <2> QED
      BY <2>2
  <1> QED
    BY <1>8, <1>9

LEMMA EndsHiddenBatch ==
    ASSUME SubscriberInv, EndsBatch, ~isOpen
    PROVE  SubscriberInv'
  <1>0. ItemsType /\ DeferralInv /\ ChainInv /\ DrawnIsCurrent
    BY DEF SubscriberInv
  <1>1. /\ batch' = NoBatch
        /\ deferred' \in {Recorded, [Recorded EXCEPT !.full = TRUE, !.start = Nowhere]}
        /\ UNCHANGED <<channel, found, items, isOpen, shown, drawn>>
    BY DEF EndsBatch, viewVars
  <1>2. /\ deferred' \in Deferrals /\ deferred'.some
        /\ deferred'.full \/ deferred'.start \in Nat
        /\ \A i \in Nat : Redraws(i, batch.first, batch.last, batch.clear) \/ Deferred(i)
                             => deferred'.full \/ deferred'.start <= i
    BY <1>1, RecordedFacts
  <1>3. ItemsType'
    BY <1>0, <1>1, <1>2, NothingAtHand DEF ItemsType
  <1>4. DeferralInv' /\ DrawnIsCurrent'
    BY <1>0, <1>1, <1>2 DEF DeferralInv, DrawnIsCurrent
  <1>5. PICK h : Chained(channel, h) /\ StartOf(h[1], shown) /\ Pends(h[Len(h)])
    BY <1>0 DEF ChainInv
  <1>6. Pends(h[Len(h)])'
    <2> DEFINE a == h[Len(h)]
    <2>1. Pends(a)
      BY <1>5
    <2> HIDE DEF a
    <2>2. Pends(a)'
      BY <1>1, <1>2, <2>1 DEF Pends, Deferred, Same
    <2> QED
      BY <2>2 DEF a
  <1>7. ChainInv'
    BY <1>1, <1>5, <1>6 DEF ChainInv
  <1> QED
    BY <1>3, <1>4, <1>7 DEF SubscriberInv

\* The snapshot of what was deferred tells of all that was.
LEMMA SnapshotFacts ==
    ASSUME ItemsType, DeferralInv, deferred.some, ~batch.begun, NEW a, Pends(a)
    PROVE  Snapshot \in Updates /\ Carries(Snapshot, a, items)
  <1> DEFINE start == IF deferred.full \/ deferred.start = Nowhere THEN Nowhere
                      ELSE Least(deferred.start, Len(items))
             first == IF start = Nowhere THEN 0 ELSE start
             clear == start = Nowhere
  <1>1. /\ items \in Seq(Item) /\ Len(items) \in Nat /\ batch = NoBatch
        /\ deferred.start \in Nat \union {Nowhere} /\ (deferred.full \/ deferred.start \in Nat)
    BY DEF ItemsType, DeferralInv, Deferrals
  <1>2. /\ start \in Nat \union {Nowhere} /\ first \in Nat /\ clear \in BOOLEAN
    <2>1. start \in Nat \union {Nowhere}
      BY <1>1, LeastMost
    <2> HIDE DEF start
    <2> QED
      BY <2>1
  <1>3. ASSUME ~clear
        PROVE  ~deferred.full /\ deferred.start \in Nat /\ first <= deferred.start
    <2>1. ~deferred.full /\ deferred.start # Nowhere /\ first = Least(deferred.start, Len(items))
      BY <1>3
    <2> HIDE DEF first, clear
    <2> QED
      BY <1>1, <2>1, LeastMost
  <1>4. Snapshot = NewItems(items, first, Len(items), clear)
    BY DEF Snapshot
  <1> HIDE DEF start, first, clear
  <1>5. /\ Snapshot \in Updates /\ Snapshot.is = "NewItems" /\ Snapshot.items = items
        /\ Snapshot.first = first /\ Snapshot.last = Len(items) /\ Snapshot.clear = clear
    BY <1>1, <1>2, <1>4, SnapshotType
  <1>6. Covers(a, items, first, Len(items), clear)
    <2> SUFFICES ASSUME NEW i \in Nat, i < Len(items), ~Redraws(i, first, Len(items), clear)
                 PROVE  Same(a, items, i)
      BY DEF Covers
    <2>1. ~clear /\ ~(first <= i)
      BY DEF Redraws
    <2>2. ~Deferred(i)
      BY <1>2, <1>3, <2>1 DEF Deferred
    <2>3. ~Redraws(i, batch.first, batch.last, batch.clear)
      BY <1>1, NothingRedrawn
    <2> QED
      BY <2>2, <2>3 DEF Pends
  <1>7. Covers(a, Snapshot.items, Snapshot.first, Snapshot.last, Snapshot.clear)
    BY <1>5, <1>6
  <1> QED
    BY <1>5, <1>7 DEF Carries

LEMMA SeesRequestStep ==
    ASSUME SubscriberInv, SeesRequest
    PROVE  SubscriberInv'
  <1> DEFINE reopens == request.open /\ ~isOpen /\ deferred.some
             told == IF reopens THEN <<Snapshot>> ELSE <<>>
  <1>0. ItemsType /\ DeferralInv /\ ChainInv /\ DrawnIsCurrent
    BY DEF SubscriberInv
  <1>1. /\ ~batch.begun /\ isOpen' = request.open
        /\ deferred' = IF reopens THEN NoChanges ELSE deferred
        /\ found' \in {Nowhere, found}
        /\ UNCHANGED <<items, batch, shown, drawn>>
    BY DEF SeesRequest, viewVars
  <1>2. /\ items \in Seq(Item) /\ channel \in Seq(Updates) /\ deferred \in Deferrals
        /\ batch = NoBatch
    BY <1>0, <1>1 DEF ItemsType, DeferralInv
  <1>3. \E t : /\ channel' = channel \o told \o t
               /\ t = <<>> \/ \E index \in Nat : t = <<TargetFound(index)>>
    <2> DEFINE resolved == reopens /\ found # Nowhere /\ Target \in Ids(items)
               searches == request.length # Nowhere /\ ~resolved /\ ~sought
               hit == searches /\ Target \in Ids(items) /\ IndexOfTarget(items) < SearchFrom
               t == IF resolved \/ hit THEN <<TargetFound(IndexOfTarget(items))>> ELSE <<>>
    <2>1. channel' = channel \o told \o t
      BY DEF SeesRequest
    <2>2. Target \in Ids(items) => IndexOfTarget(items) \in Nat
      <3>1. SUFFICES ASSUME Target \in Ids(items) PROVE IndexOfTarget(items) \in Nat
        OBVIOUS
      <3> DEFINE k == CHOOSE i \in DOMAIN items : items[i].id = Target
      <3>2. k \in DOMAIN items
        BY <3>1 DEF Ids
      <3>3. IndexOfTarget(items) = k - 1
        BY DEF IndexOfTarget
      <3> HIDE DEF k
      <3> QED
        BY <1>2, <3>2, <3>3
    <2>3. t = <<>> \/ \E index \in Nat : t = <<TargetFound(index)>>
      <3>1. CASE resolved \/ hit
        BY <2>2, <3>1
      <3>2. CASE ~(resolved \/ hit)
        BY <3>2
      <3> QED
        BY <3>1, <3>2
    <2> HIDE DEF t
    <2> QED
      BY <2>1, <2>3
  <1>4. PICK t : /\ channel' = channel \o told \o t
                 /\ t = <<>> \/ \E index \in Nat : t = <<TargetFound(index)>>
    BY <1>3
  <1>5. PICK h : Chained(channel, h) /\ StartOf(h[1], shown) /\ Pends(h[Len(h)])
    BY <1>0 DEF ChainInv
  <1>6. h[Len(h)] \in Seq(Item)
    <2>1. h \in Seq(Seq(Item)) /\ Len(h) = Len(channel) + 1 /\ Len(channel) \in Nat
      BY <1>2, <1>5 DEF Chained, Linked
    <2> QED
      BY <2>1
  <1>7. \E b \in Seq(Item) :
           /\ channel \o told \in Seq(Updates)
           /\ \E g : Chained(channel \o told, g) /\ g[1] = h[1] /\ g[Len(g)] = b
           /\ Pends(b)'
    <2>1. CASE reopens
      <3>1. told = <<Snapshot>> /\ Snapshot \in Updates /\ Carries(Snapshot, h[Len(h)], items)
        BY <1>0, <1>1, <1>5, <2>1, SnapshotFacts
      <3> HIDE DEF told, reopens
      <3>2. /\ channel \o told \in Seq(Updates)
            /\ \E g : Chained(channel \o told, g) /\ g[1] = h[1] /\ g[Len(g)] = items
        BY <1>2, <1>5, <3>1, ChainTold
      <3>3. ASSUME NEW b, b = items PROVE Pends(b)'
        BY <1>1, <1>2, <3>3 DEF Pends, Same
      <3> QED
        BY <1>2, <3>2, <3>3
    <2>2. CASE ~reopens
      <3>1. channel \o told = channel /\ deferred' = deferred
        BY <1>1, <1>2, <2>2
      <3> HIDE DEF told, reopens
      <3> DEFINE b == h[Len(h)]
      <3>2. b \in Seq(Item) /\ Pends(b) /\ Chained(channel, h) /\ h[Len(h)] = b
        BY <1>5, <1>6
      <3> HIDE DEF b
      <3>3. Pends(b)'
        BY <1>1, <3>1, <3>2 DEF Pends, Deferred, Same
      <3> QED
        BY <1>2, <3>1, <3>2, <3>3
    <2> QED
      BY <2>1, <2>2
  <1> DEFINE c == channel \o told
  <1>8. PICK b \in Seq(Item) :
           /\ c \in Seq(Updates)
           /\ \E g : Chained(c, g) /\ g[1] = h[1] /\ g[Len(g)] = b
           /\ Pends(b)'
    BY <1>7
  <1>9. PICK g : Chained(c, g) /\ g[1] = h[1] /\ g[Len(g)] = b
    BY <1>8
  <1>10. channel' = c \o t
    BY <1>4
  <1> HIDE DEF c, told
  <1>11. /\ channel' \in Seq(Updates)
         /\ \E k : Chained(channel', k) /\ k[1] = h[1] /\ k[Len(k)] = b
    <2>1. c \in Seq(Updates) /\ g[Len(g)] \in Seq(Item)
      BY <1>8, <1>9
    <2>2. t = <<>> \/ \E index \in Nat : t = <<TargetFound(index)>>
      BY <1>4
    <2>3. /\ c \o t \in Seq(Updates)
          /\ \E k : Chained(c \o t, k) /\ k[1] = g[1] /\ k[Len(k)] = g[Len(g)]
      BY <1>9, <2>1, <2>2, ChainFound
    <2> QED
      BY <1>9, <1>10, <2>3
  <1>12. ChainInv'
    BY <1>1, <1>5, <1>8, <1>11 DEF ChainInv
  <1>13. deferred' \in Deferrals /\ found' \in Nat \union {Nowhere}
    BY <1>0, <1>1, NothingAtHand DEF ItemsType
  <1>14. ItemsType'
    BY <1>0, <1>1, <1>11, <1>13 DEF ItemsType
  <1>15. DeferralInv'
    <2>1. CASE reopens
      BY <1>0, <1>1, <2>1 DEF DeferralInv, NoChanges
    <2>2. CASE ~reopens
      BY <1>0, <1>1, <2>2 DEF DeferralInv
    <2> QED
      BY <2>1, <2>2
  <1>16. DrawnIsCurrent'
    BY <1>0, <1>1 DEF DrawnIsCurrent
  <1> QED
    BY <1>12, <1>14, <1>15, <1>16 DEF SubscriberInv

LEMMA CoalescesStep ==
    ASSUME SubscriberInv, Coalesces
    PROVE  SubscriberInv'
  <1>0. ItemsType /\ DeferralInv /\ ChainInv /\ DrawnIsCurrent
    BY DEF SubscriberInv
  <1>1. UNCHANGED <<items, batch, deferred, found, isOpen, shown, drawn>>
    BY DEF Coalesces, taskVars, viewVars
  <1>2. PICK i \in 1..Len(channel) - 1 :
           /\ channel[i].is = "NewItems" /\ channel[i + 1].is = "NewItems"
           /\ channel' = ReplaceAt(RemoveAt(channel, i), i, Merged(channel, i))
    BY DEF Coalesces, Merged
  <1>3. PICK h : Chained(channel, h) /\ StartOf(h[1], shown) /\ Pends(h[Len(h)])
    BY <1>0 DEF ChainInv
  <1>4. /\ channel' \in Seq(Updates)
        /\ \E g : Chained(channel', g) /\ g[1] = h[1] /\ g[Len(g)] = h[Len(h)]
    BY <1>0, <1>2, <1>3, ChainMerges DEF ItemsType
  <1>5. Pends(h[Len(h)])'
    BY <1>1, <1>3, PendsStays
  <1>6. ChainInv'
    BY <1>1, <1>3, <1>4, <1>5 DEF ChainInv
  <1>7. ItemsType' /\ DeferralInv' /\ DrawnIsCurrent'
    BY <1>0, <1>1, <1>4 DEF ItemsType, DeferralInv, DrawnIsCurrent
  <1> QED
    BY <1>6, <1>7 DEF SubscriberInv

\* A snapshot is applied: what stays drawn is as it was before it.
LEMMA DrawnStays ==
    ASSUME ItemsType, DrawnIsCurrent, NEW a \in Seq(Item), StartOf(a, shown),
           NEW s \in Seq(Item), NEW first, NEW last, NEW clear, Covers(a, s, first, last, clear),
           first \in Nat, last \in Nat, NEW known,
           known = IF clear THEN {} ELSE DOMAIN drawn \ (first..last - 1)
    PROVE  /\ DOMAIN Redrawn(s, known) \subseteq Nat
           /\ \A i \in DOMAIN Redrawn(s, known) : i < Len(s) => Redrawn(s, known)[i] = s[i + 1]
  <1>1. DOMAIN drawn \subseteq Nat /\ Len(s) \in Nat
    BY DEF ItemsType
  <1>2. DOMAIN Redrawn(s, known) = known \union 0..Len(s) - 1
    BY DEF Redrawn
  <1>3. known \subseteq DOMAIN drawn
    OBVIOUS
  <1>4. ASSUME NEW i \in known, i < Len(s)
        PROVE  drawn[i] = s[i + 1]
    <2>1. ~clear /\ i \in DOMAIN drawn /\ i \in Nat /\ i \notin first..last - 1
      BY <1>1
    <2>2. ~Redraws(i, first, last, clear)
      BY <2>1 DEF Redraws
    <2>3. Same(a, s, i)
      BY <1>4, <2>1, <2>2 DEF Covers
    <2>4. Same(shown, a, i)
      BY <2>1, <2>3 DEF StartOf, Same
    <2>5. drawn[i] = shown[i + 1]
      BY <2>1, <2>4 DEF DrawnIsCurrent, Same
    <2> QED
      BY <2>3, <2>4, <2>5 DEF Same
  <1>5. \A i \in DOMAIN Redrawn(s, known) :
           Redrawn(s, known)[i] = IF i \in known THEN drawn[i] ELSE s[i + 1]
    BY DEF Redrawn
  <1> DEFINE d == Redrawn(s, known)
  <1>6. DOMAIN d \subseteq Nat
    BY <1>1, <1>2, <1>3
  <1>7. ASSUME NEW i \in DOMAIN d, i < Len(s)
        PROVE  d[i] = s[i + 1]
    <2>1. d[i] = IF i \in known THEN drawn[i] ELSE s[i + 1]
      BY <1>5
    <2> HIDE DEF d
    <2> QED
      BY <1>4, <1>7, <2>1
  <1> QED
    BY <1>6, <1>7

LEMMA HandlesItemsStep ==
    ASSUME SubscriberInv, HandlesItems
    PROVE  SubscriberInv'
  <1> DEFINE u == Head(channel)
             known == IF u.clear THEN {} ELSE DOMAIN drawn \ (u.first..u.last - 1)
  <1>0. ItemsType /\ DeferralInv /\ ChainInv /\ DrawnIsCurrent
    BY DEF SubscriberInv
  <1>1. /\ channel # <<>> /\ u.is = "NewItems" /\ channel' = Tail(channel)
        /\ UNCHANGED <<items, batch, deferred, found, isOpen>>
    BY DEF HandlesItems, taskVars
  <1>2. \/ u.items = <<>> /\ UNCHANGED <<shown, drawn>>
        \/ shown' = u.items /\ drawn' = Redrawn(u.items, known)
    BY DEF HandlesItems
  <1>3. PICK h : Chained(channel, h) /\ StartOf(h[1], shown) /\ Pends(h[Len(h)])
    BY <1>0 DEF ChainInv
  <1>4. /\ Chained(Tail(channel), Tail(h)) /\ Tail(h)[1] = h[2]
        /\ Tail(h)[Len(Tail(h))] = h[Len(h)] /\ Carries(u, h[1], h[2])
        /\ h[1] \in Seq(Item) /\ h[2] \in Seq(Item)
    BY <1>0, <1>1, <1>3, ChainShrinks DEF ItemsType
  <1>5. /\ u \in Updates /\ Tail(channel) \in Seq(Updates)
    BY <1>0, <1>1 DEF ItemsType
  <1> HIDE DEF u
  <1>6. u.items \in Seq(Item) /\ u.first \in Nat /\ u.last \in Nat
    BY <1>1, <1>5, SnapshotFields
  <1>7. h[2] = u.items /\ Covers(h[1], u.items, u.first, u.last, u.clear)
    BY <1>1, <1>4 DEF Carries
  <1>8. /\ DOMAIN Redrawn(u.items, known) \subseteq Nat
        /\ \A i \in DOMAIN Redrawn(u.items, known) :
              i < Len(u.items) => Redrawn(u.items, known)[i] = u.items[i + 1]
    BY <1>0, <1>3, <1>4, <1>6, <1>7, DrawnStays
  <1> HIDE DEF known
  <1>9. shown' \in Seq(Item) /\ DOMAIN drawn' \subseteq Nat /\ StartOf(h[2], shown')
    <2>1. CASE u.items = <<>> /\ UNCHANGED <<shown, drawn>>
      <3>1. Len(h[2]) = 0
        BY <1>7, <2>1
      <3> QED
        BY <1>0, <2>1, <3>1 DEF ItemsType, StartOf
    <2>2. CASE shown' = u.items /\ drawn' = Redrawn(u.items, known)
      BY <1>6, <1>7, <1>8, <2>2 DEF StartOf, Same
    <2> QED
      BY <1>2, <2>1, <2>2
  <1>10. DrawnIsCurrent'
    <2>1. CASE UNCHANGED <<shown, drawn>>
      BY <1>0, <2>1 DEF DrawnIsCurrent
    <2>2. CASE shown' = u.items /\ drawn' = Redrawn(u.items, known)
      <3> DEFINE d == Redrawn(u.items, known)
      <3>1. \A i \in DOMAIN d : i < Len(u.items) => d[i] = u.items[i + 1]
        BY <1>8
      <3> HIDE DEF d
      <3>2. drawn' = d
        BY <2>2 DEF d
      <3> QED
        BY <2>2, <3>1, <3>2 DEF DrawnIsCurrent
    <2> QED
      BY <1>2, <2>1, <2>2
  <1>11. Pends(h[Len(h)])'
    BY <1>1, <1>3, PendsStays
  <1>12. ChainInv'
    BY <1>1, <1>4, <1>9, <1>11 DEF ChainInv
  <1>13. ItemsType' /\ DeferralInv'
    BY <1>0, <1>1, <1>5, <1>9 DEF ItemsType, DeferralInv
  <1> QED
    BY <1>10, <1>12, <1>13 DEF SubscriberInv

LEMMA HandlesFoundStep ==
    ASSUME SubscriberInv, HandlesFound
    PROVE  SubscriberInv'
  <1>0. ItemsType /\ DeferralInv /\ ChainInv /\ DrawnIsCurrent
    BY DEF SubscriberInv
  <1>1. /\ channel # <<>> /\ Head(channel).is = "TargetFound" /\ channel' = Tail(channel)
        /\ UNCHANGED <<items, batch, deferred, found, isOpen, shown, drawn>>
    BY DEF HandlesFound, taskVars
  <1>3. PICK h : Chained(channel, h) /\ StartOf(h[1], shown) /\ Pends(h[Len(h)])
    BY <1>0 DEF ChainInv
  <1>4. /\ Chained(Tail(channel), Tail(h)) /\ Tail(h)[1] = h[2]
        /\ Tail(h)[Len(Tail(h))] = h[Len(h)] /\ Carries(Head(channel), h[1], h[2])
    BY <1>0, <1>1, <1>3, ChainShrinks DEF ItemsType
  <1>5. h[2] = h[1]
    BY <1>1, <1>4 DEF Carries
  <1>6. Tail(channel) \in Seq(Updates)
    BY <1>0, <1>1 DEF ItemsType
  <1>7. Pends(h[Len(h)])'
    BY <1>1, <1>3, PendsStays
  <1>8. ChainInv'
    BY <1>1, <1>3, <1>4, <1>5, <1>7 DEF ChainInv
  <1>9. ItemsType' /\ DeferralInv' /\ DrawnIsCurrent'
    BY <1>0, <1>1, <1>6 DEF ItemsType, DeferralInv, DrawnIsCurrent
  <1> QED
    BY <1>8, <1>9 DEF SubscriberInv

\* Steps that change neither the items nor what is known of them.
LEMMA OtherStep ==
    ASSUME SubscriberInv, UNCHANGED <<items, batch, deferred, found, isOpen, channel, shown>>,
           drawn' = drawn \/ drawn' = Redrawn(shown, {})
    PROVE  SubscriberInv'
  <1>0. ItemsType /\ DeferralInv /\ ChainInv /\ DrawnIsCurrent
    BY DEF SubscriberInv
  <1>1. DOMAIN drawn' \subseteq Nat /\ DrawnIsCurrent'
    <2>1. CASE drawn' = drawn
      BY <1>0, <2>1 DEF ItemsType, DrawnIsCurrent
    <2>2. CASE drawn' = Redrawn(shown, {})
      <3>1. drawn' = [i \in 0..Len(shown) - 1 |-> shown[i + 1]]
        BY <2>2 DEF Redrawn
      <3> QED
        BY <1>0, <3>1 DEF ItemsType, DrawnIsCurrent
    <2> QED
      BY <2>1, <2>2
  <1>2. ItemsType' /\ DeferralInv'
    BY <1>0, <1>1 DEF ItemsType, DeferralInv
  <1>3. ChainInv'
    <2>1. PICK h : Chained(channel, h) /\ StartOf(h[1], shown) /\ Pends(h[Len(h)])
      BY <1>0 DEF ChainInv
    <2> DEFINE a == h[Len(h)]
    <2>2. Pends(a)
      BY <2>1
    <2> HIDE DEF a
    <2>3. Pends(a)'
      BY <2>2 DEF Pends, Deferred, Same
    <2> QED
      BY <2>1, <2>3 DEF ChainInv, a
  <1> QED
    BY <1>1, <1>2, <1>3 DEF SubscriberInv

LEMMA SubscriberSteps == ASSUME SubscriberInv, [SubscriberNext]_subscriberVars PROVE SubscriberInv'
  <1>1. CASE Grows
    BY <1>1, GrowsStep
  <1>2. CASE Shrinks
    BY <1>2, ShrinksStep
  <1>3. CASE EndsBatch
    BY <1>3, EndsOpenBatch, EndsHiddenBatch
  <1>4. CASE SeesRequest
    BY <1>4, SeesRequestStep
  <1>5. CASE Coalesces
    BY <1>5, CoalescesStep
  <1>6. CASE HandlesItems
    BY <1>6, HandlesItemsStep
  <1>7. CASE HandlesFound
    BY <1>7, HandlesFoundStep
  <1>8. CASE Hides
    BY <1>8, OtherStep DEF Hides, taskVars
  <1>9. CASE Shows
    BY <1>9, OtherStep DEF Shows, taskVars
  <1>10. CASE JumpsTo
    BY <1>10, OtherStep DEF JumpsTo, taskVars
  <1>11. CASE ClosesPane
    BY <1>11, OtherStep DEF ClosesPane, taskVars
  <1>12. CASE UNCHANGED subscriberVars
    BY <1>12, OtherStep DEF subscriberVars, taskVars, viewVars
  <1> QED
    BY <1>1, <1>2, <1>3, <1>4, <1>5, <1>6, <1>7, <1>8, <1>9, <1>10, <1>11, <1>12
    DEF SubscriberNext, Screen, Searches

\* What a widget of a room screen shows at an index is what the screen's item at
\* that index is, after any batches, deferred, merged or skipped snapshots,
\* although only the indices that the subscriber task names are drawn again.
THEOREM DrawnAlwaysCurrent == SubscriberSpec => []DrawnIsCurrent
  <1>1. SubscriberInit => SubscriberInv
    BY SubscriberStarts
  <1>2. SubscriberInv /\ [SubscriberNext]_subscriberVars => SubscriberInv'
    BY SubscriberSteps
  <1>3. SubscriberInv => DrawnIsCurrent
    BY DEF SubscriberInv
  <1> QED
    BY <1>1, <1>2, <1>3, PTL DEF SubscriberSpec

----------------------------------------------------------------------------
(* The types of the subscriber: the indices it tells of, defers and draws  *)
(* stay within the longest timeline, or are usize::MAX.                    *)

Short(c) == \A k \in 1..Len(c) : c[k].is = "NewItems" => Len(c[k].items) <= MaxLength
LengthsInv == Len(items) <= MaxLength /\ Len(shown) <= MaxLength /\ Short(channel)
BatchInv == batch.first \in 0..Huge /\ batch.last \in 0..Huge
DeferredInv == deferred.start \in 0..Huge \union {Nowhere}
Requests == [open : BOOLEAN, length : 0..MaxLength \union {Nowhere}, changed : BOOLEAN]
AskedInv == request \in Requests
DrawnInv == \A i \in DOMAIN drawn : i \in 0..MaxLength - 1 /\ drawn[i] \in Item
SwitchesInv == /\ isOpen \in BOOLEAN /\ sought \in BOOLEAN /\ visible \in BOOLEAN
               /\ pane \in {"none", "searching", "error"}
BoundsInv == LengthsInv /\ BatchInv /\ DeferredInv /\ AskedInv /\ DrawnInv /\ SwitchesInv

LEMMA BoundsGiveTypes ==
    ASSUME SubscriberInv, BoundsInv
    PROVE  SubscriberTypeOK
  <1>1. /\ items \in Seq(Item) /\ shown \in Seq(Item) /\ batch \in Batches
        /\ deferred \in Deferrals /\ found \in Nat \union {Nowhere}
    BY DEF SubscriberInv, ItemsType
  <1>2. batch \in [first : 0..Huge, last : 0..Huge, clear : BOOLEAN, append : BOOLEAN,
                   only : BOOLEAN, begun : BOOLEAN]
    BY <1>1 DEF Batches, BoundsInv, BatchInv
  <1>3. deferred \in [some : BOOLEAN, appends : BOOLEAN, start : 0..Huge \union {Nowhere},
                      full : BOOLEAN]
    BY <1>1 DEF Deferrals, BoundsInv, DeferredInv
  <1>4. {isOpen, sought, visible} \subseteq BOOLEAN
    BY Zenon DEF BoundsInv, SwitchesInv
  <1> QED
    BY <1>1, <1>2, <1>3, <1>4
    DEF SubscriberTypeOK, BoundsInv, LengthsInv, AskedInv, Requests, DrawnInv, SwitchesInv

\* A diff, as far as the bounds go.
Diffed(first, last) ==
    /\ Len(items') <= MaxLength
    /\ batch'.first = Least(batch.first, first)
    /\ batch'.last = Most(batch.last, last)
    /\ UNCHANGED <<isOpen, deferred, request, channel, viewVars>>
    /\ sought' = sought \/ sought' \in BOOLEAN

LEMMA DiffIs ==
    ASSUME NEW s, NEW first, NEW last, NEW clear, NEW append, NEW only,
           Diff(s, first, last, clear, append, only), sought' = sought \/ sought' \in BOOLEAN
    PROVE  Diffed(first, last)
  BY DEF Diff, Diffed

LEMMA Seeks ==
    /\ SeeksOn => sought' = sought
    /\ \A index : Unshifts(index) => sought' = sought
    /\ \A id, index : LooksAt(id, index) => sought' = sought \/ sought' \in BOOLEAN
  BY DEF SeeksOn, Unshifts, LooksAt

LEMMA DiffsWithin ==
    ASSUME ItemsType, Len(items) <= MaxLength, Grows \/ Shrinks
    PROVE  \E first, last \in 0..Huge : Diffed(first, last)
  <1>0. items \in Seq(Item) /\ Len(items) \in Nat /\ Len(items) < Huge
    BY HugeIsNat DEF ItemsType
  <1>h. Huge \in 0..Huge /\ 0 \in 0..Huge
    BY HugeIsNat
  <1>1. ASSUME NEW s, ChangesAll(s), sought' = sought \/ sought' \in BOOLEAN
        PROVE  \E first, last \in 0..Huge : Diffed(first, last)
    BY <1>1, <1>h, DiffIs DEF ChangesAll
  <1>2. ASSUME NEW s, NEW first \in 0..Huge, NEW last \in 0..Huge, Changes(s, first, last),
               sought' = sought \/ sought' \in BOOLEAN
        PROVE  \E f, l \in 0..Huge : Diffed(f, l)
    BY <1>2, DiffIs DEF Changes
  <1>3. CASE Appends
    <2>1. sought' = sought
      BY <1>3, Seeks DEF Appends
    <2>2. ASSUME NEW x, Diff(Append(items, x), Len(items), Len(items) + 1, FALSE, TRUE, TRUE)
          PROVE  Diffed(Len(items), Len(items) + 1)
      BY <2>1, <2>2, DiffIs
    <2>3. ASSUME NEW x \in Arrivals, NEW y \in Arrivals,
                 Diff(items \o <<x, y>>, Len(items), Len(items) + 2, FALSE, TRUE, TRUE)
          PROVE  Diffed(Len(items), Len(items) + 2) /\ Len(items) + 2 <= MaxLength
      <3>1. Len(items \o <<x, y>>) <= MaxLength
        BY <2>3 DEF Diff
      <3>2. x \in Item /\ y \in Item /\ <<x, y>> \in Seq(Item) /\ Len(<<x, y>>) = 2
        BY ArrivalsType
      <3>3. Len(items \o <<x, y>>) = Len(items) + 2
        BY <1>0, <3>2, ConcatFacts
      <3>4. Len(items) + 2 <= MaxLength
        BY <3>1, <3>3
      <3>5. Diffed(Len(items), Len(items) + 2)
        BY <2>1, <2>3, DiffIs
      <3> QED
        BY <3>4, <3>5
    <2>4. Len(items) \in 0..Huge /\ Len(items) + 1 \in 0..Huge
      BY <1>0, HugeIsNat
    <2>5. Len(items) + 2 <= MaxLength => Len(items) + 2 \in 0..Huge
      BY <1>0, HugeIsNat
    <2> QED
      BY <1>3, <2>2, <2>3, <2>4, <2>5 DEF Appends
  <1>4. CASE PushesFront
    BY <1>1, <1>4, Seeks DEF PushesFront
  <1>5. CASE Inserts
    <2>1. PICK x \in Older, index \in 0..Len(items) :
             /\ LooksAt(x.id, index)
             /\ Diff(InsertAt(items, index + 1, x),
                     IF index = 0 THEN Huge ELSE index, IF index = 0 THEN 0 ELSE Huge,
                     index = 0, index >= Len(items), index >= Len(items))
      BY <1>5 DEF Inserts
    <2> DEFINE f == IF index = 0 THEN Huge ELSE index
               l == IF index = 0 THEN 0 ELSE Huge
    <2>2. f \in 0..Huge /\ l \in 0..Huge
      BY <1>0, HugeIsNat
    <2>3. Diffed(f, l)
      <3>1. sought' = sought \/ sought' \in BOOLEAN
        BY <2>1, Seeks
      <3> QED
        BY <2>1, <3>1, DiffIs
    <2> HIDE DEF f, l
    <2> QED
      BY <2>2, <2>3
  <1>6. CASE Sets
    <2>1. PICK index \in 0..Len(items) - 1 :
             SeeksOn /\ Changes([items EXCEPT ![index + 1].rev = 1 - @], index, index + 1)
      BY <1>6 DEF Sets
    <2>2. index \in 0..Huge /\ index + 1 \in 0..Huge
      BY <1>0, HugeIsNat
    <2> QED
      BY <1>2, <2>1, <2>2, Seeks
  <1>7. CASE PopsFront
    BY <1>1, <1>7, Seeks DEF PopsFront
  <1>8. CASE PopsBack
    <2>1. items # <<>> /\ SeeksOn /\ Changes(Front(items), Len(items) - 1, Huge)
      BY <1>8 DEF PopsBack
    <2>2. Len(items) - 1 \in 0..Huge
      BY <1>0, <2>1, HugeIsNat
    <2> QED
      BY <1>h, <1>2, <2>1, <2>2, Seeks
  <1>9. CASE Removes
    <2>1. PICK index \in 0..Len(items) - 1 :
             /\ Unshifts(index)
             /\ IF index = 0 THEN ChangesAll(RemoveAt(items, index + 1))
                             ELSE Changes(RemoveAt(items, index + 1), index - 1, Huge)
      BY <1>9 DEF Removes
    <2>2. CASE index = 0
      BY <1>1, <2>1, <2>2, Seeks
    <2>3. CASE index # 0
      <3>1. index - 1 \in 0..Huge
        BY <1>0, <2>3, HugeIsNat
      <3> QED
        BY <1>h, <1>2, <2>1, <2>3, <3>1, Seeks
    <2> QED
      BY <2>2, <2>3
  <1>10. CASE Truncates
    <2>1. PICK length \in 0..Len(items) :
             /\ SeeksOn
             /\ IF length = 0 THEN ChangesAll(SubSeq(items, 1, length))
                              ELSE Changes(SubSeq(items, 1, length), length - 1, Huge)
      BY <1>10 DEF Truncates
    <2>2. CASE length = 0
      BY <1>1, <2>1, <2>2, Seeks
    <2>3. CASE length # 0
      <3>1. length - 1 \in 0..Huge
        BY <1>0, <2>3, HugeIsNat
      <3> QED
        BY <1>h, <1>2, <2>1, <2>3, <3>1, Seeks
    <2> QED
      BY <2>2, <2>3
  <1>11. CASE ClearsAll \/ Resets
    BY <1>1, <1>11, Seeks DEF ClearsAll, Resets
  <1> QED
    BY <1>3, <1>4, <1>5, <1>6, <1>7, <1>8, <1>9, <1>10, <1>11 DEF Grows, Shrinks

LEMMA DiffsKeepBounds ==
    ASSUME ItemsType, BoundsInv, Grows \/ Shrinks
    PROVE  BoundsInv'
  <1>1. PICK first \in 0..Huge, last \in 0..Huge : Diffed(first, last)
    BY DiffsWithin DEF BoundsInv, LengthsInv
  <1>2. BatchInv'
    BY <1>1, HugeIsNat DEF BoundsInv, BatchInv, Diffed, Least, Most
  <1>3. LengthsInv'
    BY <1>1 DEF BoundsInv, LengthsInv, Diffed, Short, viewVars
  <1>4. DeferredInv' /\ AskedInv' /\ DrawnInv'
    BY <1>1 DEF BoundsInv, DeferredInv, AskedInv, DrawnInv, Diffed, viewVars
  <1>5. SwitchesInv'
    BY <1>1 DEF BoundsInv, SwitchesInv, Diffed, viewVars
  <1> QED
    BY <1>2, <1>3, <1>4, <1>5 DEF BoundsInv

LEMMA ShortConcat ==
    ASSUME NEW a \in Seq(Updates), NEW b \in Seq(Updates), Short(a), Short(b)
    PROVE  a \o b \in Seq(Updates) /\ Short(a \o b)
  <1> DEFINE c == a \o b
  <1>1. /\ c \in Seq(Updates) /\ Len(c) = Len(a) + Len(b)
        /\ \A k \in 1..Len(a) : c[k] = a[k]
        /\ \A k \in 1..Len(b) : c[Len(a) + k] = b[k]
    BY ConcatFacts
  <1> HIDE DEF c
  <1>2. ASSUME NEW k \in 1..Len(c), c[k].is = "NewItems" PROVE Len(c[k].items) <= MaxLength
    <2>1. CASE k <= Len(a)
      <3>1. k \in 1..Len(a)
        BY <2>1
      <3> QED
        BY <1>1, <1>2, <3>1 DEF Short
    <2>2. CASE ~(k <= Len(a))
      <3> DEFINE m == k - Len(a)
      <3>1. m \in 1..Len(b) /\ k = Len(a) + m
        BY <1>1, <2>2
      <3> HIDE DEF m
      <3> QED
        BY <1>1, <1>2, <3>1 DEF Short
    <2> QED
      BY <2>1, <2>2
  <1>3. c \in Seq(Updates) /\ Short(c)
    BY <1>1, <1>2 DEF Short
  <1> QED
    BY <1>3 DEF c

LEMMA ShortTold ==
    ASSUME NEW t, Len(items) <= MaxLength,
           \/ t = <<>>
           \/ \E u \in Updates : t = <<u>> /\ (u.is = "NewItems" => u.items = items)
    PROVE  t \in Seq(Updates) /\ Short(t)
  <1>1. CASE t = <<>>
    BY <1>1 DEF Short
  <1>2. ASSUME NEW u \in Updates, t = <<u>>, u.is = "NewItems" => u.items = items
        PROVE  t \in Seq(Updates) /\ Short(t)
    <2>1. t \in Seq(Updates) /\ Len(t) = 1 /\ t[1] = u
      BY <1>2
    <2> QED
      BY <1>2, <2>1 DEF Short
  <1> QED
    BY <1>1, <1>2

LEMMA EndsBatchBounds ==
    ASSUME SubscriberInv, BoundsInv, EndsBatch
    PROVE  BoundsInv'
  <1>0. /\ ItemsType /\ items \in Seq(Item) /\ channel \in Seq(Updates) /\ Len(items) <= MaxLength
        /\ batch \in Batches /\ found \in Nat \union {Nowhere} /\ Short(channel)
    BY DEF SubscriberInv, ItemsType, BoundsInv, LengthsInv
  <1>1. /\ batch' = NoBatch
        /\ UNCHANGED <<items, isOpen, request, shown, drawn, visible, pane>>
    BY DEF EndsBatch, viewVars
  <1>2. BatchInv'
    BY <1>1, HugeIsNat DEF BatchInv, NoBatch
  <1>3. AskedInv' /\ DrawnInv'
    BY <1>1 DEF BoundsInv, AskedInv, DrawnInv
  <1>4. SwitchesInv'
    <2>1. sought' = sought \/ sought' \in BOOLEAN
      BY DEF EndsBatch
    <2> QED
      BY <1>1, <2>1 DEF BoundsInv, SwitchesInv
  <1>5. Short(channel')
    <2>1. CASE isOpen
      <3> DEFINE first == IF BehindDivider THEN 0 ELSE batch.first
                 clear == batch.clear \/ BehindDivider
                 u == NewItems(items, first, batch.last, clear)
                 t == IF found = Nowhere THEN <<>> ELSE <<TargetFound(found)>>
      <3>1. channel' = channel \o <<u>> \o t
        BY <2>1 DEF EndsBatch
      <3>2. first \in Nat /\ batch.last \in Nat /\ clear \in BOOLEAN
        BY <1>0 DEF Batches
      <3> HIDE DEF first, clear
      <3>3. u \in Updates /\ u.items = items
        BY <1>0, <3>2, SnapshotType
      <3>4. t = <<>> \/ \E v \in Updates : t = <<v>> /\ v.is = "TargetFound"
        BY <1>0, FoundType
      <3> HIDE DEF u, t
      <3>5. <<u>> \in Seq(Updates) /\ Short(<<u>>) /\ t \in Seq(Updates) /\ Short(t)
        BY <1>0, <3>3, <3>4, ShortTold
      <3>6. channel \o <<u>> \in Seq(Updates) /\ Short(channel \o <<u>>)
        BY <1>0, <3>5, ShortConcat
      <3>7. Short((channel \o <<u>>) \o t)
        BY <3>5, <3>6, ShortConcat
      <3> QED
        BY <3>1, <3>7
    <2>2. CASE ~isOpen
      BY <1>0, <2>2 DEF EndsBatch
    <2> QED
      BY <2>1, <2>2
  <1>6. LengthsInv'
    BY <1>1, <1>5 DEF BoundsInv, LengthsInv
  <1>7. DeferredInv'
    <2>1. CASE isOpen
      BY <2>1 DEF EndsBatch, BoundsInv, DeferredInv
    <2>2. CASE ~isOpen
      <3> DEFINE n == IF OnlyAppended /\ ~deferred.full
                        THEN IF deferred.start = Nowhere THEN batch.first
                                                         ELSE Least(deferred.start, batch.first)
                        ELSE Nowhere
      <3>1. n \in 0..Huge \union {Nowhere}
        BY HugeIsNat DEF BoundsInv, DeferredInv, BatchInv, Least
      <3>2. Recorded = [some |-> TRUE, appends |-> deferred.appends \/ batch.append, start |-> n,
                        full |-> deferred.full \/ ~OnlyAppended]
        BY DEF Recorded
      <3> HIDE DEF n
      <3>3. Recorded.start = n /\ [Recorded EXCEPT !.full = TRUE, !.start = Nowhere].start = Nowhere
        BY <3>2
      <3>4. deferred' = Recorded \/ deferred' = [Recorded EXCEPT !.full = TRUE, !.start = Nowhere]
        BY <2>2 DEF EndsBatch
      <3> QED
        BY <3>1, <3>3, <3>4 DEF DeferredInv
    <2> QED
      BY <2>1, <2>2
  <1> QED
    BY <1>2, <1>3, <1>4, <1>6, <1>7 DEF BoundsInv

LEMMA SeesRequestBounds ==
    ASSUME SubscriberInv, BoundsInv, SeesRequest
    PROVE  BoundsInv'
  <1> DEFINE reopens == request.open /\ ~isOpen /\ deferred.some
             resolved == reopens /\ found # Nowhere /\ Target \in Ids(items)
             searches == request.length # Nowhere /\ ~resolved /\ ~sought
             hit == searches /\ Target \in Ids(items) /\ IndexOfTarget(items) < SearchFrom
             told == IF reopens THEN <<Snapshot>> ELSE <<>>
             t == IF resolved \/ hit THEN <<TargetFound(IndexOfTarget(items))>> ELSE <<>>
             some == request.length # Nowhere /\ ~resolved /\ ~hit
  <1>0. /\ ItemsType /\ DeferralInv /\ ChainInv /\ items \in Seq(Item) /\ channel \in Seq(Updates)
        /\ Len(items) <= MaxLength /\ Short(channel)
    BY DEF SubscriberInv, ItemsType, BoundsInv, LengthsInv
  <1>1. /\ request' = [request EXCEPT !.changed = FALSE] /\ isOpen' = request.open
        /\ channel' = channel \o told \o t
        /\ deferred' = (IF reopens THEN NoChanges ELSE deferred)
        /\ sought' = some
        /\ UNCHANGED <<items, batch, shown, drawn, visible, pane>> /\ ~batch.begun
    BY DEF SeesRequest, viewVars
  <1>2. some \in BOOLEAN /\ (reopens => deferred.some)
    OBVIOUS
  <1>3. t = <<>> \/ \E u \in Updates : t = <<u>> /\ u.is = "TargetFound"
    <2>1. Target \in Ids(items) => IndexOfTarget(items) \in Nat
      <3> SUFFICES ASSUME Target \in Ids(items) PROVE IndexOfTarget(items) \in Nat
        OBVIOUS
      <3> DEFINE k == CHOOSE i \in DOMAIN items : items[i].id = Target
      <3>1. k \in DOMAIN items
        BY DEF Ids
      <3>2. IndexOfTarget(items) = k - 1
        BY DEF IndexOfTarget
      <3> HIDE DEF k
      <3> QED
        BY <1>0, <3>1, <3>2
    <2>2. resolved \/ hit => Target \in Ids(items)
      OBVIOUS
    <2> HIDE DEF resolved, hit
    <2> QED
      BY <2>1, <2>2, FoundType
  <1>4. reopens => Snapshot \in Updates /\ Snapshot.items = items
    <2> SUFFICES ASSUME reopens PROVE Snapshot \in Updates /\ Snapshot.items = items
      OBVIOUS
    <2>1. PICK h : Pends(h[Len(h)])
      BY <1>0 DEF ChainInv
    <2>2. Snapshot \in Updates
      BY <1>0, <1>1, <1>2, <2>1, SnapshotFacts
    <2>3. Snapshot.items = items
      BY DEF Snapshot, NewItems
    <2> QED
      BY <2>2, <2>3
  <1>5. told = <<>> \/ \E u \in Updates : told = <<u>> /\ u.items = items
    <2> HIDE DEF reopens
    <2> QED
      BY <1>4
  <1>6. DeferredInv'
    <2> HIDE DEF reopens
    <2> QED
      BY <1>1 DEF BoundsInv, DeferredInv, NoChanges
  <1> HIDE DEF told, t, some
  <1>7. Short(channel')
    <2>1. t \in Seq(Updates) /\ Short(t)
      BY <1>0, <1>3, ShortTold
    <2>2. told \in Seq(Updates) /\ Short(told)
      BY <1>0, <1>5, ShortTold
    <2>3. channel \o told \in Seq(Updates) /\ Short(channel \o told)
      BY <1>0, <2>2, ShortConcat
    <2>4. Short((channel \o told) \o t)
      BY <2>1, <2>3, ShortConcat
    <2> QED
      BY <1>1, <2>4
  <1> HIDE DEF reopens, resolved, searches, hit
  <1>8. LengthsInv' /\ BatchInv' /\ DrawnInv'
    BY <1>1, <1>7 DEF BoundsInv, LengthsInv, BatchInv, DrawnInv
  <1>9. AskedInv' /\ request.open \in BOOLEAN
    BY <1>1 DEF BoundsInv, AskedInv, Requests
  <1>10. SwitchesInv'
    BY <1>1, <1>2, <1>9 DEF BoundsInv, SwitchesInv
  <1> QED
    BY <1>6, <1>8, <1>9, <1>10 DEF BoundsInv

LEMMA CoalescesBounds ==
    ASSUME SubscriberInv, BoundsInv, Coalesces
    PROVE  BoundsInv'
  <1>0. channel \in Seq(Updates) /\ Short(channel)
    BY DEF SubscriberInv, ItemsType, BoundsInv, LengthsInv
  <1>1. PICK i \in 1..Len(channel) - 1 :
           /\ channel[i].is = "NewItems" /\ channel[i + 1].is = "NewItems"
           /\ channel' = ReplaceAt(RemoveAt(channel, i), i, Merged(channel, i))
    BY DEF Coalesces, Merged
  <1> DEFINE new == Merged(channel, i)
             d == ReplaceAt(RemoveAt(channel, i), i, new)
  <1>2. new \in Updates /\ new.items = channel[i + 1].items
    BY <1>0, <1>1, MergedFacts
  <1>3. Len(new.items) <= MaxLength
    <2>1. i + 1 \in 1..Len(channel)
      BY <1>0
    <2>2. Len(channel[i + 1].items) <= MaxLength
      BY <1>0, <1>1, <2>1 DEF Short
    <2> QED
      BY <1>2, <2>2
  <1> HIDE DEF new
  <1>4. /\ Len(d) = Len(channel) - 1
        /\ \A k \in 1..i - 1 : d[k] = channel[k]
        /\ d[i] = new
        /\ \A k \in i + 1..Len(channel) - 1 : d[k] = channel[k + 1]
    BY <1>0, <1>2, MergePlaces
  <1>5. channel' = d
    BY <1>1 DEF new
  <1> HIDE DEF d
  <1>6. ASSUME NEW k \in 1..Len(d), d[k].is = "NewItems" PROVE Len(d[k].items) <= MaxLength
    <2>1. Len(channel) \in Nat /\ i \in Nat /\ k \in Nat
      BY <1>0
    <2>2. CASE k < i
      <3>1. k \in 1..i - 1 /\ k \in 1..Len(channel)
        BY <1>4, <2>1, <2>2
      <3> QED
        BY <1>0, <1>4, <1>6, <3>1 DEF Short
    <2>3. CASE k = i
      BY <1>3, <1>4, <2>3
    <2>4. CASE k > i
      <3>1. k \in i + 1..Len(channel) - 1 /\ k + 1 \in 1..Len(channel)
        BY <1>4, <2>1, <2>4
      <3> QED
        BY <1>0, <1>4, <1>6, <3>1 DEF Short
    <2> QED
      BY <2>1, <2>2, <2>3, <2>4
  <1>7. Short(channel')
    BY <1>5, <1>6 DEF Short
  <1>8. UNCHANGED <<items, batch, deferred, isOpen, sought, request, shown, drawn, visible, pane>>
    BY DEF Coalesces, taskVars, viewVars
  <1>9. LengthsInv' /\ BatchInv' /\ DeferredInv'
    BY <1>7, <1>8 DEF BoundsInv, LengthsInv, BatchInv, DeferredInv
  <1>10. AskedInv' /\ DrawnInv' /\ SwitchesInv'
    BY <1>8 DEF BoundsInv, AskedInv, DrawnInv, SwitchesInv
  <1> QED
    BY <1>9, <1>10 DEF BoundsInv

\* What stays drawn is of a length as before, what is drawn anew an item.
LEMMA RedrawnBounds ==
    ASSUME DrawnInv, NEW s \in Seq(Item), Len(s) <= MaxLength, NEW known, known \subseteq DOMAIN drawn
    PROVE  \A i \in DOMAIN Redrawn(s, known) :
              i \in 0..MaxLength - 1 /\ Redrawn(s, known)[i] \in Item
  <1> DEFINE d == Redrawn(s, known)
  <1>1. DOMAIN d = known \union 0..Len(s) - 1
    BY DEF Redrawn
  <1>2. \A i \in DOMAIN d : d[i] = IF i \in known THEN drawn[i] ELSE s[i + 1]
    BY DEF Redrawn
  <1> HIDE DEF d
  <1>3. ASSUME NEW i \in DOMAIN d PROVE i \in 0..MaxLength - 1 /\ d[i] \in Item
    <2>1. CASE i \in known
      BY <1>2, <2>1 DEF DrawnInv
    <2>2. CASE i \notin known
      <3>1. i \in 0..Len(s) - 1 /\ Len(s) \in Nat
        BY <1>1, <2>2
      <3>2. i + 1 \in 1..Len(s) /\ i \in 0..MaxLength - 1
        BY <3>1, HugeIsNat
      <3>3. s[i + 1] \in Item
        BY <3>2
      <3> QED
        BY <1>2, <2>2, <3>2, <3>3
    <2> QED
      BY <2>1, <2>2
  <1> QED
    BY <1>3 DEF d

LEMMA HandlesItemsBounds ==
    ASSUME SubscriberInv, BoundsInv, HandlesItems
    PROVE  BoundsInv'
  <1> DEFINE u == Head(channel)
             known == IF u.clear THEN {} ELSE DOMAIN drawn \ (u.first..u.last - 1)
  <1>0. channel \in Seq(Updates) /\ channel # <<>> /\ Short(channel) /\ DrawnInv
    BY DEF SubscriberInv, ItemsType, BoundsInv, LengthsInv, HandlesItems
  <1>1. /\ channel' = Tail(channel) /\ u.is = "NewItems"
        /\ UNCHANGED <<items, batch, deferred, isOpen, sought, request, visible, pane>>
    BY DEF HandlesItems, taskVars
  <1>2. UNCHANGED <<shown, drawn>> \/ (shown' = u.items /\ drawn' = Redrawn(u.items, known))
    BY DEF HandlesItems
  <1>3. u \in Updates /\ u = channel[1] /\ 1 \in 1..Len(channel)
    BY <1>0
  <1>4. known \subseteq DOMAIN drawn
    OBVIOUS
  <1> HIDE DEF u, known
  <1>5. u.items \in Seq(Item) /\ Len(u.items) <= MaxLength
    BY <1>0, <1>1, <1>3, SnapshotFields DEF Short
  <1>6. DrawnInv'
    <2>1. CASE UNCHANGED <<shown, drawn>>
      BY <1>0, <2>1 DEF DrawnInv
    <2>2. CASE shown' = u.items /\ drawn' = Redrawn(u.items, known)
      <3> DEFINE d == Redrawn(u.items, known)
      <3>1. \A i \in DOMAIN d : i \in 0..MaxLength - 1 /\ d[i] \in Item
        BY <1>0, <1>4, <1>5, RedrawnBounds
      <3>2. drawn' = d
        BY <2>2
      <3> HIDE DEF d
      <3> QED
        BY <3>1, <3>2 DEF DrawnInv
    <2> QED
      BY <1>2, <2>1, <2>2
  <1>7. Short(channel')
    <2>1. Len(Tail(channel)) = Len(channel) - 1 /\ \A k \in 1..Len(channel) - 1 :
             Tail(channel)[k] = channel[k + 1] /\ k + 1 \in 1..Len(channel)
      BY <1>0
    <2> QED
      BY <1>0, <1>1, <2>1 DEF Short
  <1>8. LengthsInv'
    BY <1>1, <1>2, <1>5, <1>7 DEF BoundsInv, LengthsInv
  <1>9. BatchInv' /\ DeferredInv' /\ AskedInv' /\ SwitchesInv'
    BY <1>1 DEF BoundsInv, BatchInv, DeferredInv, AskedInv, SwitchesInv
  <1> QED
    BY <1>6, <1>8, <1>9 DEF BoundsInv

\* The screen's other steps ask, answer a request, or draw all over again.
LEMMA ScreenBounds ==
    ASSUME SubscriberInv, BoundsInv,
           HandlesFound \/ Hides \/ Shows \/ Searches \/ UNCHANGED subscriberVars
    PROVE  BoundsInv'
  <1>0. /\ channel \in Seq(Updates) /\ shown \in Seq(Item) /\ Len(shown) <= MaxLength
        /\ Short(channel) /\ DrawnInv
    BY DEF SubscriberInv, ItemsType, BoundsInv, LengthsInv
  <1>1. UNCHANGED <<items, batch, deferred, isOpen, sought, shown>>
    BY DEF HandlesFound, Hides, Shows, Searches, JumpsTo, ClosesPane, subscriberVars, taskVars,
           viewVars
  <1>2. AskedInv'
    <2>1. Len(shown) \in 0..MaxLength
      BY <1>0, HugeIsNat
    <2>2. request \in Requests
      BY DEF BoundsInv, AskedInv
    <2>3. CASE HandlesFound
      BY <2>2, <2>3 DEF HandlesFound, AskedInv, Requests
    <2>4. CASE Hides \/ Shows
      BY <2>2, <2>4 DEF Hides, Shows, AskedInv, Requests
    <2>5. CASE JumpsTo
      BY <2>1, <2>2, <2>5 DEF JumpsTo, AskedInv, Requests
    <2>6. CASE ClosesPane
      BY <2>2, <2>6 DEF ClosesPane, AskedInv, Requests
    <2> QED
      BY <2>2, <2>3, <2>4, <2>5, <2>6 DEF Searches, subscriberVars, AskedInv
  <1>3. DrawnInv'
    <2>1. CASE drawn' = drawn
      BY <1>0, <2>1 DEF DrawnInv
    <2>2. CASE drawn' = Redrawn(shown, {})
      <3> DEFINE d == Redrawn(shown, {})
      <3>1. \A i \in DOMAIN d : i \in 0..MaxLength - 1 /\ d[i] \in Item
        BY <1>0, RedrawnBounds
      <3> HIDE DEF d
      <3> QED
        BY <2>2, <3>1 DEF DrawnInv, d
    <2> QED
      BY <2>1, <2>2 DEF HandlesFound, Hides, Shows, Searches, JumpsTo, ClosesPane, subscriberVars,
                        viewVars
  <1>4. Short(channel')
    <2>1. CASE channel' = channel
      BY <1>0, <2>1
    <2>2. CASE channel # <<>> /\ channel' = Tail(channel)
      <3>1. Len(Tail(channel)) = Len(channel) - 1 /\ \A k \in 1..Len(channel) - 1 :
               Tail(channel)[k] = channel[k + 1] /\ k + 1 \in 1..Len(channel)
        BY <1>0, <2>2
      <3> QED
        BY <1>0, <2>2, <3>1 DEF Short
    <2> QED
      BY <2>1, <2>2 DEF HandlesFound, Hides, Shows, Searches, JumpsTo, ClosesPane, subscriberVars
  <1>5. SwitchesInv'
    <2>1. visible' \in BOOLEAN /\ pane' \in {"none", "searching", "error"}
      BY DEF HandlesFound, Hides, Shows, Searches, JumpsTo, ClosesPane, subscriberVars, viewVars,
             BoundsInv, SwitchesInv
    <2> QED
      BY <1>1, <2>1 DEF BoundsInv, SwitchesInv
  <1>6. LengthsInv' /\ BatchInv' /\ DeferredInv'
    BY <1>1, <1>4 DEF BoundsInv, LengthsInv, BatchInv, DeferredInv
  <1> QED
    BY <1>2, <1>3, <1>5, <1>6 DEF BoundsInv

\* At the start the screen has drawn all there is, a divider and an event at most.
LEMMA BoundsStart ==
    ASSUME SubscriberInit
    PROVE  BoundsInv
  <1>1. /\ items \in Seq(Item) /\ Len(items) <= 2
    <2>1. Fresh(Divider) \in Item /\ \A e \in Events : Fresh(e) \in Item
      BY DEF Fresh, Item
    <2> QED
      BY <2>1 DEF SubscriberInit
  <1>2. shown = items /\ channel = <<>> /\ batch = NoBatch /\ deferred = NoChanges
    BY DEF SubscriberInit
  <1>3. LengthsInv
    BY <1>1, <1>2, SubscriberAssumption DEF LengthsInv, Short
  <1>4. BatchInv /\ DeferredInv
    BY <1>2, HugeIsNat DEF BatchInv, DeferredInv, NoBatch, NoChanges
  <1>5. AskedInv
    BY DEF SubscriberInit, AskedInv, Requests
  <1>6. DrawnInv
    <2>1. drawn = [i \in 0..Len(items) - 1 |-> items[i + 1]]
      BY DEF SubscriberInit
    <2> QED
      BY <1>1, <2>1, SubscriberAssumption, HugeIsNat DEF DrawnInv
  <1>7. SwitchesInv
    BY DEF SubscriberInit, SwitchesInv
  <1> QED
    BY <1>3, <1>4, <1>5, <1>6, <1>7 DEF BoundsInv

\* The types of the subscriber: no snapshot, batch, deferred change or widget is of
\* an index beyond the longest timeline (timeline_subscriber_handler,
\* process_timeline_updates).
THEOREM SubscriberTypeCorrect == SubscriberSpec => []SubscriberTypeOK
  <1> DEFINE Inv == SubscriberInv /\ BoundsInv
  <1>1. SubscriberInit => Inv
    BY SubscriberStarts, BoundsStart
  <1>2. Inv /\ [SubscriberNext]_subscriberVars => Inv'
    <2> SUFFICES ASSUME SubscriberInv, BoundsInv, [SubscriberNext]_subscriberVars
                 PROVE  SubscriberInv' /\ BoundsInv'
      OBVIOUS
    <2>1. ItemsType
      BY DEF SubscriberInv
    <2>2. BoundsInv'
      BY <2>1, DiffsKeepBounds, EndsBatchBounds, SeesRequestBounds, CoalescesBounds,
         HandlesItemsBounds, ScreenBounds DEF SubscriberNext, Screen
    <2> QED
      BY <2>2, SubscriberSteps
  <1>3. Inv => SubscriberTypeOK
    BY BoundsGiveTypes
  <1> QED
    BY <1>1, <1>2, <1>3, PTL DEF SubscriberSpec

----------------------------------------------------------------------------
(* Searches in a timeline that grows.                                      *)
(* Each snapshot in the chain of what the screen was told is shorter than  *)
(* the task's items, or is them; and an index that was told is the         *)
(* target's in the snapshot before it.                                     *)

Grown(a, b) == a = b \/ Len(a) < Len(b)
PointsAt(index, s) == Target \in Ids(s) => IndexOfTarget(s) = index

Leads(u, a, b) == IF u.is = "NewItems" THEN b = u.items /\ Grown(a, b)
                                       ELSE b = a /\ PointsAt(u.index, a)
Leading == {r \in Links : Leads(r[1], r[2], r[3])}

\* The updates c lead from the snapshot a to b, over none that are ahead of s.
Conveys(c, a, s, b) ==
    \E h : /\ Linked(c, h, Leading) /\ h[1] = a /\ h[Len(h)] = b
           /\ \A k \in 1..Len(h) : Grown(h[k], s)

\* What is told and what is not: the last snapshot told is of the items, but for a
\* batch and what is deferred.
ToldInv ==
    \E b : /\ Conveys(channel, shown, items, b)
           /\ ~deferred.some /\ ~batch.begun => b = items

\* There is one target at most, and the task knows where it is.
TargetInv ==
    /\ \A i, j \in DOMAIN items : items[i].id = Target /\ items[j].id = Target => i = j
    /\ found # Nowhere => found + 1 \in DOMAIN items /\ items[found + 1].id = Target

RequestType ==
    /\ request \in [open : BOOLEAN, length : Nat \union {Nowhere}, changed : BOOLEAN]
    /\ {isOpen, sought, visible} \subseteq BOOLEAN

\* The task sees the request to close before the one to open again is made.
OpenInv ==
    /\ request.open = visible
    /\ ~request.changed => isOpen = request.open
    /\ request.changed /\ ~isOpen => request.open

\* A search is for a target that the screen did not have when it began; the items
\* were as many then, or fewer.
SearchInv ==
    /\ request.length # Nowhere =>
          /\ request.length <= Len(items)
          /\ Target \in Ids(items) => request.length < Len(items)
    /\ sought => Target \notin Ids(items)
    /\ pane = "searching" =>
          /\ request.length # Nowhere
          /\ \/ request.changed \/ sought \/ found # Nowhere
             \/ \E i \in DOMAIN channel : channel[i].is = "TargetFound"

GrowingInv == SubscriberInv /\ RequestType /\ OpenInv /\ TargetInv /\ SearchInv /\ ToldInv

LEMMA LeadOf ==
    ASSUME NEW u \in Updates, NEW a \in Seq(Item), NEW b \in Seq(Item)
    PROVE  <<u, a, b>> \in Leading <=> Leads(u, a, b)
  BY DEF Leading, Links

LEMMA ConveysTypes ==
    ASSUME NEW c \in Seq(Updates), NEW a, NEW s, NEW b, Conveys(c, a, s, b)
    PROVE  /\ a \in Seq(Item) /\ b \in Seq(Item)
           /\ Grown(a, s) /\ Grown(b, s)
  <1>1. PICK h : /\ Linked(c, h, Leading) /\ h[1] = a /\ h[Len(h)] = b
                 /\ \A k \in 1..Len(h) : Grown(h[k], s)
    BY DEF Conveys
  <1>2. h \in Seq(Seq(Item)) /\ 1 \in 1..Len(h) /\ Len(h) \in 1..Len(h)
    BY <1>1 DEF Linked
  <1>3. h[1] \in Seq(Item) /\ h[Len(h)] \in Seq(Item)
    BY <1>2
  <1>4. Grown(h[1], s) /\ Grown(h[Len(h)], s)
    BY <1>1, <1>2
  <1> QED
    BY <1>1, <1>3, <1>4, Zenon

LEMMA ConveysMore ==
    ASSUME NEW c \in Seq(Updates), NEW a, NEW s, NEW b, Conveys(c, a, s, b),
           NEW u \in Updates, NEW d \in Seq(Item), Leads(u, b, d), Grown(d, s)
    PROVE  Append(c, u) \in Seq(Updates) /\ Conveys(Append(c, u), a, s, d)
  <1>1. PICK h : /\ Linked(c, h, Leading) /\ h[1] = a /\ h[Len(h)] = b
                 /\ \A k \in 1..Len(h) : Grown(h[k], s)
    BY DEF Conveys
  <1>2. h \in Seq(Seq(Item)) /\ Len(h) \in Nat /\ Len(h) >= 1
    BY <1>1 DEF Linked
  <1> DEFINE R == Leading  g == Append(h, d)
  <1>3. Linked(c, h, R) /\ <<u, h[Len(h)], d>> \in R
    BY <1>1, ConveysTypes, LeadOf
  <1> HIDE DEF R
  <1>4. Linked(Append(c, u), g, R)
    BY <1>3, LinkGrows
  <1>5. /\ g[1] = h[1] /\ g[Len(g)] = d /\ Len(g) = Len(h) + 1
        /\ \A k \in 1..Len(h) : g[k] = h[k]
    BY <1>2
  <1> HIDE DEF g
  <1>6. \A k \in 1..Len(g) : Grown(g[k], s)
    <2> TAKE k \in 1..Len(g)
    <2>1. k \in 1..Len(h) \/ k = Len(g)
      BY <1>2, <1>5
    <2> QED
      BY <1>1, <1>5, <2>1
  <1> QED
    BY <1>1, <1>4, <1>5, <1>6 DEF Conveys, R

LEMMA ConveysLess ==
    ASSUME NEW c \in Seq(Updates), c # <<>>, NEW a, NEW s, NEW b, Conveys(c, a, s, b)
    PROVE  \E d \in Seq(Item) : Leads(Head(c), a, d) /\ Conveys(Tail(c), d, s, b)
  <1>1. PICK h : /\ Linked(c, h, Leading) /\ h[1] = a /\ h[Len(h)] = b
                 /\ \A k \in 1..Len(h) : Grown(h[k], s)
    BY DEF Conveys
  <1>2. /\ Linked(Tail(c), Tail(h), Leading)
        /\ Tail(h)[1] = h[2]
        /\ Tail(h)[Len(Tail(h))] = h[Len(h)]
        /\ <<Head(c), h[1], h[2]>> \in Leading
        /\ h[1] \in Seq(Item) /\ h[2] \in Seq(Item)
    BY <1>1, LinkShrinks
  <1>3. h \in Seq(Seq(Item)) /\ Len(h) \in Nat /\ Len(h) >= 1 /\ Head(c) \in Updates
    BY <1>1 DEF Linked
  <1>4. \A k \in 1..Len(Tail(h)) : k + 1 \in 1..Len(h) /\ Tail(h)[k] = h[k + 1]
    BY <1>3
  <1>5. \A k \in 1..Len(Tail(h)) : Grown(Tail(h)[k], s)
    BY <1>1, <1>4
  <1>6. Leads(Head(c), h[1], h[2])
    BY <1>2, <1>3, LeadOf
  <1> QED
    BY <1>1, <1>2, <1>5, <1>6 DEF Conveys

LEMMA ConveysMerged ==
    ASSUME NEW c \in Seq(Updates), NEW a, NEW s \in Seq(Item), NEW b, Conveys(c, a, s, b),
           NEW i \in 1..Len(c) - 1, c[i].is = "NewItems", c[i + 1].is = "NewItems"
    PROVE  Conveys(ReplaceAt(RemoveAt(c, i), i, Merged(c, i)), a, s, b)
  <1> DEFINE new == Merged(c, i)
  <1>1. PICK h : /\ Linked(c, h, Leading) /\ h[1] = a /\ h[Len(h)] = b
                 /\ \A k \in 1..Len(h) : Grown(h[k], s)
    BY DEF Conveys
  <1>2. /\ h \in Seq(Seq(Item)) /\ Len(h) = Len(c) + 1
        /\ \A k \in 1..Len(c) : <<c[k], h[k], h[k + 1]>> \in Leading
    BY <1>1 DEF Linked
  <1>3. /\ i \in 1..Len(c) /\ i + 1 \in 1..Len(c) /\ (i + 1) + 1 = i + 2
        /\ i \in 1..Len(h) /\ i + 1 \in 1..Len(h) /\ i + 2 \in 1..Len(h)
    BY <1>2
  <1>4. /\ c[i] \in Updates /\ c[i + 1] \in Updates
        /\ h[i] \in Seq(Item) /\ h[i + 1] \in Seq(Item) /\ h[i + 2] \in Seq(Item)
    BY <1>2, <1>3
  <1>5. Leads(c[i], h[i], h[i + 1]) /\ Leads(c[i + 1], h[i + 1], h[i + 2])
    BY <1>2, <1>3, <1>4, LeadOf
  <1>6. new \in Updates /\ new.is = "NewItems" /\ new.items = c[i + 1].items
    BY MergedFacts
  <1> HIDE DEF new
  <1>7. Leads(new, h[i], h[i + 2])
    BY <1>4, <1>5, <1>6 DEF Leads, Grown
  <1>8. <<new, h[i], h[i + 2]>> \in Leading
    BY <1>4, <1>6, <1>7, LeadOf
  <1> DEFINE d == ReplaceAt(RemoveAt(c, i), i, new)
  <1>9. \E g : /\ Linked(d, g, Leading) /\ g[1] = h[1] /\ g[Len(g)] = h[Len(h)]
              /\ \A k \in 1..Len(g) : \E m \in 1..Len(h) : g[k] = h[m]
    BY <1>1, <1>6, <1>8, LinkMerges, ZenonT(40)
  <1> HIDE DEF d
  <1>10. Conveys(d, a, s, b)
    BY <1>1, <1>9 DEF Conveys
  <1> QED
    BY <1>10 DEF d, new

LEMMA GrowingTypes ==
    ASSUME GrowingInv
    PROVE  /\ items \in Seq(Item) /\ shown \in Seq(Item) /\ Len(items) \in Nat
           /\ channel \in Seq(Updates) /\ found \in Nat \union {Nowhere}
           /\ request.length \in Nat \union {Nowhere} /\ Nowhere \notin Nat
           /\ request.open \in BOOLEAN /\ request.changed \in BOOLEAN
           /\ isOpen \in BOOLEAN /\ sought \in BOOLEAN /\ visible \in BOOLEAN
           /\ isOpen => ~deferred.some
  BY SubscriberAssumption DEF GrowingInv, SubscriberInv, ItemsType, DeferralInv, RequestType

LEMMA IndexFacts ==
    ASSUME NEW s \in Seq(Item), Target \in Ids(s)
    PROVE  IndexOfTarget(s) \in Nat /\ IndexOfTarget(s) < Len(s)
  <1> DEFINE i == CHOOSE k \in DOMAIN s : s[k].id = Target
  <1>1. \E k \in DOMAIN s : s[k].id = Target
    BY DEF Ids
  <1>2. i \in DOMAIN s
    BY <1>1
  <1>3. i \in 1..Len(s)
    BY <1>2
  <1> HIDE DEF i
  <1>4. i - 1 \in Nat /\ i - 1 < Len(s)
    BY <1>3
  <1> QED
    BY <1>4 DEF IndexOfTarget, i

\* Where the target is known to be is where it is.
LEMMA FoundPoints ==
    ASSUME GrowingInv, found # Nowhere
    PROVE  PointsAt(found, items) /\ Target \in Ids(items) /\ found \in Nat
  <1>1. found + 1 \in DOMAIN items /\ items[found + 1].id = Target /\ found \in Nat
    BY GrowingTypes DEF GrowingInv, TargetInv
  <1>2. ASSUME NEW i \in DOMAIN items, items[i].id = Target PROVE i = found + 1
    BY <1>1, <1>2 DEF GrowingInv, TargetInv
  <1> DEFINE i == CHOOSE k \in DOMAIN items : items[k].id = Target
  <1>3. i \in DOMAIN items /\ items[i].id = Target
    BY <1>1
  <1>4. i = found + 1
    BY <1>2, <1>3
  <1> HIDE DEF i
  <1>5. i - 1 = found
    BY <1>1, <1>4
  <1> QED
    BY <1>1, <1>5 DEF PointsAt, IndexOfTarget, Ids, i

LEMMA GrowingStarts == ASSUME SubscriberInit PROVE GrowingInv
  <1>0. SubscriberInv
    BY SubscriberStarts
  <1>1. items \in Seq(Item) /\ shown = items /\ channel = <<>>
    BY <1>0 DEF SubscriberInit, SubscriberInv, ItemsType
  <1>2. RequestType /\ OpenInv
    BY DEF SubscriberInit, RequestType, OpenInv
  <1>3. \A i \in DOMAIN items : items[i].id # Target
    BY SubscriberAssumption DEF SubscriberInit, Fresh
  <1>4. TargetInv /\ SearchInv
    BY <1>3 DEF SubscriberInit, TargetInv, SearchInv, Ids
  <1>5. ToldInv
    <2> DEFINE h == <<items>>
    <2>1. h \in Seq(Seq(Item)) /\ Len(h) = 1 /\ h[1] = items /\ Len(channel) = 0
      BY <1>1
    <2> HIDE DEF h
    <2>2. Linked(channel, h, Leading)
      BY <2>1 DEF Linked
    <2>3. \A k \in 1..Len(h) : Grown(h[k], items)
      BY <2>1 DEF Grown
    <2>4. Conveys(channel, shown, items, items)
      BY <1>1, <2>1, <2>2, <2>3 DEF Conveys
    <2> QED
      BY <2>4 DEF ToldInv
  <1> QED
    BY <1>0, <1>2, <1>4, <1>5 DEF GrowingInv

\* A diff that adds items: what the screen was told stays behind.
LEMMA DiffGrows ==
    ASSUME GrowingInv, SubscriberInv', NEW s \in Seq(Item), items' = s, Len(items) < Len(s),
           batch'.begun, UNCHANGED <<isOpen, deferred, request, channel, viewVars>>,
           TargetInv', sought' \in BOOLEAN, sought' => Target \notin Ids(s),
           sought => sought' \/ found' # Nowhere, found # Nowhere => found' # Nowhere
    PROVE  GrowingInv'
  <1>1. RequestType' /\ OpenInv'
    BY DEF GrowingInv, RequestType, OpenInv, viewVars
  <1>2. SearchInv'
    <2>1. request.length # Nowhere => request.length \in Nat /\ request.length <= Len(items)
      BY GrowingTypes DEF GrowingInv, SearchInv
    <2>2. request.length # Nowhere => request.length < Len(s) /\ request.length <= Len(s)
      BY <2>1, GrowingTypes
    <2>3. pane = "searching" =>
            /\ request.length # Nowhere
            /\ \/ request.changed \/ sought' \/ found' # Nowhere
               \/ \E i \in DOMAIN channel : channel[i].is = "TargetFound"
      BY DEF GrowingInv, SearchInv
    <2> QED
      BY <2>2, <2>3 DEF SearchInv, viewVars
  <1>3. ToldInv'
    <2>0. PICK b : Conveys(channel, shown, items, b)
      BY DEF GrowingInv, ToldInv
    <2>1. PICK h : /\ Linked(channel, h, Leading) /\ h[1] = shown /\ h[Len(h)] = b
                   /\ \A k \in 1..Len(h) : Grown(h[k], items)
      BY <2>0 DEF Conveys
    <2>2. h \in Seq(Seq(Item))
      BY <2>1 DEF Linked
    <2>3. \A k \in 1..Len(h) : Grown(h[k], s)
      <3> TAKE k \in 1..Len(h)
      <3>1. Grown(h[k], items) /\ Len(h[k]) \in Nat
        BY <2>1, <2>2
      <3>2. Len(items) \in Nat /\ Len(s) \in Nat
        BY GrowingTypes
      <3> QED
        BY <3>1, <3>2 DEF Grown
    <2>4. Conveys(channel, shown, s, b)
      BY <2>1, <2>3 DEF Conveys
    <2> QED
      BY <2>4 DEF ToldInv, viewVars
  <1> QED
    BY <1>1, <1>2, <1>3 DEF GrowingInv

LEMMA ArrivalsAreNew ==
    /\ \A x \in Arrivals : x.id # Target
    /\ \A x \in Older : x.id = Target => Target \notin Ids(items)
  BY SubscriberAssumption DEF Arrivals, Older, Fresh

\* Items at the end leave the target where it is.
LEMMA AppendsGrow ==
    ASSUME GrowingInv, NEW s \in Seq(Item), items' = s, Len(items) < Len(s),
           \A k \in 1..Len(items) : s[k] = items[k],
           \A k \in Len(items) + 1..Len(s) : s[k].id # Target, SeeksOn
    PROVE  /\ TargetInv' /\ sought' \in BOOLEAN /\ (sought' => Target \notin Ids(s))
           /\ (sought => sought') /\ (found # Nowhere => found' # Nowhere)
  <1>1. found' = found /\ sought' = sought /\ Len(items) \in Nat /\ Len(s) \in Nat
    BY GrowingTypes DEF SeeksOn
  <1>2. /\ \A k \in DOMAIN s : s[k].id = Target => k \in DOMAIN items /\ items[k].id = Target
        /\ \A k \in DOMAIN items : k \in DOMAIN s /\ s[k] = items[k]
    <2>1. DOMAIN s = 1..Len(s) /\ DOMAIN items = 1..Len(items)
      BY GrowingTypes
    <2>2. ASSUME NEW k \in 1..Len(s), s[k].id = Target
          PROVE  k \in 1..Len(items) /\ items[k].id = Target
      <3>1. k \in 1..Len(items)
        BY <1>1, <2>2
      <3> QED
        BY <2>2, <3>1
    <2> QED
      BY <1>1, <2>1, <2>2
  <1>3. TargetInv'
    BY <1>1, <1>2 DEF GrowingInv, TargetInv
  <1>4. Target \in Ids(s) => Target \in Ids(items)
    BY <1>2 DEF Ids
  <1> QED
    BY <1>1, <1>3, <1>4, GrowingTypes DEF GrowingInv, SearchInv

\* An insertion shifts the target, or is it.
LEMMA InsertionGrows ==
    ASSUME GrowingInv, NEW s \in Seq(Item), items' = s, NEW index \in 0..Len(items),
           NEW x \in Older, Len(s) = Len(items) + 1,
           \A k \in 1..index : s[k] = items[k], s[index + 1] = x,
           \A k \in index + 1..Len(items) : s[k + 1] = items[k], LooksAt(x.id, index)
    PROVE  /\ TargetInv' /\ sought' \in BOOLEAN /\ (sought' => Target \notin Ids(s))
           /\ (sought => sought' \/ found' # Nowhere) /\ (found # Nowhere => found' # Nowhere)
  <1> DEFINE moved(k) == IF k <= index THEN k ELSE k + 1
  <1>1. /\ Len(items) \in Nat /\ index \in Nat /\ index <= Len(items) /\ items \in Seq(Item)
        /\ Nowhere \notin Nat
    BY GrowingTypes
  <1>2. \A k \in DOMAIN items : moved(k) \in DOMAIN s /\ s[moved(k)] = items[k]
    BY <1>1
  <1>3. \A k \in DOMAIN s :
           \/ k = index + 1 /\ s[k] = x
           \/ \E m \in DOMAIN items : k = moved(m) /\ s[k] = items[m]
    <2> TAKE k \in DOMAIN s
    <2>1. \/ k \in 1..index /\ k \in DOMAIN items /\ moved(k) = k
          \/ k = index + 1
          \/ /\ k - 1 \in index + 1..Len(items) /\ k - 1 \in DOMAIN items
             /\ moved(k - 1) = k /\ (k - 1) + 1 = k
      BY <1>1
    <2> QED
      BY <1>2, <2>1
  <1>4. \A i, j \in DOMAIN items : items[i].id = Target /\ items[j].id = Target => i = j
    BY DEF GrowingInv, TargetInv
  <1>5. x.id = Target => \A k \in DOMAIN items : items[k].id # Target
    BY ArrivalsAreNew DEF Ids
  <1>6. \A i, j \in DOMAIN s : s[i].id = Target /\ s[j].id = Target => i = j
    <2> SUFFICES ASSUME NEW i \in DOMAIN s, NEW j \in DOMAIN s,
                        s[i].id = Target, s[j].id = Target
                 PROVE  i = j
      OBVIOUS
    <2> HIDE DEF moved
    <2> QED
      BY <1>3, <1>4, <1>5
  <1>7. CASE found # Nowhere
    <2>1. found' = ShiftedBy(index, found) /\ sought' = sought
      BY <1>7 DEF LooksAt
    <2>2. found \in Nat /\ found + 1 \in DOMAIN items /\ items[found + 1].id = Target
      BY <1>7, GrowingTypes DEF GrowingInv, TargetInv
    <2>3. found' \in Nat /\ found' + 1 = moved(found + 1)
      BY <1>1, <2>1, <2>2 DEF ShiftedBy
    <2>4. ~sought
      BY <1>7, FoundPoints DEF GrowingInv, SearchInv
    <2> HIDE DEF moved
    <2>5. TargetInv'
      BY <1>2, <1>6, <2>2, <2>3 DEF TargetInv
    <2> QED
      BY <1>1, <2>1, <2>3, <2>4, <2>5, GrowingTypes
  <1>8. CASE found = Nowhere
    <2>1. /\ found' = IF sought /\ x.id = Target THEN index ELSE Nowhere
          /\ sought' = (sought /\ x.id # Target)
      BY <1>8 DEF LooksAt
    <2>2. found' # Nowhere => found' = index /\ x.id = Target
      BY <2>1
    <2>3. index + 1 \in DOMAIN s
      BY <1>1
    <2>4. TargetInv'
      BY <1>6, <2>2, <2>3 DEF TargetInv
    <2>5. sought' => Target \notin Ids(s)
      <3>1. SUFFICES ASSUME sought, x.id # Target, NEW k \in DOMAIN s, s[k].id = Target
                     PROVE  FALSE
        BY <2>1 DEF Ids
      <3>2. \A m \in DOMAIN items : items[m].id # Target
        BY <3>1 DEF GrowingInv, SearchInv, Ids
      <3> HIDE DEF moved
      <3> QED
        BY <1>3, <3>1, <3>2
    <2> QED
      BY <1>1, <1>8, <2>1, <2>4, <2>5
  <1> QED
    BY <1>7, <1>8

LEMMA GrowsGrow ==
    ASSUME GrowingInv, Grows
    PROVE  GrowingInv'
  <1>0. /\ items \in Seq(Item) /\ Len(items) \in Nat /\ SubscriberInv
        /\ Arrivals \subseteq Item /\ Older \subseteq Item
    BY GrowingTypes, ArrivalsType DEF GrowingInv
  <1>1. SubscriberInv'
    BY <1>0, GrowsStep
  <1> DEFINE Grew(s) ==
                /\ items' = s /\ Len(items) < Len(s) /\ TargetInv'
                /\ sought' \in BOOLEAN /\ (sought' => Target \notin Ids(s))
                /\ (sought => sought' \/ found' # Nowhere)
                /\ (found # Nowhere => found' # Nowhere)
                /\ batch'.begun /\ UNCHANGED <<isOpen, deferred, request, channel, viewVars>>
  <1>2. \E s \in Seq(Item) : Grew(s)
    <2>1. ASSUME NEW x \in Arrivals, SeeksOn,
                 Diff(Append(items, x), Len(items), Len(items) + 1, FALSE, TRUE, TRUE)
          PROVE  \E s \in Seq(Item) : Grew(s)
      <3> DEFINE s == Append(items, x)
      <3>1. /\ s \in Seq(Item) /\ Len(s) = Len(items) + 1 /\ s[Len(items) + 1] = x
            /\ \A k \in 1..Len(items) : s[k] = items[k]
        BY <1>0
      <3>2. x.id # Target
        BY ArrivalsAreNew
      <3>3. /\ items' = s /\ batch'.begun
            /\ UNCHANGED <<isOpen, deferred, request, channel, viewVars>>
        BY <2>1 DEF Diff
      <3> HIDE DEF s
      <3>4. \A k \in Len(items) + 1..Len(s) : s[k].id # Target
        BY <1>0, <3>1, <3>2
      <3>5. Len(items) < Len(s)
        BY <1>0, <3>1
      <3> QED
        BY <2>1, <3>1, <3>3, <3>4, <3>5, AppendsGrow
    <2>2. ASSUME NEW x \in Arrivals, NEW y \in Arrivals, SeeksOn,
                 Diff(items \o <<x, y>>, Len(items), Len(items) + 2, FALSE, TRUE, TRUE)
          PROVE  \E s \in Seq(Item) : Grew(s)
      <3> DEFINE t == <<x, y>>  s == items \o t
      <3>1. t \in Seq(Item) /\ Len(t) = 2 /\ t[1] = x /\ t[2] = y
        BY <1>0
      <3>2. /\ items' = s /\ batch'.begun
            /\ UNCHANGED <<isOpen, deferred, request, channel, viewVars>>
        BY <2>2 DEF Diff
      <3> HIDE DEF t
      <3>3. /\ s \in Seq(Item) /\ Len(s) = Len(items) + Len(t)
            /\ \A k \in 1..Len(items) : s[k] = items[k]
            /\ \A k \in 1..Len(t) : s[Len(items) + k] = t[k]
        <4>1. s \in Seq(Item) /\ Len(s) = Len(items) + Len(t)
          BY <1>0, <3>1, ConcatFacts
        <4>2. \A k \in 1..Len(items) : s[k] = items[k]
          BY <1>0, <3>1, ConcatFacts
        <4>3. items \in Seq(Item) /\ t \in Seq(Item)
          BY <1>0, <3>1
        <4>4. ASSUME NEW k \in 1..Len(t) PROVE (items \o t)[Len(items) + k] = t[k]
          BY <4>3, ConcatEnd, Zenon
        <4>5. \A k \in 1..Len(t) : s[Len(items) + k] = t[k]
          BY <4>4
        <4> HIDE DEF s
        <4> QED
          BY <4>1, <4>2, <4>5
      <3> HIDE DEF s
      <3>4. x.id # Target /\ y.id # Target
        BY ArrivalsAreNew
      <3>5. s[Len(items) + 1] = x /\ s[Len(items) + 2] = y
        BY <3>1, <3>3
      <3>6. \A k \in Len(items) + 1..Len(s) : s[k].id # Target
        BY <1>0, <3>1, <3>3, <3>4, <3>5
      <3>7. Len(items) < Len(s)
        BY <1>0, <3>1, <3>3
      <3> QED
        BY <2>2, <3>2, <3>3, <3>6, <3>7, AppendsGrow
    <2>3. ASSUME NEW x \in Older, LooksAt(x.id, 0), ChangesAll(<<x>> \o items)
          PROVE  \E s \in Seq(Item) : Grew(s)
      <3> DEFINE t == <<x>>  s == t \o items
      <3>1. t \in Seq(Item) /\ Len(t) = 1 /\ t[1] = x
        BY <1>0
      <3>2. /\ items' = s /\ batch'.begun
            /\ UNCHANGED <<isOpen, deferred, request, channel, viewVars>>
        BY <2>3 DEF ChangesAll, Diff
      <3> HIDE DEF t
      <3>3. /\ s \in Seq(Item) /\ Len(s) = Len(t) + Len(items)
            /\ \A k \in 1..Len(t) : s[k] = t[k]
            /\ \A k \in 1..Len(items) : s[Len(t) + k] = items[k]
        <4>1. s \in Seq(Item) /\ Len(s) = Len(t) + Len(items)
          BY <1>0, <3>1, ConcatFacts
        <4>2. \A k \in 1..Len(t) : s[k] = t[k]
          BY <1>0, <3>1, ConcatFacts
        <4>3. ASSUME NEW k \in 1..Len(items) PROVE s[Len(t) + k] = items[k]
          BY <1>0, <3>1, ConcatEnd, Zenon
        <4> HIDE DEF s
        <4> QED
          BY <4>1, <4>2, <4>3
      <3> HIDE DEF s
      <3>4. /\ Len(s) = Len(items) + 1 /\ s[0 + 1] = x /\ 0 \in 0..Len(items)
            /\ \A k \in 1..0 : s[k] = items[k]
            /\ \A k \in 0 + 1..Len(items) : s[k + 1] = items[k]
        BY <1>0, <3>1, <3>3
      <3>5. Len(items) < Len(s)
        BY <1>0, <3>4
      <3> QED
        BY <2>3, <3>2, <3>3, <3>4, <3>5, InsertionGrows
    <2>4. ASSUME NEW x \in Older, NEW index \in 0..Len(items), LooksAt(x.id, index),
                 Diff(InsertAt(items, index + 1, x),
                      IF index = 0 THEN Huge ELSE index, IF index = 0 THEN 0 ELSE Huge,
                      index = 0, index >= Len(items), index >= Len(items))
          PROVE  \E s \in Seq(Item) : Grew(s)
      <3> DEFINE j == index + 1  s == InsertAt(items, j, x)
      <3>1. j \in 1..Len(items) + 1 /\ x \in Item /\ j - 1 = index
        BY <1>0
      <3>2. /\ items' = s /\ batch'.begun
            /\ UNCHANGED <<isOpen, deferred, request, channel, viewVars>>
        BY <2>4 DEF Diff
      <3> HIDE DEF j
      <3>3. /\ s \in Seq(Item) /\ Len(s) = Len(items) + 1
            /\ \A k \in 1..j - 1 : s[k] = items[k]
            /\ s[j] = x
            /\ \A k \in j..Len(items) : s[k + 1] = items[k]
        BY <1>0, <3>1, InsertAtFacts, SMTT(30)
      <3> HIDE DEF s
      <3>4. /\ \A k \in 1..index : s[k] = items[k]
            /\ s[index + 1] = x
            /\ \A k \in index + 1..Len(items) : s[k + 1] = items[k]
        BY <3>1, <3>3 DEF j
      <3>5. Len(items) < Len(s)
        BY <1>0, <3>3
      <3> QED
        BY <2>4, <3>2, <3>3, <3>4, <3>5, InsertionGrows
    <2> QED
      BY <2>1, <2>2, <2>3, <2>4 DEF Grows, Appends, PushesFront, Inserts
  <1> QED
    BY <1>1, <1>2, DiffGrows

LEMMA EndsBatchGrows ==
    ASSUME GrowingInv, EndsBatch
    PROVE  GrowingInv'
  <1>0. SubscriberInv' /\ SubscriberInv
    BY EndsOpenBatch, EndsHiddenBatch DEF GrowingInv
  <1>1. /\ UNCHANGED <<items, isOpen, request, shown, visible, pane>>
        /\ batch' = NoBatch
    BY DEF EndsBatch, viewVars
  <1>2. PICK b : /\ Conveys(channel, shown, items, b)
                 /\ ~deferred.some /\ ~batch.begun => b = items
    BY DEF GrowingInv, ToldInv
  <1>3. b \in Seq(Item) /\ Grown(b, items)
    BY <1>2, GrowingTypes, ConveysTypes
  <1>4. CASE isOpen
    <2> DEFINE first == IF BehindDivider THEN 0 ELSE batch.first
               clear == batch.clear \/ BehindDivider
               u == NewItems(items, first, batch.last, clear)
    <2>1. /\ channel' = (channel \o <<u>>)
                           \o (IF found = Nowhere THEN <<>> ELSE <<TargetFound(found)>>)
          /\ sought' = (sought /\ found = Nowhere) /\ found' = Nowhere
      BY <1>4 DEF EndsBatch
    <2>2. first \in Nat /\ batch.last \in Nat /\ clear \in BOOLEAN
      <3>1. batch.first \in Nat /\ batch.last \in Nat /\ batch.clear \in BOOLEAN
        BY <1>0 DEF SubscriberInv, ItemsType, Batches
      <3> QED
        BY <3>1 DEF BehindDivider
    <2> HIDE DEF first, clear
    <2>3. u \in Updates /\ u.is = "NewItems" /\ u.items = items
      <3>1. items \in Seq(Item)
        BY GrowingTypes
      <3> QED
        BY <2>2, <3>1, SnapshotType
    <2> HIDE DEF u
    <2> DEFINE c == Append(channel, u)
    <2>4. c \in Seq(Updates) /\ Conveys(c, shown, items, items) /\ channel \o <<u>> = c
      <3>1. Leads(u, b, items) /\ Grown(items, items)
        BY <1>3, <2>3 DEF Leads, Grown
      <3>2. c \in Seq(Updates) /\ Conveys(c, shown, items, items)
        BY <1>2, <2>3, <3>1, GrowingTypes, ConveysMore
      <3> QED
        BY <2>3, <3>2, GrowingTypes
    <2> HIDE DEF c
    <2>5. CASE found = Nowhere
      <3>1. channel' = c
        BY <2>1, <2>4, <2>5
      <3>2. Conveys(channel', shown, items, items)
        BY <2>4, <3>1
      <3>3. ToldInv'
        BY <1>1, <3>2 DEF ToldInv
      <3>4. RequestType' /\ OpenInv' /\ TargetInv'
        BY <1>1, <2>1, <2>5 DEF GrowingInv, RequestType, OpenInv, TargetInv
      <3>5. SearchInv'
        <4>1. \A i \in DOMAIN channel : i \in DOMAIN channel' /\ channel'[i] = channel[i]
          BY <2>3, <3>1, GrowingTypes DEF c
        <4> QED
          BY <1>1, <2>1, <2>5, <4>1 DEF GrowingInv, SearchInv
      <3> QED
        BY <1>0, <3>3, <3>4, <3>5 DEF GrowingInv
    <2>6. CASE found # Nowhere
      <3> DEFINE f == TargetFound(found)
      <3>1. PointsAt(found, items) /\ found \in Nat
        BY <2>6, FoundPoints
      <3>2. f \in Updates /\ f.is = "TargetFound" /\ f.index = found
        BY <3>1, FoundType DEF TargetFound
      <3> HIDE DEF f
      <3>3. Leads(f, items, items) /\ Grown(items, items)
        BY <3>1, <3>2 DEF Leads, Grown
      <3>4. channel' = Append(c, f) /\ channel' \in Seq(Updates)
        <4>1. channel' = c \o <<f>>
          BY <2>1, <2>4, <2>6 DEF f
        <4> QED
          BY <2>4, <3>2, <4>1
      <3>5. Conveys(channel', shown, items, items)
        BY <2>4, <3>2, <3>3, <3>4, GrowingTypes, ConveysMore
      <3>6. ToldInv'
        BY <1>1, <3>5 DEF ToldInv
      <3>7. RequestType' /\ OpenInv' /\ TargetInv'
        BY <1>1, <2>1, <2>6 DEF GrowingInv, RequestType, OpenInv, TargetInv
      <3>8. Len(c) + 1 \in DOMAIN channel' /\ channel'[Len(c) + 1].is = "TargetFound"
        BY <2>4, <3>2, <3>4
      <3>9. SearchInv'
        BY <1>1, <2>1, <2>6, <3>8 DEF GrowingInv, SearchInv
      <3> QED
        BY <1>0, <3>6, <3>7, <3>9 DEF GrowingInv
    <2> QED
      BY <2>5, <2>6
  <1>5. CASE ~isOpen
    <2>1. /\ UNCHANGED <<channel, sought, found>>
          /\ deferred' = IF BehindDivider
                           THEN [Recorded EXCEPT !.full = TRUE, !.start = Nowhere]
                           ELSE Recorded
      BY <1>5 DEF EndsBatch
    <2>2. deferred'.some
      BY <2>1 DEF Recorded
    <2>3. ToldInv'
      BY <1>1, <1>2, <2>1, <2>2 DEF ToldInv
    <2>4. RequestType' /\ OpenInv' /\ TargetInv' /\ SearchInv'
      BY <1>1, <2>1 DEF GrowingInv, RequestType, OpenInv, TargetInv, SearchInv
    <2> QED
      BY <1>0, <2>3, <2>4 DEF GrowingInv
  <1> QED
    BY <1>4, <1>5

LEMMA SeesRequestGrows ==
    ASSUME GrowingInv, SeesRequest
    PROVE  GrowingInv'
  <1> DEFINE reopens == request.open /\ ~isOpen /\ deferred.some
             resolved == reopens /\ found # Nowhere /\ Target \in Ids(items)
             searches == request.length # Nowhere /\ ~resolved /\ ~sought
             hit == searches /\ Target \in Ids(items) /\ IndexOfTarget(items) < SearchFrom
             told == IF reopens THEN <<Snapshot>> ELSE <<>>
             answers == resolved \/ hit
             f == TargetFound(IndexOfTarget(items))
  <1>0. SubscriberInv' /\ SubscriberInv
    BY SeesRequestStep DEF GrowingInv
  <1>1. /\ request.changed /\ ~batch.begun
        /\ request' = [request EXCEPT !.changed = FALSE] /\ isOpen' = request.open
        /\ channel' = channel \o told \o (IF answers THEN <<f>> ELSE <<>>)
        /\ sought' = (request.length # Nowhere /\ ~answers)
        /\ found' \in {Nowhere, found}
        /\ UNCHANGED <<items, batch, shown, visible, pane>>
    BY DEF SeesRequest, viewVars
  <1>2. PICK b : /\ Conveys(channel, shown, items, b)
                 /\ ~deferred.some /\ ~batch.begun => b = items
    BY DEF GrowingInv, ToldInv
  <1>3. b \in Seq(Item) /\ Grown(b, items) /\ Grown(items, items)
    BY <1>2, GrowingTypes, ConveysTypes DEF Grown
  <1>4. answers => Target \in Ids(items)
    OBVIOUS
  <1>5. answers => f \in Updates /\ f.is = "TargetFound" /\ f.index = IndexOfTarget(items)
    BY <1>4, GrowingTypes, IndexFacts, FoundType DEF TargetFound
  <1>6. Target \in Ids(items) /\ request.length # Nowhere => answers
    <2> SUFFICES ASSUME Target \in Ids(items), request.length # Nowhere, ~resolved PROVE hit
      OBVIOUS
    <2>1. ~sought /\ request.length < Len(items)
      BY DEF GrowingInv, SearchInv
    <2>2. SearchFrom = Len(items)
      BY <2>1, GrowingTypes DEF SearchFrom
    <2>3. IndexOfTarget(items) < Len(items)
      BY GrowingTypes, IndexFacts
    <2> QED
      BY <2>1, <2>2, <2>3
  <1>7. reopens => told = <<Snapshot>>
    OBVIOUS
  <1>8. ~reopens => told = <<>> /\ ~deferred.some
    BY <1>1, GrowingTypes DEF GrowingInv, OpenInv
  <1> HIDE DEF answers, told, f
  <1> DEFINE c == channel \o told
  <1>9. c \in Seq(Updates) /\ Conveys(c, shown, items, items)
    <2>1. CASE reopens
      <3>1. ItemsType /\ DeferralInv /\ deferred.some
        BY <1>0, <2>1 DEF SubscriberInv
      <3>2. PICK a : Pends(a)
        BY <1>0 DEF SubscriberInv, ChainInv
      <3>3. Snapshot \in Updates /\ Carries(Snapshot, a, items)
        BY <1>1, <3>1, <3>2, SnapshotFacts
      <3>4. Snapshot.is = "NewItems" /\ Snapshot.items = items
        BY DEF Snapshot, NewItems
      <3>5. Leads(Snapshot, b, items)
        BY <1>3, <3>4 DEF Leads
      <3>6. Append(channel, Snapshot) \in Seq(Updates) /\ Conveys(Append(channel, Snapshot), shown, items, items)
        BY <1>2, <1>3, <3>3, <3>5, GrowingTypes, ConveysMore
      <3>7. c = Append(channel, Snapshot)
        <4>1. c = channel \o <<Snapshot>>
          BY <1>7, <2>1
        <4> HIDE DEF c
        <4> QED
          BY <3>3, <4>1, GrowingTypes
      <3> QED
        BY <3>6, <3>7
    <2>2. CASE ~reopens
      <3>1. c = channel
        BY <1>8, <2>2, GrowingTypes
      <3> QED
        BY <1>1, <1>2, <1>8, <2>2, <3>1, GrowingTypes
    <2> QED
      BY <2>1, <2>2
  <1>10. channel' = c \o (IF answers THEN <<f>> ELSE <<>>)
    BY <1>1
  <1> HIDE DEF c, reopens, resolved, searches, hit
  <1>11. RequestType' /\ OpenInv' /\ TargetInv'
    BY <1>1, GrowingTypes DEF GrowingInv, RequestType, OpenInv, TargetInv
  <1>12. CASE answers
    <2>1. Leads(f, items, items)
      BY <1>3, <1>5, <1>12 DEF Leads, PointsAt
    <2>2. channel' = Append(c, f) /\ Len(c) + 1 \in DOMAIN channel' /\ channel'[Len(c) + 1] = f
      BY <1>5, <1>9, <1>10, <1>12
    <2>3. Conveys(channel', shown, items, items)
      BY <1>3, <1>5, <1>9, <1>12, <2>1, <2>2, GrowingTypes, ConveysMore
    <2>4. ToldInv'
      BY <1>1, <2>3 DEF ToldInv
    <2>5. channel'[Len(c) + 1].is = "TargetFound"
      BY <1>5, <1>12, <2>2
    <2>6. SearchInv'
      BY <1>1, <1>12, <2>2, <2>5 DEF GrowingInv, SearchInv, RequestType
    <2> QED
      BY <1>0, <1>11, <2>4, <2>6 DEF GrowingInv
  <1>13. CASE ~answers
    <2>1. channel' = c
      BY <1>9, <1>10, <1>13
    <2>2. ToldInv'
      BY <1>1, <1>9, <2>1 DEF ToldInv
    <2>3. SearchInv'
      BY <1>1, <1>6, <1>13 DEF GrowingInv, SearchInv, RequestType
    <2> QED
      BY <1>0, <1>11, <2>2, <2>3 DEF GrowingInv
  <1> QED
    BY <1>12, <1>13

LEMMA CoalescesGrows ==
    ASSUME GrowingInv, Coalesces
    PROVE  GrowingInv'
  <1>0. SubscriberInv'
    BY CoalescesStep DEF GrowingInv
  <1>1. UNCHANGED <<taskVars, request, viewVars>>
    BY DEF Coalesces
  <1>2. PICK i \in 1..Len(channel) - 1 :
           /\ channel[i].is = "NewItems" /\ channel[i + 1].is = "NewItems"
           /\ channel' = ReplaceAt(RemoveAt(channel, i), i, Merged(channel, i))
    BY DEF Coalesces, Merged
  <1>3. PICK b : /\ Conveys(channel, shown, items, b)
                 /\ ~deferred.some /\ ~batch.begun => b = items
    BY DEF GrowingInv, ToldInv
  <1>4. Conveys(channel', shown, items, b)
    BY <1>2, <1>3, GrowingTypes, ConveysMerged
  <1>5. ToldInv'
    BY <1>1, <1>3, <1>4 DEF ToldInv, taskVars, viewVars
  <1>6. ASSUME NEW j \in DOMAIN channel, channel[j].is = "TargetFound"
        PROVE  \E k \in DOMAIN channel' : channel'[k].is = "TargetFound"
    <2> DEFINE new == Merged(channel, i)
    <2>1. new \in Updates
      BY <1>2, GrowingTypes, MergedFacts
    <2> DEFINE d == ReplaceAt(RemoveAt(channel, i), i, new)
    <2>2. channel' = d
      BY <1>2
    <2> HIDE DEF new
    <2>3. /\ d \in Seq(Updates) /\ Len(d) = Len(channel) - 1
          /\ \A k \in 1..i - 1 : d[k] = channel[k]
          /\ \A k \in i + 1..Len(channel) - 1 : d[k] = channel[k + 1]
      <3>1. channel \in Seq(Updates)
        BY GrowingTypes
      <3> QED
        BY <2>1, <3>1, MergePlaces
    <2> HIDE DEF d
    <2>4. /\ channel \in Seq(Updates) /\ channel' \in Seq(Updates) /\ Len(channel') = Len(channel) - 1
          /\ \A k \in 1..i - 1 : channel'[k] = channel[k]
          /\ \A k \in i + 1..Len(channel) - 1 : channel'[k] = channel[k + 1]
      BY <2>2, <2>3, GrowingTypes
    <2>5. j \in 1..Len(channel) /\ j # i /\ j # i + 1
      BY <1>2, <1>6, <2>4
    <2>6. CASE j < i
      <3>1. j \in 1..i - 1 /\ j \in DOMAIN channel'
        BY <2>4, <2>5, <2>6
      <3> QED
        BY <1>6, <2>4, <3>1
    <2>7. CASE j > i + 1
      <3>1. j - 1 \in i + 1..Len(channel) - 1 /\ j - 1 \in DOMAIN channel' /\ (j - 1) + 1 = j
        BY <2>4, <2>5, <2>7
      <3>2. channel'[j - 1] = channel[j]
        BY <2>4, <3>1
      <3> QED
        BY <1>6, <3>1, <3>2
    <2> QED
      BY <2>5, <2>6, <2>7
  <1>7. RequestType' /\ OpenInv' /\ TargetInv' /\ SearchInv'
    BY <1>1, <1>6 DEF GrowingInv, RequestType, OpenInv, TargetInv, SearchInv, taskVars, viewVars
  <1> QED
    BY <1>0, <1>5, <1>7 DEF GrowingInv

LEMMA HandlesItemsGrows ==
    ASSUME GrowingInv, HandlesItems
    PROVE  GrowingInv'
  <1> DEFINE u == Head(channel)
  <1>0. SubscriberInv'
    BY HandlesItemsStep DEF GrowingInv
  <1>1. /\ channel # <<>> /\ u.is = "NewItems" /\ channel' = Tail(channel)
        /\ UNCHANGED <<taskVars, request, visible, pane>>
        /\ \/ u.items = <<>> /\ shown # <<>> /\ shown' = shown
           \/ shown' = u.items
    BY DEF HandlesItems
  <1>2. PICK b : /\ Conveys(channel, shown, items, b)
                 /\ ~deferred.some /\ ~batch.begun => b = items
    BY DEF GrowingInv, ToldInv
  <1>3. PICK d \in Seq(Item) : Leads(u, shown, d) /\ Conveys(Tail(channel), d, items, b)
    BY <1>1, <1>2, GrowingTypes, ConveysLess
  <1> HIDE DEF u
  <1>4. d = u.items /\ Grown(shown, d)
    BY <1>1, <1>3 DEF Leads
  <1>5. shown' = d
    <2>1. CASE u.items = <<>> /\ shown # <<>>
      BY <1>4, <2>1, GrowingTypes DEF Grown
    <2> QED
      BY <1>1, <1>4, <2>1
  <1>6. ToldInv'
    BY <1>1, <1>2, <1>3, <1>5 DEF ToldInv, taskVars
  <1>7. ASSUME NEW j \in DOMAIN channel, channel[j].is = "TargetFound"
        PROVE  \E k \in DOMAIN channel' : channel'[k].is = "TargetFound"
    <2>1. j \in 1..Len(channel) /\ channel[1] = u /\ Len(channel) \in Nat
      BY <1>1, GrowingTypes DEF u
    <2>2. j # 1
      BY <1>1, <1>7, <2>1
    <2>3. j - 1 \in DOMAIN channel' /\ channel'[j - 1] = channel[j]
      BY <1>1, <2>1, <2>2, GrowingTypes
    <2> QED
      BY <1>7, <2>3
  <1>8. RequestType' /\ OpenInv' /\ TargetInv' /\ SearchInv'
    BY <1>1, <1>7 DEF GrowingInv, RequestType, OpenInv, TargetInv, SearchInv, taskVars
  <1> QED
    BY <1>0, <1>6, <1>8 DEF GrowingInv

LEMMA HandlesFoundGrows ==
    ASSUME GrowingInv, HandlesFound
    PROVE  GrowingInv'
  <1>0. SubscriberInv'
    BY HandlesFoundStep DEF GrowingInv
  <1>1. /\ channel # <<>> /\ Head(channel).is = "TargetFound" /\ channel' = Tail(channel)
        /\ request' = [request EXCEPT !.length = Nowhere] /\ pane' # "searching"
        /\ UNCHANGED <<taskVars, shown, visible>>
    BY DEF HandlesFound
  <1>2. PICK b : /\ Conveys(channel, shown, items, b)
                 /\ ~deferred.some /\ ~batch.begun => b = items
    BY DEF GrowingInv, ToldInv
  <1>3. PICK d \in Seq(Item) : Leads(Head(channel), shown, d) /\ Conveys(Tail(channel), d, items, b)
    BY <1>1, <1>2, GrowingTypes, ConveysLess
  <1>4. d = shown
    BY <1>1, <1>3 DEF Leads
  <1>5. ToldInv'
    BY <1>1, <1>2, <1>3, <1>4 DEF ToldInv, taskVars
  <1>6. RequestType' /\ OpenInv' /\ TargetInv' /\ SearchInv'
    BY <1>1 DEF GrowingInv, RequestType, OpenInv, TargetInv, SearchInv, taskVars
  <1> QED
    BY <1>0, <1>5, <1>6 DEF GrowingInv

\* Steps of the screen that neither send nor handle an update.
LEMMA RequestGrows ==
    ASSUME GrowingInv, SubscriberInv', UNCHANGED <<taskVars, channel, shown>>
    PROVE  ToldInv' /\ TargetInv'
  <1>1. PICK b : /\ Conveys(channel, shown, items, b)
                 /\ ~deferred.some /\ ~batch.begun => b = items
    BY DEF GrowingInv, ToldInv
  <1> QED
    BY <1>1 DEF GrowingInv, ToldInv, TargetInv, taskVars

LEMMA HidesGrows ==
    ASSUME GrowingInv, Hides, visible' \/ ~request.changed
    PROVE  GrowingInv'
  <1>0. SubscriberInv'
    BY OtherStep DEF Hides, taskVars, GrowingInv
  <1>1. ToldInv' /\ TargetInv'
    BY <1>0, RequestGrows DEF Hides
  <1>2. /\ request' = [request EXCEPT !.open = FALSE, !.changed = TRUE]
        /\ visible /\ ~visible' /\ ~request.changed /\ visible' \in BOOLEAN
        /\ UNCHANGED <<items, isOpen, sought, found, channel, pane>>
    BY DEF Hides, taskVars
  <1>3. RequestType' /\ OpenInv' /\ SearchInv'
    BY <1>2 DEF GrowingInv, RequestType, OpenInv, SearchInv
  <1> QED
    BY <1>0, <1>1, <1>3 DEF GrowingInv

LEMMA ShowsGrows ==
    ASSUME GrowingInv, Shows
    PROVE  GrowingInv'
  <1>0. SubscriberInv'
    BY OtherStep DEF Shows, taskVars, GrowingInv
  <1>1. ToldInv' /\ TargetInv'
    BY <1>0, RequestGrows DEF Shows
  <1>2. /\ request' = [request EXCEPT !.open = TRUE, !.changed = TRUE]
        /\ visible' = TRUE
        /\ UNCHANGED <<items, isOpen, sought, found, channel, pane>>
    BY DEF Shows, taskVars
  <1>3. RequestType' /\ OpenInv' /\ SearchInv'
    BY <1>2 DEF GrowingInv, RequestType, OpenInv, SearchInv
  <1> QED
    BY <1>0, <1>1, <1>3 DEF GrowingInv

\* A search begins below the items of the screen: they are the first of the task's,
\* or the task has more.
LEMMA JumpsToGrows ==
    ASSUME GrowingInv, JumpsTo
    PROVE  GrowingInv'
  <1>0. SubscriberInv'
    BY OtherStep DEF JumpsTo, taskVars, GrowingInv
  <1>1. ToldInv' /\ TargetInv'
    BY <1>0, RequestGrows DEF JumpsTo
  <1> DEFINE n == IF request.length = Nowhere THEN Len(shown) ELSE request.length
  <1>2. /\ request' = [request EXCEPT !.length = n, !.changed = TRUE]
        /\ visible /\ Target \notin Ids(shown) /\ pane' = "searching"
        /\ UNCHANGED <<items, isOpen, sought, found, channel, visible>>
    BY DEF JumpsTo, taskVars
  <1>3. Grown(shown, items) /\ Len(shown) \in Nat
    <2>1. PICK b : Conveys(channel, shown, items, b)
      BY DEF GrowingInv, ToldInv
    <2> QED
      BY <2>1, GrowingTypes, ConveysTypes
  <1>4. n \in Nat /\ n <= Len(items) /\ (Target \in Ids(items) => n < Len(items))
    <2>1. CASE request.length = Nowhere
      BY <1>2, <1>3, <2>1, GrowingTypes DEF Grown
    <2>2. CASE request.length # Nowhere
      BY <2>2, GrowingTypes DEF GrowingInv, SearchInv
    <2> QED
      BY <2>1, <2>2
  <1> HIDE DEF n
  <1>5. n # Nowhere
    BY <1>4, SubscriberAssumption
  <1>6. RequestType' /\ OpenInv'
    BY <1>2, <1>4 DEF GrowingInv, RequestType, OpenInv
  <1>7. request'.length = n /\ request'.changed
    BY <1>2 DEF GrowingInv, RequestType
  <1>8. SearchInv'
    BY <1>2, <1>4, <1>5, <1>7 DEF GrowingInv, SearchInv
  <1> QED
    BY <1>0, <1>1, <1>6, <1>8 DEF GrowingInv

LEMMA ClosesPaneGrows ==
    ASSUME GrowingInv, ClosesPane
    PROVE  GrowingInv'
  <1>0. SubscriberInv'
    BY OtherStep DEF ClosesPane, taskVars, GrowingInv
  <1>1. ToldInv' /\ TargetInv'
    BY <1>0, RequestGrows DEF ClosesPane
  <1>2. /\ request' \in {[request EXCEPT !.length = Nowhere, !.changed = TRUE], request}
        /\ visible /\ pane' = "none"
        /\ UNCHANGED <<items, isOpen, sought, found, channel, visible>>
    BY DEF ClosesPane, taskVars
  <1>3. RequestType' /\ OpenInv' /\ SearchInv'
    BY <1>2 DEF GrowingInv, RequestType, OpenInv, SearchInv
  <1> QED
    BY <1>0, <1>1, <1>3 DEF GrowingInv

LEMMA GrowingSteps == ASSUME GrowingInv, [GrowingNext]_subscriberVars PROVE GrowingInv'
  <1>1. CASE Grows
    BY <1>1, GrowsGrow
  <1>2. CASE EndsBatch
    BY <1>2, EndsBatchGrows
  <1>3. CASE SeesRequest
    BY <1>3, SeesRequestGrows
  <1>4. CASE Searches
    BY <1>4, JumpsToGrows, ClosesPaneGrows DEF Searches
  <1>5. CASE Screen /\ (visible' \/ ~request.changed)
    BY <1>5, CoalescesGrows, HandlesItemsGrows, HandlesFoundGrows, HidesGrows, ShowsGrows DEF Screen
  <1>6. CASE UNCHANGED subscriberVars
    <2>1. SubscriberInv'
      BY <1>6, SubscriberSteps DEF GrowingInv
    <2>2. UNCHANGED <<taskVars, request, channel, viewVars>>
      BY <1>6 DEF subscriberVars
    <2>3. ToldInv' /\ TargetInv'
      BY <2>1, <2>2, RequestGrows DEF viewVars
    <2>4. RequestType' /\ OpenInv' /\ SearchInv'
      BY <2>2 DEF GrowingInv, RequestType, OpenInv, SearchInv, taskVars, viewVars
    <2> QED
      BY <2>1, <2>3, <2>4 DEF GrowingInv
  <1> QED
    BY <1>1, <1>2, <1>3, <1>4, <1>5, <1>6 DEF GrowingNext

LEMMA AnswersPoint == ASSUME GrowingInv PROVE FoundIsThere
  <1> SUFFICES ASSUME channel # <<>>, Head(channel).is = "TargetFound", Target \in Ids(shown)
               PROVE  IndexOfTarget(shown) = Head(channel).index
    BY DEF FoundIsThere
  <1>1. PICK b : Conveys(channel, shown, items, b)
    BY DEF GrowingInv, ToldInv
  <1>2. PICK d \in Seq(Item) : Leads(Head(channel), shown, d)
    BY <1>1, GrowingTypes, ConveysLess
  <1> QED
    BY <1>2 DEF Leads, PointsAt

\* In a timeline that grows, a target that the screen has when the subscriber
\* task's answer arrives is at the index of the answer: the items that arrive
\* after the answer was sent, and the snapshots that are deferred or merged,
\* overtake no answer.
THEOREM FoundAlwaysThere == GrowingSpec => []FoundIsThere
  <1>1. SubscriberInit => GrowingInv
    BY GrowingStarts
  <1>2. GrowingInv /\ [GrowingNext]_subscriberVars => GrowingInv'
    BY GrowingSteps
  <1>3. GrowingInv => FoundIsThere
    BY AnswersPoint
  <1> QED
    BY <1>1, <1>2, <1>3, PTL DEF GrowingSpec

\* In a timeline that grows, the loading pane does not wait for a target that the
\* task has while no request or answer is on its way: neither a search that begins
\* with fewer items than the task's, nor a request that comes while the target
\* arrives, nor a screen that is hidden and shown again, leaves it searching.
THEOREM SearchNeverInVain == GrowingSpec => []SearchIsNotInVain
  <1>1. SubscriberInit => GrowingInv
    BY GrowingStarts
  <1>2. GrowingInv /\ [GrowingNext]_subscriberVars => GrowingInv'
    BY GrowingSteps
  <1>3. GrowingInv => SearchIsNotInVain
    BY DEF GrowingInv, SearchInv, SearchIsNotInVain
  <1> QED
    BY <1>1, <1>2, <1>3, PTL DEF GrowingSpec

=============================================================================
