-------------------------- MODULE TimelineSubscriber ---------------------------
(***************************************************************************)
(* A timeline's subscriber task (timeline_subscriber_handler) and the room *)
(* screen that draws what it sends.  The task applies the SDK's batches of *)
(* diffs to its own copy of the items, and tells the screen which indices  *)
(* changed, so that the screen redraws those alone.  While the screen is   *)
(* hidden the changes are deferred to one snapshot.  The task also watches *)
(* out for an event that the screen wants to jump to, and reports where in *)
(* the items it is.                                                        *)
(*                                                                         *)
(* The diffs are the SDK's (external).  Indices count from 0, as in the    *)
(* code; the items are a sequence, that counts from 1.                     *)
(***************************************************************************)
EXTENDS Naturals, Sequences, SequencesExt

CONSTANTS
    Events,     \* the events of the timeline
    Target,     \* the one to jump to: an older event, that pagination brings
    Divider,    \* a virtual item
    Nowhere,    \* no index, no request
    MaxLength,  \* bound: items of the timeline
    MaxDiffs,   \* bound: diffs that are applied
    MaxUpdates  \* bound: updates in the channel to the screen

ASSUME SubscriberAssumption == /\ Target \in Events /\ Divider \notin Events
                               /\ Nowhere \notin Nat
                               /\ {MaxLength, MaxDiffs, MaxUpdates} \subseteq Nat \ {0}
                               /\ MaxLength >= 2  \* what a timeline may start with

VARIABLES
    items,      \* the task's timeline_items
    batch,      \* what it knows of the batch at hand
    diffs,      \* how many diffs were applied
    isOpen,     \* its is_timeline_open
    deferred,   \* its deferred_changes
    sought,     \* target_event_id is set
    found,      \* the index of found_target_event_id
    request,    \* the watch channel: TimelineRequest, and whether it changed
    channel,    \* TimelineUpdates on their way, and pending_updates
    shown,      \* TimelineUiState.items
    drawn,      \* what the widgets at content_drawn_since_last_update show
    visible,    \* the screen shows this timeline
    pane        \* the loading pane

taskVars == <<items, batch, diffs, isOpen, deferred, sought, found>>
viewVars == <<shown, drawn, visible, pane>>
subscriberVars == <<taskVars, request, channel, viewVars>>

Item == [id : Events \union {Divider}, rev : 0..1]
Fresh(id) == [id |-> id, rev |-> 0]
Huge == MaxLength + 1  \* usize::MAX
NoBatch == [first |-> Huge, last |-> 0, clear |-> FALSE, append |-> FALSE, only |-> TRUE,
            begun |-> FALSE]
NoChanges == [some |-> FALSE, appends |-> FALSE, start |-> Nowhere, full |-> FALSE]
NewItems(new, first, last, clear) ==
    [is |-> "NewItems", items |-> new, first |-> first, last |-> last, clear |-> clear]
TargetFound(index) == [is |-> "TargetFound", index |-> index]

SubscriberTypeOK ==
    /\ {items, shown} \subseteq Seq(Item) /\ Len(items) <= MaxLength
    /\ batch \in [first : 0..Huge, last : 0..Huge, clear : BOOLEAN, append : BOOLEAN,
                  only : BOOLEAN, begun : BOOLEAN]
    /\ deferred \in [some : BOOLEAN, appends : BOOLEAN, start : 0..Huge \union {Nowhere},
                     full : BOOLEAN]
    /\ found \in Nat \union {Nowhere}
    /\ request \in [open : BOOLEAN, length : 0..MaxLength \union {Nowhere}, changed : BOOLEAN]
    /\ \A i \in DOMAIN drawn : i \in 0..MaxLength - 1 /\ drawn[i] \in Item
    /\ {isOpen, sought, visible} \subseteq BOOLEAN
    /\ pane \in {"none", "searching", "error"}

Least(i, j) == IF i < j THEN i ELSE j
Most(i, j) == IF i < j THEN j ELSE i
Ids(s) == {s[i].id : i \in DOMAIN s}
IndexOfTarget(s) == (CHOOSE i \in DOMAIN s : s[i].id = Target) - 1

\* The first update was handled: the screen shows and draws all there is.
SubscriberInit ==
    /\ items \in {<<>>, <<Fresh(Divider)>>} \union {<<Fresh(Divider), Fresh(e)>> : e \in Events \ {Target}}
    /\ batch = NoBatch /\ diffs = 0 /\ isOpen = TRUE /\ deferred = NoChanges
    /\ sought = FALSE /\ found = Nowhere
    /\ request = [open |-> TRUE, length |-> Nowhere, changed |-> FALSE]
    /\ channel = <<>>
    /\ shown = items
    /\ drawn = [i \in 0..Len(items) - 1 |-> items[i + 1]]
    /\ visible = TRUE /\ pane = "none"

----------------------------------------------------------------------------
(* The task: a batch, diff by diff.                                        *)

\* A diff leaves the items s; it changes the indices from first to last, or all
\* of them.
Diff(s, first, last, clear, append, only) ==
    /\ diffs < MaxDiffs /\ diffs' = diffs + 1
    /\ Len(s) <= MaxLength
    /\ items' = s
    /\ batch' = [first |-> Least(batch.first, first), last |-> Most(batch.last, last),
                 clear |-> batch.clear \/ clear, append |-> batch.append \/ append,
                 only |-> batch.only /\ only, begun |-> TRUE]
    /\ UNCHANGED <<isOpen, deferred, request, channel, viewVars>>

ChangesAll(s) == Diff(s, Huge, 0, TRUE, FALSE, FALSE)
Changes(s, first, last) == Diff(s, first, last, FALSE, FALSE, FALSE)
SeeksOn == UNCHANGED <<sought, found>>

\* Mutated form of ShiftedBy: an insertion at the target's index forgotten.
ShiftedByOff(index, i) == IF index < i THEN i + 1 ELSE i

\* Where the target at i is after an insertion at index.
ShiftedBy(index, i) == IF index <= i THEN i + 1 ELSE i

\* An item inserted at index may be the target; else it may shift it.
LooksAt(id, index) ==
    IF found # Nowhere
      THEN found' = ShiftedBy(index, found) /\ UNCHANGED sought
      ELSE /\ found' = IF sought /\ id = Target THEN index ELSE Nowhere
           /\ sought' = (sought /\ id # Target)

\* What a removal at index does to the target's index.
Unshifts(index) ==
    /\ found' = IF found # Nowhere /\ index <= found THEN Most(found, 1) - 1 ELSE found
    /\ UNCHANGED sought

\* What sync brings, and what pagination brings.
Arrivals == {Fresh(e) : e \in Events \ ({Target} \union Ids(items))} \union {Fresh(Divider)}
Older == Arrivals \union {Fresh(e) : e \in {Target} \ Ids(items)}

Appends ==
    /\ SeeksOn
    /\ \/ \E x \in Arrivals : Diff(Append(items, x), Len(items), Len(items) + 1, FALSE, TRUE, TRUE)
       \/ \E x, y \in Arrivals :
             /\ x.id # y.id
             /\ Diff(items \o <<x, y>>, Len(items), Len(items) + 2, FALSE, TRUE, TRUE)

PushesFront == \E x \in Older : LooksAt(x.id, 0) /\ ChangesAll(<<x>> \o items)

Inserts ==
    \E x \in Older, index \in 0..Len(items) :
       /\ LooksAt(x.id, index)
       /\ Diff(InsertAt(items, index + 1, x),
               IF index = 0 THEN Huge ELSE index, IF index = 0 THEN 0 ELSE Huge,
               index = 0, index >= Len(items), index >= Len(items))

Sets ==
    \E index \in 0..Len(items) - 1 :
       /\ SeeksOn
       /\ Changes([items EXCEPT ![index + 1].rev = 1 - @], index, index + 1)

PopsFront == items # <<>> /\ Unshifts(0) /\ ChangesAll(Tail(items))
PopsBack == items # <<>> /\ SeeksOn /\ Changes(Front(items), Len(items) - 1, Huge)

Removes ==
    \E index \in 0..Len(items) - 1 :
       LET s == RemoveAt(items, index + 1)
       IN  /\ Unshifts(index)
           /\ IF index = 0 THEN ChangesAll(s) ELSE Changes(s, index - 1, Huge)

Truncates ==
    \E length \in 0..Len(items) :
       LET s == SubSeq(items, 1, length)
       IN  /\ SeeksOn
           /\ IF length = 0 THEN ChangesAll(s) ELSE Changes(s, length - 1, Huge)

ClearsAll == SeeksOn /\ ChangesAll(<<>>)
Resets == SeeksOn /\ \E x \in Arrivals : ChangesAll(<<Fresh(Divider), x>>)

Grows == Appends \/ PushesFront \/ Inserts
Shrinks == Sets \/ PopsFront \/ PopsBack \/ Removes \/ Truncates \/ ClearsAll \/ Resets

\* Mutated form of OnlyAppended: what was drawn of a cleared timeline stays.
OnlyAppendedMixed == batch.append

OnlyAppended == batch.only /\ ~batch.clear

\* record_batch
Recorded ==
    [some |-> TRUE, appends |-> deferred.appends \/ batch.append,
     start |-> IF OnlyAppended /\ ~deferred.full
                 THEN IF deferred.start = Nowhere THEN batch.first
                                               ELSE Least(deferred.start, batch.first)
                 ELSE Nowhere,
     full |-> deferred.full \/ ~OnlyAppended]

\* A change behind a divider at the front counts as one of everything.
BehindDivider == batch.first = 1 /\ items # <<>> /\ items[1].id = Divider

\* The batch is at its end: its changes are sent, or deferred.
EndsBatch ==
    /\ batch.begun
    /\ batch' = NoBatch
    /\ IF isOpen
         THEN /\ Len(channel) < MaxUpdates
              /\ channel' = channel
                   \o <<NewItems(items, IF BehindDivider THEN 0 ELSE batch.first, batch.last,
                                 batch.clear \/ BehindDivider)>>
                   \o (IF found = Nowhere THEN <<>> ELSE <<TargetFound(found)>>)
              /\ sought' = (sought /\ found = Nowhere)
              /\ found' = Nowhere
              /\ UNCHANGED deferred
         ELSE /\ deferred' = IF BehindDivider
                               THEN [Recorded EXCEPT !.full = TRUE, !.start = Nowhere]
                               ELSE Recorded
              /\ UNCHANGED <<channel, sought, found>>
    /\ UNCHANGED <<items, diffs, isOpen, request, viewVars>>

----------------------------------------------------------------------------
(* The task: a request of the screen.                                      *)

\* take_snapshot
Snapshot ==
    LET start == IF deferred.full \/ deferred.start = Nowhere THEN Nowhere
                 ELSE Least(deferred.start, Len(items))
    IN  NewItems(items, IF start = Nowhere THEN 0 ELSE start, Len(items), start = Nowhere)

\* Mutated form of SearchFrom: the request's length is trusted.
SearchFromStale == IF request.length = Nowhere THEN 0 ELSE Len(items) - request.length

\* Where a search for the target starts: an index the screen searched down to
\* counts if the timeline is still as long.
SearchFrom == IF request.length = Len(items) THEN 0 ELSE Len(items)

SeesRequest ==
    /\ request.changed
    /\ ~batch.begun
    /\ Len(channel) < MaxUpdates
    /\ request' = [request EXCEPT !.changed = FALSE]
    /\ isOpen' = request.open
    /\ LET reopens == request.open /\ ~isOpen /\ deferred.some
           resolved == reopens /\ found # Nowhere /\ Target \in Ids(items)
           searches == request.length # Nowhere /\ ~resolved /\ ~sought
           hit == searches /\ Target \in Ids(items) /\ IndexOfTarget(items) < SearchFrom
       IN  /\ channel' = channel
                \o (IF reopens THEN <<Snapshot>> ELSE <<>>)
                \o (IF resolved \/ hit THEN <<TargetFound(IndexOfTarget(items))>> ELSE <<>>)
           /\ deferred' = IF reopens THEN NoChanges ELSE deferred
           /\ sought' = (request.length # Nowhere /\ ~resolved /\ ~hit)
           /\ found' = IF reopens \/ hit THEN Nowhere ELSE found
    /\ UNCHANGED <<items, batch, diffs, viewVars>>

----------------------------------------------------------------------------
(* The screen.                                                             *)

\* The screen pulls an update while the one before it is still pending: two
\* snapshots become one (enqueue_timeline_update).
Coalesces ==
    \E i \in 1..Len(channel) - 1 :
       /\ visible
       /\ channel[i].is = "NewItems" /\ channel[i + 1].is = "NewItems"
       /\ channel' = ReplaceAt(RemoveAt(channel, i), i,
             NewItems(channel[i + 1].items, Least(channel[i].first, channel[i + 1].first),
                      Most(channel[i].last, channel[i + 1].last),
                      channel[i].clear \/ channel[i + 1].clear))
       /\ UNCHANGED <<taskVars, request, viewVars>>

\* Every item is drawn that is not known to be drawn: less would be stale if
\* less were drawn.
Redrawn(new, known) ==
    [i \in known \union 0..Len(new) - 1 |-> IF i \in known THEN drawn[i] ELSE new[i + 1]]

\* A snapshot is applied; an empty one is skipped.
HandlesItems ==
    /\ visible
    /\ channel # <<>>
    /\ LET update == Head(channel)
           changed == update.first..update.last - 1
       IN  /\ update.is = "NewItems"
           /\ IF update.items = <<>> /\ shown # <<>>
                THEN UNCHANGED <<shown, drawn>>
                ELSE /\ shown' = update.items
                     /\ drawn' = Redrawn(update.items,
                                         IF update.clear THEN {} ELSE DOMAIN drawn \ changed)
    /\ channel' = Tail(channel)
    /\ UNCHANGED <<taskVars, request, visible, pane>>

\* The request is over, and the task not notified.
HandlesFound ==
    /\ visible
    /\ channel # <<>>
    /\ Head(channel).is = "TargetFound"
    /\ request' = [request EXCEPT !.length = Nowhere]
    /\ LET index == Head(channel).index
       IN  pane' = IF index < Len(shown) /\ shown[index + 1].id = Target THEN "none" ELSE "error"
    /\ channel' = Tail(channel)
    /\ UNCHANGED <<taskVars, shown, drawn, visible>>

\* jump_to_event, that found nothing among all the items of the screen.
JumpsTo ==
    /\ visible
    /\ pane # "searching"
    /\ Target \notin Ids(shown)
    /\ pane' = "searching"
    /\ request' = [request EXCEPT !.length = IF @ = Nowhere THEN Len(shown) ELSE @, !.changed = TRUE]
    /\ UNCHANGED <<taskVars, channel, shown, drawn, visible>>

\* The loading pane is closed, and its request cancelled.
ClosesPane ==
    /\ visible
    /\ pane # "none"
    /\ pane' = "none"
    /\ request' = IF pane = "searching" /\ request.length # Nowhere
                    THEN [request EXCEPT !.length = Nowhere, !.changed = TRUE] ELSE request
    /\ UNCHANGED <<taskVars, channel, shown, drawn, visible>>

Hides ==
    /\ visible
    /\ visible' = FALSE
    /\ request' = [request EXCEPT !.open = FALSE, !.changed = TRUE]
    /\ UNCHANGED <<taskVars, channel, shown, drawn, pane>>

\* show_timeline forgets what was drawn.
Shows ==
    /\ ~visible
    /\ visible' = TRUE
    /\ request' = [request EXCEPT !.open = TRUE, !.changed = TRUE]
    /\ drawn' = Redrawn(shown, {})
    /\ UNCHANGED <<taskVars, channel, shown, pane>>

Screen == Coalesces \/ HandlesItems \/ HandlesFound \/ Hides \/ Shows
Searches == JumpsTo \/ ClosesPane

SubscriberNext == Grows \/ Shrinks \/ EndsBatch \/ SeesRequest \/ Screen \/ Searches

SubscriberSpec == SubscriberInit /\ [][SubscriberNext]_subscriberVars

\* Searches in a timeline that grows, on a screen that is hidden only after the
\* task has seen what the screen asked for last.
GrowingNext == \/ Grows \/ EndsBatch \/ SeesRequest \/ Searches
               \/ Screen /\ (visible' \/ ~request.changed)

GrowingSpec == SubscriberInit /\ [][GrowingNext]_subscriberVars

----------------------------------------------------------------------------
(* Properties.                                                             *)

\* What a widget shows is what the screen's item at its index is, although only
\* the changed indices are redrawn: over every batch, deferred, merged or
\* skipped snapshot.
DrawnIsCurrent == \A i \in DOMAIN drawn : i < Len(shown) => drawn[i] = shown[i + 1]

\* The screen finds the target where the task says it is, if it has it at all.
FoundIsThere ==
    (channel # <<>> /\ Head(channel).is = "TargetFound" /\ Target \in Ids(shown))
        => IndexOfTarget(shown) = Head(channel).index

\* A target that the task has in its items is not searched for in vain: the
\* request, or the answer, is on its way.
SearchIsNotInVain ==
    (pane = "searching" /\ Target \in Ids(items))
        => \/ request.changed \/ found # Nowhere
           \/ \E i \in DOMAIN channel : channel[i].is = "TargetFound"
=============================================================================
