------------------------------- MODULE RoomsList -------------------------------
(***************************************************************************)
(* How a room gets on the rooms list and off it again.  The SDK's room     *)
(* list service publishes diffs of the rooms that match the list's filter. *)
(* room_list_service_loop turns each diff into changes of                  *)
(* ALL_JOINED_ROOMS and updates for the RoomsList widget; a listener for   *)
(* invite events is a second, unordered source of invites.  The widget     *)
(* takes the updates from a queue on the main thread and keeps, next to    *)
(* what it knows of the rooms, the lists that it draws.                    *)
(*                                                                         *)
(* The SDK is external: its state of a room is read when a diff is         *)
(* handled, which may be newer than the diff.  The order of the rooms      *)
(* within a list is left out, and with it whatever a room's entry shows.   *)
(***************************************************************************)
EXTENDS Naturals, Sequences, SequencesExt

CONSTANTS
    Rooms,
    Spaces,      \* those that are spaces
    States,      \* the RoomStates that occur
    Tags,        \* the tags that occur, of "favorite" and "low_priority"
    MaxChanges,  \* bound: changes that the SDK reports
    MaxDiffs,    \* bound: diffs not handled yet
    MaxLeaves,   \* bound: rooms that the user leaves
    MaxCreated,  \* bound: rooms that the user creates
    MaxFilters   \* bound: changes of the keywords

RoomState == {"Left", "Invited", "Joined", "Knocked", "Banned"}

ASSUME RoomsAssumption == /\ Spaces \subseteq Rooms /\ {"Left", "Joined"} \subseteq States
                          /\ States \subseteq RoomState
                          /\ Tags \subseteq {"favorite", "low_priority"}

VARIABLES
    live,       \* the SDK's state of every room
    diffs,      \* its diffs that are not handled yet
    known,      \* all_known_rooms: room -> its RoomListServiceRoomInfo
    todo,       \* what the loop has still to do for the diff at hand
    allJoined,  \* ALL_JOINED_ROOMS
    enqueued,   \* ENQUEUED_INVITE_FALLBACK_ROOMS
    listener,   \* room -> how far the invite listener's task for it is
    leaving,    \* LeaveRoomResultAction::Left on their way to the App
    creating,   \* CreateRoomAction::Created on their way to the list
    queue,      \* PENDING_ROOM_UPDATES
    ui,         \* the RoomsList widget
    count       \* for the bounds

sdkVars == <<live, diffs, leaving, creating, count>>
loopVars == <<known, todo, allJoined>>
listenerVars == <<enqueued, listener>>
roomsListVars == <<sdkVars, loopVars, listenerVars, queue, ui>>

\* "Match": a name that the keywords of the filter bar match.
Name == {"Empty", "Match", "Other"}
Tag == Tags \union {"none"}
RoomInfo == [state : States, direct : BOOLEAN, tag : Tag, name : Name]
JoinedRoomInfo == [direct : BOOLEAN, tag : Tag, name : Name, placeholder : BOOLEAN]
Lists == {"invited", "direct", "favorite", "low_priority", "regular"}

Nothing == [r \in {} |-> r]
When(condition, effects) == IF condition THEN effects ELSE <<>>
Without(f, r) == Restrict(f, DOMAIN f \ {r})
With(f, r, v) == [x \in DOMAIN f \union {r} |-> IF x = r THEN v ELSE f[x]]

\* Updates of the queue.
AddInvitedRoom(r, name) == [is |-> "AddInvitedRoom", room |-> r, name |-> name]
AddJoinedRoom(r, info) ==
    [is |-> "AddJoinedRoom", room |-> r,
     info |-> [direct |-> info.direct, tag |-> info.tag, name |-> info.name,
               placeholder |-> FALSE]]
UpdateRoomName(r, name) == [is |-> "UpdateRoomName", room |-> r, name |-> name]
UpdateIsDirect(r, direct) == [is |-> "UpdateIsDirect", room |-> r, direct |-> direct]
NewTags(r, tag) == [is |-> "Tags", room |-> r, tag |-> tag]
RemoveRoom(r) == [is |-> "RemoveRoom", room |-> r]
HideRoom(r) == [is |-> "HideRoom", room |-> r]
UnhideRoom(r) == [is |-> "UnhideRoom", room |-> r]
ClearRooms == [is |-> "ClearRooms"]
RoomOrderUpdate == [is |-> "RoomOrderUpdate"]

\* Steps of the loop.
Post(update) == [does |-> "post", update |-> update]
InsertDetails(r) == [does |-> "insert", room |-> r]
DropDetails(r) == [does |-> "drop", room |-> r]
DropAll == [does |-> "drop all"]
RemoveRooms(rs) == When(rs # {}, <<[does |-> "remove", rooms |-> rs]>>)
AppendRooms(rs) == When(rs # {}, <<[does |-> "append", rooms |-> rs]>>)

----------------------------------------------------------------------------
(* The SDK                                                                  *)

\* The filter of the list: a space only while it is an invite, no left rooms.
Matches(r, info) == /\ info.state # "Left"
                    /\ r \in Spaces => info.state = "Invited"
Listed == {r \in Rooms : Matches(r, live[r])}

Diff(kind, rooms) == [kind |-> kind, rooms |-> rooms]

RoomsListInit ==
    /\ live \in [Rooms -> {i \in RoomInfo : i.state = "Left" /\ i.tag = "none"}]
    /\ diffs = <<Diff("Reset", {})>>
    /\ known = Nothing /\ todo = <<>> /\ allJoined = {}
    /\ enqueued = {} /\ listener = [r \in Rooms |-> "idle"]
    /\ leaving = {} /\ creating = {} /\ queue = <<>>
    /\ ui = [joined |-> Nothing, invited |-> Nothing, hidden |-> {},
             shown |-> [l \in Lists |-> {}], filtered |-> FALSE,
             needsSort |-> FALSE, draining |-> FALSE]
    /\ count = [changes |-> 0, leaves |-> 0, created |-> 0, filters |-> 0]

Spend(what, max) == count[what] < max /\ count' = [count EXCEPT ![what] = @ + 1]

\* A room that moves in the list is removed and inserted in one batch.
Reports(r, info) ==
    /\ live' = [live EXCEPT ![r] = info]
    /\ Len(diffs) < MaxDiffs
    /\ \E kind \in {"Insert", "Remove", "Set", "Move"} :
        /\ (kind = "Insert") = (~Matches(r, live[r]) /\ Matches(r, info))
        /\ (kind = "Remove") = (Matches(r, live[r]) /\ ~Matches(r, info))
        /\ diffs' = IF Matches(r, live[r]) \/ Matches(r, info)
                    THEN Append(diffs, Diff(kind, {r})) ELSE diffs

OneChange(info) ==
    ({[info EXCEPT !.state = s] : s \in States} \union {[info EXCEPT !.direct = ~@]}
     \union {[info EXCEPT !.name = n] : n \in Name}
     \union {[info EXCEPT !.tag = t] : t \in IF info.state = "Joined" THEN Tag ELSE {}})
    \ {info}

\* One thing about a room changes.  An invite is heard by the listener too.
RoomChanges(r) ==
    /\ Spend("changes", MaxChanges)
    /\ \E info \in OneChange(live[r]) :
        /\ Reports(r, info)
        /\ listener' = IF /\ info.state = "Invited" /\ live[r].state # "Invited"
                          /\ listener[r] = "idle"
                       THEN [listener EXCEPT ![r] = "heard"] ELSE listener
    /\ UNCHANGED <<leaving, creating, loopVars, enqueued, queue, ui>>

\* The list is published anew, in one diff or in two.
ListIsReset ==
    /\ Spend("changes", MaxChanges) /\ Len(diffs) < MaxDiffs
    /\ \/ diffs' = Append(diffs, Diff("Reset", Listed))
       \/ diffs' = diffs \o <<Diff("Clear", {}), Diff("Append", Listed)>>
    /\ UNCHANGED <<live, leaving, creating, loopVars, listenerVars, queue, ui>>

\* room.leave() has succeeded (MatrixRequest::LeaveRoom).
UserLeaves(r) ==
    /\ live[r].state \in {"Joined", "Invited"} /\ Spend("leaves", MaxLeaves)
    /\ Reports(r, [live[r] EXCEPT !.state = "Left"])
    /\ leaving' = leaving \union {r}
    /\ UNCHANGED <<creating, loopVars, listenerVars, queue, ui>>

\* A room or a space is created, with a name.
UserCreates(r) ==
    /\ live[r].state = "Left" /\ ~live[r].direct /\ live[r].name # "Empty"
    /\ Spend("created", MaxCreated)
    /\ Reports(r, [live[r] EXCEPT !.state = "Joined"])
    /\ creating' = creating \union {[room |-> r, name |-> live[r].name]}
    /\ UNCHANGED <<leaving, loopVars, listenerVars, queue, ui>>

----------------------------------------------------------------------------
(* room_list_service_loop                                                   *)

\* from_room: only joined rooms have their tags read.
ReadInfo(r) == IF live[r].state = "Joined" THEN live[r] ELSE [live[r] EXCEPT !.tag = "none"]

should_display_joined_room_entry(info) ==
    ~(info.state = "Joined" /\ info.direct /\ info.name = "Empty")

add_new_room(r, info) ==
    CASE info.state = "Invited" -> <<Post(AddInvitedRoom(r, info.name))>>
      [] info.state = "Joined" /\ r \in Spaces -> <<Post(RemoveRoom(r))>>
      [] info.state = "Joined" /\ r \notin Spaces ->
            <<InsertDetails(r), Post(AddJoinedRoom(r, info))>>
            \o When(~should_display_joined_room_entry(info), <<Post(HideRoom(r))>>)
      [] OTHER -> <<>>

remove_room(r) == <<DropDetails(r), Post(RemoveRoom(r))>>

\* Mutated form of DisplayFlip: what is to be shown again is added again.
FlipByAdding(r, old, new) ==
    LET before == should_display_joined_room_entry(old)
        after == should_display_joined_room_entry(new)
    IN  When(before /\ ~after, <<Post(HideRoom(r))>>)
        \o When(~before /\ after, add_new_room(r, new))

DisplayFlip(r, old, new) ==
    LET before == should_display_joined_room_entry(old)
        after == should_display_joined_room_entry(new)
    IN  When(before /\ ~after, <<Post(HideRoom(r))>>)
        \o When(~before /\ after, <<Post(UnhideRoom(r))>>)

ChangesOf(r, old, new) ==
    When(old.name # new.name, <<Post(UpdateRoomName(r, new.name))>>)
    \o When(new.state = "Joined" /\ old.tag # new.tag, <<Post(NewTags(r, new.tag))>>)
    \o When(new.state = "Joined" /\ old.direct # new.direct,
            <<Post(UpdateIsDirect(r, new.direct))>>)

update_room(r, old, new) ==
    DisplayFlip(r, old, new)
    \o (CASE old.state = new.state -> ChangesOf(r, old, new)
          [] old.state # new.state /\ new.state \in {"Banned", "Left"} -> remove_room(r)
          [] old.state # new.state /\ new.state \notin {"Banned", "Left"} ->
                add_new_room(r, new))

Takes(kind, rooms) ==
    /\ todo = <<>> /\ diffs # <<>> /\ diffs' = Tail(diffs)
    /\ Head(diffs) = Diff(kind, rooms)
    /\ UNCHANGED <<live, leaving, creating, count, allJoined, listenerVars, queue, ui>>

Sort == <<Post(RoomOrderUpdate)>>

InsertDiff(r) ==
    /\ Takes("Insert", {r})
    /\ todo' = add_new_room(r, ReadInfo(r)) \o Sort
    /\ known' = With(known, r, ReadInfo(r))

\* The room at the index is the same: its place in the order is not updated.
SetDiff(r) ==
    /\ Takes("Set", {r})
    /\ todo' = update_room(r, known[r], ReadInfo(r))
    /\ known' = With(known, r, ReadInfo(r))

\* optimize_remove_then_add_into_update
MoveDiff(r) ==
    /\ Takes("Move", {r})
    /\ todo' = Sort \o update_room(r, known[r], ReadInfo(r)) \o Sort
    /\ known' = With(known, r, ReadInfo(r))

RemoveDiff(r) ==
    /\ Takes("Remove", {r})
    /\ todo' = Sort \o remove_room(r)
    /\ known' = Without(known, r)

\* remove_room for every known room; then as Append.
ResetDiff(rooms) ==
    /\ Takes("Reset", rooms)
    /\ todo' = RemoveRooms(DOMAIN known) \o <<DropAll, Post(ClearRooms)>> \o Sort
               \o AppendRooms(rooms) \o When(rooms # {}, Sort)
    /\ known' = Nothing

ClearDiff ==
    /\ Takes("Clear", {})
    /\ todo' = <<DropAll>> \o Sort \o <<Post(ClearRooms)>>
    /\ known' = Nothing

AppendDiff(rooms) ==
    /\ Takes("Append", rooms)
    /\ todo' = AppendRooms(rooms) \o When(rooms # {}, Sort)
    /\ UNCHANGED known

Does(what) ==
    /\ todo # <<>> /\ Head(todo).does = what
    /\ UNCHANGED <<sdkVars, ui>>

PostsUpdate ==
    /\ Does("post") /\ todo' = Tail(todo)
    /\ queue' = Append(queue, Head(todo).update)
    /\ UNCHANGED <<known, allJoined, listenerVars>>

InsertsDetails ==
    /\ Does("insert") /\ todo' = Tail(todo)
    /\ allJoined' = allJoined \union {Head(todo).room}
    /\ UNCHANGED <<known, listenerVars, queue>>

DropsDetails ==
    /\ Does("drop") /\ todo' = Tail(todo)
    /\ allJoined' = allJoined \ {Head(todo).room}
    /\ enqueued' = enqueued \ {Head(todo).room}
    /\ UNCHANGED <<known, listener, queue>>

DropsAll ==
    /\ Does("drop all") /\ todo' = Tail(todo) /\ allJoined' = {}
    /\ UNCHANGED <<known, listenerVars, queue>>

\* Some rooms, one after the other, in the order of the list or any other.
TakesRoom(what, r) == Does(what) /\ r \in Head(todo).rooms

RemovesRoom(r) ==
    /\ TakesRoom("remove", r)
    /\ todo' = remove_room(r) \o RemoveRooms(Head(todo).rooms \ {r}) \o Tail(todo)
    /\ UNCHANGED <<known, allJoined, listenerVars, queue>>

\* The tasks of the rooms run at once, each of which reads its room and adds it.
AppendsRoom(r) ==
    /\ TakesRoom("append", r)
    /\ todo' = add_new_room(r, ReadInfo(r)) \o AppendRooms(Head(todo).rooms \ {r}) \o Tail(todo)
    /\ known' = With(known, r, ReadInfo(r))
    /\ UNCHANGED <<allJoined, listenerVars, queue>>

LoopNext ==
    \/ \E r \in Rooms : InsertDiff(r) \/ SetDiff(r) \/ MoveDiff(r) \/ RemoveDiff(r)
    \/ \E rooms \in SUBSET Rooms : ResetDiff(rooms) \/ AppendDiff(rooms)
    \/ ClearDiff
    \/ PostsUpdate \/ InsertsDetails \/ DropsDetails \/ DropsAll
    \/ \E r \in Rooms : RemovesRoom(r) \/ AppendsRoom(r)

----------------------------------------------------------------------------
(* The listener of add_room_invite_event_handler: a task for each event.    *)

HearsInvite(r) ==
    /\ listener[r] = "heard"
    /\ IF live[r].state = "Invited" /\ r \notin enqueued
       THEN /\ enqueued' = enqueued \union {r}
            /\ listener' = [listener EXCEPT ![r] = live[r].name]
       ELSE listener' = [listener EXCEPT ![r] = "idle"] /\ UNCHANGED enqueued
    /\ UNCHANGED <<sdkVars, loopVars, queue, ui>>

AddsInvite(r) ==
    /\ listener[r] \in Name /\ listener' = [listener EXCEPT ![r] = "idle"]
    /\ queue' = Append(queue, AddInvitedRoom(r, listener[r]))
    /\ UNCHANGED <<sdkVars, loopVars, enqueued, ui>>

----------------------------------------------------------------------------
(* The widget: handle_rooms_list_updates takes one update after the other   *)
(* until the queue is empty, and nothing else runs on the main thread.      *)

ShouldDisplay(r, name) == r \notin ui.hidden /\ (ui.filtered => name = "Match")

ListOf(room) == CASE room.direct -> "direct"
                  [] ~room.direct /\ room.tag # "none" -> room.tag
                  [] OTHER -> "regular"

\* set_room_id_displayed
Displayed(list, r, should) == IF should THEN ui.shown[list] \union {r} ELSE ui.shown[list] \ {r}

\* Mutated form of Generated: what is hidden is forgotten.
GeneratedByKeywords(w) ==
    [l \in Lists |->
        IF l = "invited"
        THEN {r \in DOMAIN w.invited : w.filtered => w.invited[r] = "Match"}
        ELSE {r \in DOMAIN w.joined : /\ w.filtered => w.joined[r].name = "Match"
                                      /\ ListOf(w.joined[r]) = l}]

\* generate_displayed_rooms
Generated(w) ==
    LET Should(r, name) == r \notin w.hidden /\ (w.filtered => name = "Match")
    IN  [l \in Lists |->
            IF l = "invited"
            THEN {r \in DOMAIN w.invited : Should(r, w.invited[r])}
            ELSE {r \in DOMAIN w.joined : /\ Should(r, w.joined[r].name)
                                          /\ ListOf(w.joined[r]) = l}]

\* The first of some lists that shows the room is the one that loses it.
WithoutFirst(lists, r) ==
    LET i == SelectInSeq(lists, LAMBDA l : r \in ui.shown[l])
    IN  IF i = 0 THEN ui.shown ELSE [ui.shown EXCEPT ![lists[i]] = @ \ {r}]

Handles(kind) ==
    /\ queue # <<>> /\ Head(queue).is = kind /\ queue' = Tail(queue)
    /\ UNCHANGED <<sdkVars, loopVars, listenerVars>>
Becomes(widget) == ui' = [widget EXCEPT !.draining = TRUE]

HandlesAddInvitedRoom ==
    /\ Handles("AddInvitedRoom")
    /\ LET r == Head(queue).room
           name == Head(queue).name
       IN  Becomes([ui EXCEPT !.invited = With(@, r, name),
                              !.shown["invited"] = Displayed("invited", r, ShouldDisplay(r, name))])

HandlesAddJoinedRoom ==
    /\ Handles("AddJoinedRoom")
    /\ LET r == Head(queue).room
           room == Head(queue).info
           shown == IF ShouldDisplay(r, room.name)
                    THEN [ui.shown EXCEPT ![ListOf(room)] = @ \union {r}] ELSE ui.shown
       IN  Becomes([ui EXCEPT !.joined = With(@, r, room),
                              !.invited = Without(@, r),
                              !.shown = IF r \in DOMAIN ui.invited
                                        THEN [shown EXCEPT !["invited"] = @ \ {r}] ELSE shown])

\* A joined room first; else an invite.
HandlesUpdateRoomName ==
    /\ Handles("UpdateRoomName")
    /\ LET r == Head(queue).room
           name == Head(queue).name
           list == IF r \in DOMAIN ui.joined THEN ListOf(ui.joined[r]) ELSE "invited"
           shown == Displayed(list, r, ShouldDisplay(r, name))
       IN  \/ /\ r \in DOMAIN ui.joined
              /\ Becomes([ui EXCEPT !.joined[r].name = name, !.shown[list] = shown])
           \/ /\ r \in DOMAIN ui.invited \ DOMAIN ui.joined
              /\ Becomes([ui EXCEPT !.invited[r] = name, !.shown[list] = shown])
           \/ r \notin DOMAIN ui.joined \union DOMAIN ui.invited /\ Becomes(ui)

HandlesUpdateIsDirect ==
    /\ Handles("UpdateIsDirect")
    /\ LET r == Head(queue).room
           direct == Head(queue).direct
           from == IF ui.joined[r].direct THEN <<"direct">>
                   ELSE <<"favorite", "low_priority", "regular">>
           room == [ui.joined[r] EXCEPT !.direct = direct]
           removed == WithoutFirst(from, r)
       IN  IF r \in DOMAIN ui.joined /\ ui.joined[r].direct # direct
           THEN Becomes([ui EXCEPT
                    !.joined[r] = room,
                    !.shown = IF ShouldDisplay(r, room.name)
                              THEN [removed EXCEPT ![ListOf(room)] = @ \union {r}]
                              ELSE removed])
           ELSE Becomes(ui)

HandlesTags ==
    /\ Handles("Tags")
    /\ LET r == Head(queue).room
           tagged == [ui EXCEPT !.joined[r].tag = Head(queue).tag]
       IN  IF r \in DOMAIN ui.joined
           THEN Becomes([tagged EXCEPT !.shown = Generated(tagged)]) ELSE Becomes(ui)

HandlesRemoveRoom ==
    /\ Handles("RemoveRoom")
    /\ LET r == Head(queue).room
           list == IF r \in DOMAIN ui.joined THEN ListOf(ui.joined[r]) ELSE "invited"
           gone == [ui EXCEPT !.hidden = @ \ {r}]
       IN  \/ /\ r \in DOMAIN ui.joined
              /\ Becomes([gone EXCEPT !.joined = Without(@, r), !.shown[list] = @ \ {r}])
           \/ /\ r \in DOMAIN ui.invited \ DOMAIN ui.joined
              /\ Becomes([gone EXCEPT !.invited = Without(@, r), !.shown[list] = @ \ {r}])
           \/ r \notin DOMAIN ui.joined \union DOMAIN ui.invited /\ Becomes(gone)

HandlesClearRooms ==
    /\ Handles("ClearRooms")
    /\ Becomes([ui EXCEPT !.joined = Nothing, !.invited = Nothing,
                          !.shown = [l \in Lists |-> {}]])

HandlesHideRoom ==
    /\ Handles("HideRoom")
    /\ LET lists == <<"regular", "direct", "invited", "favorite", "low_priority">>
           r == Head(queue).room
       IN  Becomes([ui EXCEPT !.hidden = @ \union {r}, !.shown = WithoutFirst(lists, r)])

\* An invite is not put back.
HandlesUnhideRoom ==
    /\ Handles("UnhideRoom")
    /\ LET r == Head(queue).room
           unhidden == [ui EXCEPT !.hidden = @ \ {r}]
       IN  IF /\ r \in ui.hidden /\ r \in DOMAIN ui.joined
              /\ ui.filtered => ui.joined[r].name = "Match"
           THEN Becomes([unhidden EXCEPT !.shown[ListOf(ui.joined[r])] = @ \union {r}])
           ELSE Becomes(unhidden)

HandlesRoomOrderUpdate ==
    /\ Handles("RoomOrderUpdate")
    /\ Becomes([ui EXCEPT !.needsSort = TRUE])

DrainEnds ==
    /\ queue = <<>> /\ ui.draining
    /\ ui' = [ui EXCEPT !.draining = FALSE, !.needsSort = FALSE,
                        !.shown = IF ui.needsSort THEN Generated(ui) ELSE @]
    /\ UNCHANGED <<sdkVars, loopVars, listenerVars, queue>>

HandlesUpdate ==
    \/ HandlesAddInvitedRoom \/ HandlesAddJoinedRoom \/ HandlesUpdateRoomName
    \/ HandlesUpdateIsDirect \/ HandlesTags \/ HandlesRemoveRoom \/ HandlesClearRooms
    \/ HandlesHideRoom \/ HandlesUnhideRoom \/ HandlesRoomOrderUpdate \/ DrainEnds

\* MainFilterAction::Changed
FilterChanges ==
    /\ ~ui.draining /\ Spend("filters", MaxFilters)
    /\ LET changed == [ui EXCEPT !.filtered = ~@]
       IN  ui' = [changed EXCEPT !.shown = Generated(changed)]
    /\ UNCHANGED <<live, diffs, leaving, creating, loopVars, listenerVars, queue>>

\* App: LeaveRoomResultAction::Left
HandlesLeft(r) ==
    /\ ~ui.draining /\ r \in leaving /\ leaving' = leaving \ {r}
    /\ queue' = Append(queue, HideRoom(r))
    /\ UNCHANGED <<live, diffs, creating, count, loopVars, listenerVars, ui>>

\* upsert_created_room_placeholder, for a space as for a room
HandlesCreated(created) ==
    /\ ~ui.draining /\ creating' = creating \ {created}
    /\ LET r == created.room
           name == created.name
           room == [direct |-> FALSE, tag |-> "none", name |-> name, placeholder |-> TRUE]
           upserted == [ui EXCEPT !.joined = IF r \in DOMAIN @ THEN [@ EXCEPT ![r].name = name]
                                             ELSE With(@, r, room)]
       IN  ui' = [upserted EXCEPT !.shown = Generated(upserted)]
    /\ UNCHANGED <<live, diffs, leaving, count, loopVars, listenerVars, queue>>

RoomsListNext ==
    \/ ListIsReset
    \/ \E r \in Rooms : RoomChanges(r) \/ UserLeaves(r) \/ UserCreates(r)
    \/ LoopNext
    \/ \E r \in Rooms : HearsInvite(r) \/ AddsInvite(r)
    \/ HandlesUpdate \/ FilterChanges
    \/ \E r \in Rooms : HandlesLeft(r)
    \/ \E created \in creating : HandlesCreated(created)

RoomsListSpec == RoomsListInit /\ [][RoomsListNext]_roomsListVars

----------------------------------------------------------------------------
(* Orders of events that the code relies on, and that nothing in it         *)
(* enforces.                                                                *)

\* A room with an entry is not seen to become a knock, nor a joined one an invite:
\* it is left first.
StepByStep == /\ \A r \in Rooms : live[r].state = "Joined" => live'[r].state \notin {"Invited", "Knocked"}
              /\ \A r \in DOMAIN known \cap DOMAIN known' :
                    /\ known[r].state = "Joined" => known'[r].state # "Invited"
                    /\ known[r].state \in {"Joined", "Invited"} => known'[r].state # "Knocked"

\* HideRoom is on the queue before the loop hears that the room was left.
HiddenBeforeRemoved == leaving' \subseteq DOMAIN known'

\* The listener's invite, and the placeholder, come before the room changes.
InTime == \A r \in Rooms :
    listener[r] # "idle" \/ r \in {c.room : c \in creating} => live'[r] = live[r]

\* The SDK does not clear its list while a room is hidden.
NoneHidden ==
    diffs # <<>> /\ Head(diffs).kind = "Clear" /\ diffs' # diffs /\ todo' # todo =>
        ui.hidden = {} /\ \A i \in DOMAIN queue : queue[i].is # "HideRoom"

\* Whatever happens, but step by step.
SteadyNext == RoomsListNext /\ StepByStep
SteadySpec == RoomsListInit /\ [][SteadyNext]_roomsListVars

\* In order, and what is listed comes from the SDK's list alone: no invite of the
\* listener, and no placeholder of a room that is created.
ListedNext ==
    /\ \/ ListIsReset
       \/ \E r \in Rooms : RoomChanges(r) \/ UserLeaves(r) \/ HandlesLeft(r)
       \/ LoopNext \/ HandlesUpdate \/ FilterChanges
    /\ StepByStep /\ HiddenBeforeRemoved /\ NoneHidden
ListedSpec == RoomsListInit /\ [][ListedNext]_roomsListVars

----------------------------------------------------------------------------
(* Properties                                                               *)

Settled == /\ diffs = <<>> /\ todo = <<>> /\ queue = <<>> /\ ~ui.draining
           /\ leaving = {} /\ creating = {} /\ \A r \in Rooms : listener[r] = "idle"

\* Once every diff and every update is handled, the lists show what the SDK
\* lists, each room in the list it belongs to, as far as the keywords match.
ShownIsListed ==
    Settled =>
        LET Of(r) == IF live[r].state = "Invited" THEN "invited" ELSE ListOf(live[r])
        IN  ui.shown = [l \in Lists |->
                {r \in Listed : /\ live[r].state \in {"Invited", "Joined"}
                                /\ Of(r) = l
                                /\ should_display_joined_room_entry(live[r])
                                /\ ui.filtered => live[r].name = "Match"}]

Removal(r) == \/ \E i \in DOMAIN queue : queue[i] \in {RemoveRoom(r), ClearRooms}
              \/ \E i \in DOMAIN todo : todo[i] \in {Post(RemoveRoom(r)), Post(ClearRooms)}

\* A joined room of the list has its details, until its removal is on its way;
\* and the details that a room screen may hold the endpoints of are not replaced.
DetailsServeTheList ==
    /\ \A r \in DOMAIN ui.joined :
          r \in allJoined \/ Removal(r) \/ ui.joined[r].placeholder
    /\ todo # <<>> /\ Head(todo).does = "insert" => Head(todo).room \notin allJoined
=============================================================================
