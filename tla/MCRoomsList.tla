----------------------------- MODULE MCRoomsList ------------------------------
(***************************************************************************)
(* Instances of RoomsList for TLC.  The parts of the first differ in what  *)
(* happens to one room, the other being left alone: it changes and the     *)
(* keywords do; the user leaves it; the user creates it; it is a space.    *)
(*                                                                         *)
(* The parts take place in an order that the code relies on, and that      *)
(* nothing in it enforces: see what follows of the other orders in         *)
(* README.md.                                                              *)
(***************************************************************************)
EXTENDS RoomsList

VARIABLE part

mcVars == <<part, roomsListVars>>

MC_Parts == {"changes", "leave", "create", "space"}
MC_Still == CHOOSE i \in RoomInfo : i.state = "Left" /\ i.tag = "none"

RoomsPartsInit ==
    /\ RoomsListInit /\ part \in MC_Parts
    /\ \A r \in Rooms : (r \in Spaces) # (part = "space") => live[r] = MC_Still

RoomsPartsNext ==
    /\ RoomsListNext /\ StepByStep /\ HiddenBeforeRemoved /\ InTime /\ NoneHidden
    /\ \A r \in Rooms : (r \in Spaces) # (part = "space") => live'[r] = live[r]
    /\ part # "leave" => count'.leaves = 0
    /\ part # "create" => count'.created = 0
    /\ part # "changes" => count'.changes < MaxChanges
    /\ part \in {"leave", "create"} => count'.filters = 0
    /\ UNCHANGED part

RoomsPartsSpec == RoomsPartsInit /\ [][RoomsPartsNext]_mcVars
=============================================================================
