----------------------------- MODULE LayoutTables -----------------------------
(***************************************************************************)
(* The layouts of SpaceLayoutsService as values: what an approval makes of *)
(* the rooms it is given.  A layout is a sequence of rooms, a room has a   *)
(* label and a sequence of tables.                                         *)
(*                                                                         *)
(* The identity of a table is a sequence: a name somebody gave it, with    *)
(* the room's label in front and a number at the end where the service     *)
(* makes names unique.                                                     *)
(***************************************************************************)
EXTENDS Naturals, Sequences, FiniteSets

CONSTANTS RoomNames, TableNames, Shots, NoPhoto

TableIds == Seq(RoomNames \cup TableNames \cup Nat)
Tables   == [id: TableIds, chinChin: BOOLEAN, photo: Shots \cup {NoPhoto}]
Rooms    == [label: RoomNames, hidden: BOOLEAN, tables: Seq(Tables)]
Plans    == Seq(Rooms)
\* What was photographed, room by room.
Spaces   == Seq([label: RoomNames, photos: Seq(Shots)])

Labels(rooms)  == {rooms[i].label : i \in DOMAIN rooms}
Ids(rooms)     == UNION {{rooms[i].tables[j].id : j \in DOMAIN rooms[i].tables} : i \in DOMAIN rooms}
Visible(rooms) == {i \in DOMAIN rooms : ~rooms[i].hidden}

\* No two tables have the same identity.
UniqueIds(rooms) ==
    \A i, k \in DOMAIN rooms :
        \A j \in DOMAIN rooms[i].tables, l \in DOMAIN rooms[k].tables :
            rooms[i].tables[j].id = rooms[k].tables[l].id => i = k /\ j = l

Least(S) == CHOOSE n \in S : \A m \in S : n <= m

\* The rooms with one of these labels, in their order.
WithLabels(rooms, labels) ==
    LET kept[i \in 0..Len(rooms)] ==
            IF i = 0 THEN <<>>
            ELSE IF rooms[i].label \in labels THEN Append(kept[i - 1], rooms[i])
            ELSE kept[i - 1]
    IN  kept[Len(rooms)]

Without(rooms, labels) == WithLabels(rooms, Labels(rooms) \ labels)

-----------------------------------------------------------------------------
(* Identities of tables. *)

\* nextUniqueLayoutTableId
NextUnique(base, used) ==
    IF base \notin used THEN base
    ELSE Append(base, Least({n \in 2..(Cardinality(used) + 2) : Append(base, n) \notin used}))

\* A name that is taken gets the room's label in front.
UniqueId(id, label, used) == NextUnique(IF id \in used THEN <<label>> \o id ELSE id, used)

\* usedTableIds once the room's first j tables have theirs.
TakenInRoom(room, used) ==
    LET taken[j \in 0..Len(room.tables)] ==
            IF j = 0 THEN used
            ELSE taken[j - 1] \cup {UniqueId(room.tables[j].id, room.label, taken[j - 1])}
    IN  taken

Renamed(room, used) ==
    [room EXCEPT !.tables = [j \in DOMAIN room.tables |->
        [room.tables[j] EXCEPT !.id = UniqueId(@, room.label, TakenInRoom(room, used)[j - 1])]]]

\* usedTableIds once the first i rooms have theirs.
TakenInRooms(rooms, used) ==
    LET taken[i \in 0..Len(rooms)] ==
            IF i = 0 THEN used ELSE TakenInRoom(rooms[i], taken[i - 1])[Len(rooms[i].tables)]
    IN  taken

\* In the order of the rooms, the first keeps its name.
RoomsRenamed(rooms, used) ==
    [i \in DOMAIN rooms |-> Renamed(rooms[i], TakenInRooms(rooms, used)[i - 1])]

\* Seeded fault: identities are made unique within each room.
UniquePerRoom(rooms) == [i \in DOMAIN rooms |-> Renamed(rooms[i], {})]

\* ensureUniqueLayoutTableIds
WithUniqueIds(rooms) == RoomsRenamed(rooms, {})

-----------------------------------------------------------------------------
(* Photos of a room's tables: a photo shows one table. *)

\* Seeded fault: a table keeps the photo it came with.
PhotoKept(table, photos, used) ==
    IF table.chinChin /\ \E i \in DOMAIN photos : photos[i] = table.photo THEN table.photo ELSE NoPhoto

\* ensureIncomingTablePhotoAssignment
PhotoFor(table, photos, used) ==
    LET free == {i \in DOMAIN photos : photos[i] \notin used} IN
    IF ~table.chinChin \/ free = {} THEN NoPhoto
    ELSE IF \E i \in free : photos[i] = table.photo THEN table.photo
    ELSE photos[Least(free)]

\* usedPhotoIds once the room's first j tables have theirs.
PhotosUsed(room, photos) ==
    LET shown[j \in 0..Len(room.tables)] ==
            IF j = 0 THEN {NoPhoto}
            ELSE shown[j - 1] \cup {PhotoFor(room.tables[j], photos, shown[j - 1])}
    IN  shown

WithPhotos(room, photos) ==
    [room EXCEPT !.tables = [j \in DOMAIN room.tables |->
        [room.tables[j] EXCEPT !.photo = PhotoFor(room.tables[j], photos, PhotosUsed(room, photos)[j - 1])]]]

\* photoIdsForIncomingRoom: by label, else by place.
PhotosOf(space, label, i) ==
    LET same == {k \in DOMAIN space : space[k].label = label} IN
    IF same # {} THEN space[Least(same)].photos
    ELSE IF i \in DOMAIN space THEN space[i].photos
    ELSE IF space # <<>> THEN space[1].photos
    ELSE <<>>

-----------------------------------------------------------------------------
(* What an approval makes of a layout. *)

\* The rooms of `incoming` the request is about, and that are new.
NewRooms(approved, incoming, space) ==
    LET requested == WithLabels(incoming, Labels(space)) IN
    Without(IF requested # <<>> THEN requested ELSE incoming, Labels(approved))

Photographed(rooms, space) ==
    [i \in DOMAIN rooms |-> WithPhotos(rooms[i], PhotosOf(space, rooms[i].label, i))]

\* mergeAdditionalRoomLayout
MergedAdditional(approved, incoming, space) ==
    approved \o RoomsRenamed(Photographed(NewRooms(approved, incoming, space), space), Ids(approved))

\* mergeAdditionalRoomSpace
MergedSpace(approvedSpace, space) == approvedSpace \o Without(space, Labels(approvedSpace))

Room(rooms, label) == rooms[Least({i \in DOMAIN rooms : rooms[i].label = label})]

\* Seeded fault: the layout the edit was drawn in replaces the approved one.
EditTaken(approved, edited, label) == edited

\* mergeEditedRoomLayout: the one room replaces its namesake.
MergedEdited(approved, edited, label) ==
    [i \in DOMAIN approved |->
        IF approved[i].label = label THEN Room(edited, label) ELSE approved[i]]

\* hideRequestedRoomInLayout
Hidden(rooms, label) ==
    [i \in DOMAIN rooms |-> IF rooms[i].label = label THEN [rooms[i] EXCEPT !.hidden = TRUE] ELSE rooms[i]]

\* markTableAsChinChinCandidate
Candidate(table, photo) ==
    [table EXCEPT !.chinChin = TRUE, !.photo = IF photo = NoPhoto THEN @ ELSE photo]

Marked(rooms, id, photo) ==
    [i \in DOMAIN rooms |-> [rooms[i] EXCEPT !.tables = [j \in DOMAIN rooms[i].tables |->
        IF rooms[i].tables[j].id = id THEN Candidate(rooms[i].tables[j], photo)
        ELSE rooms[i].tables[j]]]]
=============================================================================
