----------------------------- MODULE LayoutReview -----------------------------
(***************************************************************************)
(* SpaceLayoutsService: the projects of one venue.  Owners submit layouts  *)
(* and ask for changes, each a project of its own with a copy of the       *)
(* layout it started from; the admin panel approves one with a layout it   *)
(* may have adjusted, and the project approved last is the layout in       *)
(* force.  Rooms are added to and edited in the layout that is in force at *)
(* the approval; every other approval takes the copy.                      *)
(***************************************************************************)
EXTENDS LayoutTables

CONSTANTS
    MaxProjects,    \* bound: SpaceLayoutProject rows, in the order of their creation
    MaxLayouts,     \* bound: layouts saved or approved, after which nobody asks for more
    Handlers,       \* HTTP requests that can be in flight
    Interleaved,    \* whether other requests run while one is in flight
    Packages,       \* layouts an owner submits, with the space that was photographed
    Drafts,         \* layouts as the admin draws them
    AskedRooms, AskedTables,   \* bound: what changes are asked for
    Photos,         \* photos sent with a table, NoPhoto for none
    None            \* no project, no label

VARIABLES
    project,        \* SpaceLayoutProject rows; approvedAt counts approvals
    approvals,      \* approvals so far
    saves,          \* layouts saved so far
    pc, frame       \* handlers

vars == <<project, approvals, saves, pc, frame>>

LayoutReviewBounds ==
    /\ MaxProjects \in Nat /\ MaxLayouts \in Nat
    /\ Interleaved \in BOOLEAN
    /\ Packages \subseteq [layout: Plans, space: Spaces] /\ Drafts \subseteq Plans
    /\ AskedRooms \subseteq RoomNames /\ Photos \subseteq Shots \cup {NoPhoto}

Projects  == 1..MaxProjects
Statuses  == {"NONE", "DRAFT", "AI_SUGGESTED", "SAVED", "PENDING_CHIN_CHIN_REVIEW",
              "CHIN_CHIN_CHANGES_REQUESTED", "APPROVED"}
\* TABLES stands for ADD_CHIN_CHIN_TABLE and UPDATE_CHIN_CHIN_TABLES.
Changes   == {"COMPLETE", "ADD_ROOM", "TABLES", "EDIT_SPACE", "DELETE_ROOM", "HIDE_ROOM"}
Rows      == [status: Statuses, asked: Changes, saved: Changes, label: RoomNames \cup {None},
              layout: Plans, space: Spaces, submitted: BOOLEAN, approvedAt: Nat, panel: BOOLEAN]
Frames    == [project: 0..MaxProjects, row: Rows, dto: Plans, forced: BOOLEAN]
Steps     == {"idle", "create", "merge", "space", "approve"}
\* asked: the change reviewSubmission names; saved: the one savedLayout names; panel: the
\* layout went through ensureUniqueLayoutTableIds.
NoProject == [status |-> "NONE", asked |-> "COMPLETE", saved |-> "COMPLETE", label |-> None,
              layout |-> <<>>, space |-> <<>>, submitted |-> FALSE, approvedAt |-> 0, panel |-> FALSE]
Idle      == [project |-> 0, row |-> NoProject, dto |-> <<>>, forced |-> FALSE]

Init ==
    /\ project = [p \in Projects |-> NoProject]
    /\ approvals = 0 /\ saves = 0
    /\ pc = [h \in Handlers |-> "idle"]
    /\ frame = [h \in Handlers |-> Idle]

-----------------------------------------------------------------------------
(* Queries. *)

Stored      == {p \in Projects : project[p].status # "NONE"}
Approved    == {p \in Projects : project[p].status = "APPROVED"}
Pending     == {p \in Projects : project[p].status = "PENDING_CHIN_CHIN_REVIEW"}
LastOf(S)   == {p \in S : \A q \in S : project[q].approvedAt <= project[p].approvedAt}

\* The layout in force, leaving out the project under review.
LatestApproved(p) == LastOf(Approved \ {p})

\* The project a change starts from: the one in force, else the last one touched.
Source == IF Approved # {} THEN LastOf(Approved) ELSE Stored

IsKind(row, kind) == kind \in {row.asked, row.saved}

MayDecide       == approvals + saves < MaxLayouts
Quiet           == Interleaved \/ \A h \in Handlers : pc[h] = "idle"
Goto(h, label)  == pc' = [pc EXCEPT ![h] = label]
Finish(h)       == Goto(h, "idle") /\ frame' = [frame EXCEPT ![h] = Idle]

\* A row is added.
Insert(row) ==
    LET p == Cardinality(Stored) + 1 IN
    p \in Projects /\ project' = [project EXCEPT ![p] = row]

Submitted(kind, layout, space) ==
    [NoProject EXCEPT !.status = "PENDING_CHIN_CHIN_REVIEW", !.asked = kind, !.saved = kind,
                      !.layout = layout, !.space = space, !.submitted = TRUE]

-----------------------------------------------------------------------------
(* The owner.  None of these asks for the state of the project. *)

Create(k) ==
    /\ Quiet /\ MayDecide
    /\ Insert([NoProject EXCEPT !.status = "DRAFT", !.space = k.space])
    /\ UNCHANGED <<approvals, saves, pc, frame>>

\* An approved project too is taken out of force; its layout and approvedAt stay.
GenerateSuggestion(p) ==
    /\ Quiet /\ MayDecide /\ p \in Stored
    /\ project' = [project EXCEPT ![p].status = "AI_SUGGESTED"]
    /\ UNCHANGED <<approvals, saves, pc, frame>>

\* saveLayout drops what else savedLayout held.
SaveLayout(p, k) ==
    /\ Quiet /\ MayDecide /\ p \in Stored
    /\ saves' = saves + 1
    /\ project' = [project EXCEPT ![p] = [@ EXCEPT !.status = "SAVED", !.saved = "COMPLETE",
                                                   !.layout = k.layout, !.panel = FALSE]]
    /\ UNCHANGED <<approvals, pc, frame>>

\* submitForReview drops what else reviewSubmission held.
SubmitForReview(p) ==
    /\ Quiet /\ MayDecide /\ p \in Stored /\ project[p].layout # <<>>
    /\ project' = [project EXCEPT ![p] = [@ EXCEPT !.status = "PENDING_CHIN_CHIN_REVIEW",
                                                   !.asked = "COMPLETE", !.submitted = TRUE]]
    /\ UNCHANGED <<approvals, saves, pc, frame>>

\* submitCompleteForReview: a new venue, or a room to add, whatever is pending.
SubmitComplete(k, kind) ==
    /\ Quiet /\ MayDecide
    /\ Insert(Submitted(kind, k.layout, k.space))
    /\ UNCHANGED <<approvals, saves, pc, frame>>

\* ensureNoPendingSpaceReviewForVenue and the source are read, the request is created later.
Begin(h, kind, label, s, layout) ==
    /\ Quiet /\ MayDecide /\ pc[h] = "idle" /\ Pending = {}
    /\ Goto(h, "create")
    /\ frame' = [frame EXCEPT ![h] = [Idle EXCEPT !.row =
                    [Submitted(kind, layout, project[s].space) EXCEPT !.label = label]]]
    /\ UNCHANGED <<project, approvals, saves>>

\* requestTableAdditionPreview and requestTableUpdatesPreview
RequestTable(h, s, id, photo) ==
    /\ s \in Source /\ id \in Ids(project[s].layout)
    /\ Begin(h, "TABLES", None, s, Marked(project[s].layout, id, photo))

\* requestTableDeletionPreview: the table is taken out by the admin's layout.
RequestTableDeletion(h, s, id) ==
    /\ s \in Source /\ id \in Ids(project[s].layout)
    /\ Begin(h, "TABLES", None, s, project[s].layout)

\* requestSpaceChangePreview with ensureSpaceChangeTarget
RequestSpaceChange(h, s, kind, label) ==
    /\ s \in Source /\ project[s].layout # <<>>
    /\ \/ label \in Labels(project[s].layout)
       \/ kind = "EDIT_SPACE" /\ Len(project[s].layout) <= 1
    /\ kind = "HIDE_ROOM" => Cardinality(Visible(project[s].layout)) > 1
    /\ Begin(h, kind, label, s, project[s].layout)

RequestCreate(h) ==
    /\ pc[h] = "create"
    /\ Insert(frame[h].row)
    /\ Finish(h)
    /\ UNCHANGED <<approvals, saves>>

-----------------------------------------------------------------------------
(* The review. *)

\* The layout as it is, or one drawn anew, from whatever copy the admin had.
Adjusted(layout) ==
    {layout} \cup Drafts

\* approvedAt: later than all approvals so far.
Dated == approvals + 1

\* review with "approve", the owner's own endpoint: an adjusted layout, here the one that is
\* saved, replaces savedLayout.
ReviewApprove(p) ==
    /\ Quiet /\ MayDecide /\ p \in Stored /\ project[p].submitted
    /\ approvals' = approvals + 1
    /\ \/ project' = [project EXCEPT ![p] = [@ EXCEPT !.status = "APPROVED", !.approvedAt = Dated]]
       \/ project' = [project EXCEPT ![p] = [@ EXCEPT !.status = "APPROVED", !.approvedAt = Dated,
                          !.saved = "COMPLETE", !.layout = WithUniqueIds(project[p].layout),
                          !.panel = TRUE]]
    /\ UNCHANGED <<saves, pc, frame>>

\* review with any other decision; the adjusted layout is left out.
ReviewReject(p) ==
    /\ Quiet /\ MayDecide /\ p \in Stored /\ project[p].submitted
    /\ project' = [project EXCEPT ![p] = [@ EXCEPT !.status = "CHIN_CHIN_CHANGES_REQUESTED",
                                                   !.approvedAt = 0]]
    /\ UNCHANGED <<approvals, saves, pc, frame>>

\* approveAdjustedLayoutPreview, whatever the project's state.
ApproveBegin(h, p, dto, forced) ==
    /\ Quiet /\ MayDecide /\ pc[h] = "idle" /\ p \in Stored
    /\ Goto(h, "merge")
    /\ frame' = [frame EXCEPT ![h] = [Idle EXCEPT !.project = p, !.row = project[p],
                                                  !.dto = dto, !.forced = forced]]
    /\ UNCHANGED <<project, approvals, saves>>

Refused(h) == Finish(h) /\ UNCHANGED <<project, approvals, saves>>

Merged(h, layout, label) ==
    /\ Goto(h, label)
    /\ frame' = [frame EXCEPT ![h].row.layout = layout]
    /\ UNCHANGED <<project, approvals, saves>>

\* mergeAdditionalRoomLayout: an added room goes to the layout in force, forced or not.
MergeAdditional(h) ==
    LET row == frame[h].row  dto == frame[h].dto IN
    /\ pc[h] = "merge" /\ IsKind(row, "ADD_ROOM")
    /\ \/ /\ LatestApproved(frame[h].project) = {}
          /\ Merged(h, dto, "space")
       \/ \E s \in LatestApproved(frame[h].project) :
             /\ NewRooms(project[s].layout, dto, row.space) # <<>>
             /\ Merged(h, MergedAdditional(project[s].layout, dto, row.space), "space")
       \/ \E s \in LatestApproved(frame[h].project) :
             /\ NewRooms(project[s].layout, dto, row.space) = <<>>
             /\ Refused(h)

\* mergeAdditionalRoomSpace reads the project in force anew.
MergeSpace(h) ==
    /\ pc[h] = "space"
    /\ \E space \in IF LatestApproved(frame[h].project) = {} THEN {frame[h].row.space}
                    ELSE {MergedSpace(project[s].space, frame[h].row.space) :
                             s \in LatestApproved(frame[h].project)} :
          frame' = [frame EXCEPT ![h].row.space = space]
    /\ Goto(h, "approve")
    /\ UNCHANGED <<project, approvals, saves>>

\* mergeEditedRoomLayout: an edited room goes to the layout in force.
MergeEdited(h) ==
    LET row == frame[h].row  dto == frame[h].dto IN
    /\ pc[h] = "merge" /\ ~frame[h].forced
    /\ IsKind(row, "EDIT_SPACE") /\ ~IsKind(row, "ADD_ROOM")
    /\ \/ /\ LatestApproved(frame[h].project) = {}
          /\ Merged(h, dto, "approve")
       \/ \E s \in LatestApproved(frame[h].project) :
             /\ row.label \in Labels(dto) \cap Labels(project[s].layout)
             /\ Merged(h, MergedEdited(project[s].layout, dto, row.label), "approve")
       \/ \E s \in LatestApproved(frame[h].project) :
             /\ row.label \notin Labels(dto) \cap Labels(project[s].layout)
             /\ Refused(h)

\* Any other approval replaces the layout in force by the admin's.
TakeLayout(h) ==
    LET row == frame[h].row  dto == frame[h].dto IN
    /\ pc[h] = "merge"
    /\ ~IsKind(row, "ADD_ROOM") /\ (IsKind(row, "EDIT_SPACE") => frame[h].forced)
    /\ \/ /\ frame[h].forced \/ ~(IsKind(row, "DELETE_ROOM") \/ IsKind(row, "HIDE_ROOM"))
          /\ Merged(h, dto, "approve")
       \/ /\ ~frame[h].forced /\ IsKind(row, "DELETE_ROOM")
          /\ Merged(h, Without(dto, {row.label}), "approve")
       \/ /\ ~frame[h].forced /\ IsKind(row, "HIDE_ROOM")
          /\ Cardinality(Visible(dto)) > 1
          /\ Merged(h, Hidden(dto, row.label), "approve")
       \/ /\ ~frame[h].forced /\ IsKind(row, "HIDE_ROOM")
          /\ Cardinality(Visible(dto)) <= 1
          /\ Refused(h)

\* The write keeps what it does not name: saveLayout and submitForReview may have been there.
ApproveWrite(h) ==
    LET p == frame[h].project  row == frame[h].row IN
    /\ pc[h] = "approve"
    /\ project' = [project EXCEPT ![p] =
                      [@ EXCEPT !.status = "APPROVED", !.asked = row.asked, !.saved = row.saved,
                                !.submitted = TRUE, !.layout = WithUniqueIds(row.layout),
                                !.space = IF IsKind(row, "ADD_ROOM") THEN row.space ELSE project[p].space,
                                !.approvedAt = Dated, !.panel = TRUE]]
    /\ approvals' = approvals + 1
    /\ Finish(h)
    /\ UNCHANGED saves

-----------------------------------------------------------------------------

Owner(h) ==
    \/ \E s \in Projects :
          \/ \E id \in AskedTables :
                \/ RequestTableDeletion(h, s, id)
                \/ \E photo \in Photos : RequestTable(h, s, id, photo)
          \/ \E kind \in {"EDIT_SPACE", "DELETE_ROOM", "HIDE_ROOM"} :
                \E label \in AskedRooms : RequestSpaceChange(h, s, kind, label)
    \/ RequestCreate(h)

Panel(h) ==
    \/ \E p \in Projects, forced \in BOOLEAN :
          \E dto \in Adjusted(project[p].layout) : dto # <<>> /\ ApproveBegin(h, p, dto, forced)
    \/ MergeAdditional(h) \/ MergeSpace(h) \/ MergeEdited(h) \/ TakeLayout(h) \/ ApproveWrite(h)

Next ==
    \/ \E k \in Packages :
          \/ Create(k)
          \/ \E p \in Projects : SaveLayout(p, k)
          \/ \E kind \in {"COMPLETE", "ADD_ROOM"} : SubmitComplete(k, kind)
    \/ \E p \in Projects :
          GenerateSuggestion(p) \/ SubmitForReview(p) \/ ReviewReject(p) \/ ReviewApprove(p)
    \/ \E h \in Handlers : Owner(h) \/ Panel(h)

Spec == Init /\ [][Next]_vars

-----------------------------------------------------------------------------

\* Rows, handlers and counters stay in their range, and no row was approved after the last
\* approval.
LayoutTypes ==
    /\ project \in [Projects -> Rows]
    /\ approvals \in Nat /\ saves \in 0..MaxLayouts
    /\ \A p \in Projects : project[p].approvedAt <= approvals
    /\ pc \in [Handlers -> Steps] /\ frame \in [Handlers -> Frames]

\* Tables of a layout the panel approved have identities of their own, across rooms too:
\* reservations and live selections name a table by nothing else.
TableIdsUnique == \A p \in Approved : project[p].panel => UniqueIds(project[p].layout)

\* Approvals by one handler at a time, for the layout the merge started from.
Approves(h, p) == pc[h] = "approve" /\ frame[h].project = p /\ pc'[h] = "idle"

\* A room is added to the layout in force, whatever was approved since it was asked for:
\* the rooms and tables that were there stay as they are, by name, and each of the new
\* room's photos shows one table.
RoomAddedWhole ==
    \A h \in Handlers, p \in Projects, s \in Projects :
          Approves(h, p) /\ IsKind(frame[h].row, "ADD_ROOM") /\ s \in LatestApproved(p)
              /\ project[s].panel
          => LET old == project[s].layout  new == project'[p].layout IN
             /\ Len(new) > Len(old) /\ SubSeq(new, 1, Len(old)) = old
             /\ \A i \in (Len(old) + 1)..Len(new) :
                   \A j, k \in DOMAIN new[i].tables :
                      new[i].tables[j].photo = new[i].tables[k].photo
                          => j = k \/ new[i].tables[j].photo = NoPhoto

\* Two rooms are the same but for the identities of their tables.
SameButIds(a, b) ==
    /\ a.label = b.label /\ a.hidden = b.hidden /\ Len(a.tables) = Len(b.tables)
    /\ \A j \in DOMAIN b.tables :
          a.tables[j].chinChin = b.tables[j].chinChin /\ a.tables[j].photo = b.tables[j].photo

\* A table in front of the j-th of the i-th room has this identity.
TakenBefore(rooms, i, j, id) ==
    \E k \in DOMAIN rooms : \E l \in DOMAIN rooms[k].tables :
        (k < i \/ (k = i /\ l < j)) /\ rooms[k].tables[l].id = id

\* An edit of one room, not forced, leaves the other rooms of the layout in force where and
\* as they are, whatever was approved since it was asked for.  A table of theirs changes its
\* identity only if a table in front of it has taken it, as the edited room's may have.
OtherRoomsKept ==
    \A h \in Handlers, p \in Projects, s \in Projects :
          Approves(h, p) /\ IsKind(frame[h].row, "EDIT_SPACE") /\ ~IsKind(frame[h].row, "ADD_ROOM")
              /\ ~frame[h].forced /\ s \in LatestApproved(p)
          => LET old == project[s].layout  new == project'[p].layout IN
             /\ Len(new) = Len(old)
             /\ \A i \in DOMAIN old : old[i].label # frame[h].row.label =>
                   /\ SameButIds(new[i], old[i])
                   /\ \A j \in DOMAIN old[i].tables :
                         LET id == old[i].tables[j].id IN
                         new[i].tables[j].id = id \/ TakenBefore(new, i, j, id)
=============================================================================
