---------------------------- MODULE OfficeProofs ----------------------------
(***************************************************************************)
(* Theorems about Office: what is proved of one of its parts holds of the  *)
(* office, because a behaviour of the office is, for each part, one of     *)
(* that part or leaves it alone.  What a client of the lists misses is     *)
(* proved here, of the lists as the office has them.                       *)
(***************************************************************************)
EXTENDS Office, FiniteSetTheorems, TLAPS

TourProofs == INSTANCE TripsProofs WITH Groups <- Tours
StaffProofs == INSTANCE AgencyBackendProofs WITH req <- calls

-----------------------------------------------------------------------------
(* The parts *)

\* TripsProofs speaks of the same trips as Office does.
LEMMA SameTrips == Tour!Next <=> TourProofs!Next
  BY DEF
         Tour!tables, Tour!vars, Tour!NoTrip, Tour!Live, Tour!Members, Tour!Day, Tour!Today,
         Tour!LocalDay, Tour!AllIssued, Tour!NoPapers, Tour!DocsIncomplete, Tour!Preparing,
         Tour!UnderWay, Tour!GroupStatuses, Tour!Started, Tour!Ended, Tour!Status, Tour!InStatus,
         Tour!Travellers, Tour!PassportOk, Tour!NoGroupRow, Tour!NoPassports, Tour!NoTotals,
         Tour!Board, Tour!NoBoard, Tour!Disturbed, Tour!Write, Tour!WriteTrip, Tour!RemoveGroup,
         Tour!AddMember, Tour!RemoveMember, Tour!BulkUpdateMemberDocuments, Tour!WritePassport,
         Tour!Tick, Tour!Get, Tour!Query, Tour!GroupRow, Tour!QueryGroups, Tour!PassportTrips,
         Tour!QueryPassports, Tour!QueryOnTrip, Tour!QueryStatuses, Tour!VisaTrips,
         Tour!QueryVisas, Tour!Answered, Tour!Answer, Tour!Next, TourProofs!tables,
         TourProofs!vars, TourProofs!NoTrip, TourProofs!Live, TourProofs!Members, TourProofs!Day,
         TourProofs!Today, TourProofs!LocalDay, TourProofs!AllIssued, TourProofs!NoPapers,
         TourProofs!DocsIncomplete, TourProofs!Preparing, TourProofs!UnderWay,
         TourProofs!GroupStatuses, TourProofs!Started, TourProofs!Ended, TourProofs!Status,
         TourProofs!InStatus, TourProofs!Travellers, TourProofs!PassportOk, TourProofs!NoGroupRow,
         TourProofs!NoPassports, TourProofs!NoTotals, TourProofs!Board, TourProofs!NoBoard,
         TourProofs!Disturbed, TourProofs!Write, TourProofs!WriteTrip, TourProofs!RemoveGroup,
         TourProofs!AddMember, TourProofs!RemoveMember, TourProofs!BulkUpdateMemberDocuments,
         TourProofs!WritePassport, TourProofs!Tick, TourProofs!Get, TourProofs!Query,
         TourProofs!GroupRow, TourProofs!QueryGroups, TourProofs!PassportTrips,
         TourProofs!QueryPassports, TourProofs!QueryOnTrip, TourProofs!QueryStatuses,
         TourProofs!VisaTrips, TourProofs!QueryVisas, TourProofs!Answered, TourProofs!Answer,
         TourProofs!Next

LEMMA TourIsAPart == OfficeSpec => TourProofs!Spec
<1>1. OfficeInit => TourProofs!Init
  BY DEF OfficeInit, Tour!Init, TourProofs!Init, Tour!NoTrip, TourProofs!NoTrip, Tour!NoPapers,
         TourProofs!NoPapers, Tour!NoBoard, TourProofs!NoBoard, Tour!Board, TourProofs!Board,
         Tour!NoGroupRow, TourProofs!NoGroupRow, Tour!NoPassports, TourProofs!NoPassports,
         Tour!NoTotals, TourProofs!NoTotals
<1>2. [OfficeNext]_<<vars, staffVars, tourVars, pageVars, part>> => [TourProofs!Next]_(TourProofs!vars)
  <2>1. CASE part = "trips" /\ Tour!Next
    BY <2>1, SameTrips
  <2>2. CASE UNCHANGED tourVars
    BY <2>2 DEF tourVars, TourProofs!vars, TourProofs!tables
  <2>3. QED  BY <2>1, <2>2 DEF OfficeNext
<1>3. QED  BY <1>1, <1>2, PTL DEF OfficeSpec, TourProofs!Spec

-----------------------------------------------------------------------------
(* The dashboards *)

LEMMA TourAssumed == TourProofs!TripsAssumption
  BY TourAssumption DEF Tour!TripsAssumption, TourProofs!TripsAssumption

\* "In one response so the numbers agree with each other": TripsProofs!NumbersFit, of the office.
THEOREM NumbersOfTheOffice == OfficeSpec => []NumbersAgree
<1>1. TourProofs!Spec => []TourProofs!NumbersAgree
  BY TourAssumed, TourProofs!NumbersFit
<1>2. TourProofs!NumbersAgree => NumbersAgree
  BY DEF NumbersAgree,
         Tour!NumbersAgree, Tour!QueriesAgree, Tour!PassportsAddUp, Tour!Answered, Tour!UnderWay,
         Tour!Preparing, TourProofs!NumbersAgree, TourProofs!QueriesAgree,
         TourProofs!PassportsAddUp, TourProofs!Answered, TourProofs!UnderWay, TourProofs!Preparing
<1>3. QED  BY <1>1, <1>2, TourIsAPart, PTL

\* A group leaves the upcoming ones no sooner than twice the offset before it departs.
THEOREM LeavesTheOfficeShortlyBefore == OfficeSpec => []LeftOutAtNight
<1>1. TourProofs!Spec => []TourProofs!LeftOutAtNight
  BY TourAssumed, TourProofs!LeavesShortlyBefore
<1>2. TourProofs!LeftOutAtNight => LeftOutAtNight
  BY DEF LeftOutAtNight,
         Tour!LeftOutAtNight, Tour!Answered, Tour!LeftOut, Tour!Upcoming, Tour!LocalDay,
         Tour!Today, Tour!Day, Tour!Preparing, TourProofs!LeftOutAtNight, TourProofs!Answered,
         TourProofs!LeftOut, TourProofs!Upcoming, TourProofs!LocalDay, TourProofs!Today,
         TourProofs!Day, TourProofs!Preparing
<1>3. QED  BY <1>1, <1>2, TourIsAPart, PTL

-----------------------------------------------------------------------------
(* The staff *)

\* AgencyBackendProofs speaks of the same handlers as Office does.
LEMMA SameHandlers ==
  ASSUME NEW s
  PROVE  Staff!Serve(s) <=> StaffProofs!Serve(s)
  <1> USE DEF
         Staff!IsFiniteSet, Staff!Cardinality, Staff!groupVars, Staff!placeVars,
         Staff!roomVars, Staff!pilgrimVars, Staff!tables, Staff!vars, Staff!NoDrops,
         Staff!Call, Staff!NoCall, Staff!CallOnGroup, Staff!CallOnRoom, Staff!CallOnRequest,
         Staff!CallOnPilgrim, Staff!CallOnDeletion, Staff!Running, Staff!Begin, Staff!GoTo,
         Staff!Reply, Staff!Check, Staff!Without, Staff!Locked, Staff!RoomMembers,
         Staff!Occupants, Staff!Requesters, Staff!Members, Staff!Deleted, Staff!Drop,
         Staff!CommitDrops, Staff!OwnGroup, Staff!CreateGroup, Staff!ReturnDatePasses,
         Staff!WriteStatus, Staff!ChangeStatus, Staff!WriteGuide, Staff!MayGuide,
         Staff!AssignGuide, Staff!UnassignGuide, Staff!UpdateGuide, Staff!MayJoin,
         Staff!ReadPilgrim, Staff!InsertMember, Staff!AddPilgrimToGroup, Staff!DeleteMember,
         Staff!RemovePilgrimFromGroup, Staff!DropIn, Staff!CommitRemoveGroup,
         Staff!BeginRemoveGroup, Staff!RemoveGroup, Staff!RoomOfGroup, Staff!RequestOfGroup,
         Staff!OwnGroups, Staff!InsertRooms, Staff!CreateRooms, Staff!CascadeRoom,
         Staff!DeleteRoomRow, Staff!DeleteRoom, Staff!HasSpace, Staff!TakeBed,
         Staff!InsertRoomMember, Staff!AddRoomMember, Staff!DeleteRoomMember,
         Staff!RemoveRoomMember, Staff!InsertRequest, Staff!CreateRoomRequest,
         Staff!DeleteRequestRow, Staff!DeleteRoomRequest, Staff!TakeRequest,
         Staff!InsertRequestMember, Staff!AddRoomRequestMember, Staff!DeleteRequestMember,
         Staff!RemoveRoomRequestMember, Staff!OwnPilgrim, Staff!LogRow, Staff!HistoryActions,
         Staff!LeadsLiveGroup, Staff!RowsOf, Staff!DropOwn, Staff!CommitRemoval,
         Staff!RemoveFromAgency, Staff!RaiseGuideFlag, Staff!SetAsGuide, Staff!ClearGuideFlag,
         Staff!RemoveAsGuide, Staff!WriteAgency, Staff!WriteLog, Staff!AgencySeen,
         Staff!SetAgency, Staff!RemoveAgency, Staff!InsertInvitation, Staff!CreateInvitation,
         Staff!WriteRejected, Staff!RejectInvitation, Staff!CommitAccept,
         Staff!AcceptInvitation, Staff!Active, Staff!InsertDeletion, Staff!CreateDeleteRequest,
         Staff!WriteCancelled, Staff!CancelDeleteRequest, Staff!SoftDeleted,
         Staff!CommitApproval, Staff!ApproveDeleteRequest, Staff!NoRow, Staff!Restart,
         StaffProofs!IsFiniteSet, StaffProofs!Cardinality, StaffProofs!groupVars,
         StaffProofs!placeVars, StaffProofs!roomVars, StaffProofs!pilgrimVars,
         StaffProofs!tables, StaffProofs!vars, StaffProofs!NoDrops, StaffProofs!Call,
         StaffProofs!NoCall, StaffProofs!CallOnGroup, StaffProofs!CallOnRoom,
         StaffProofs!CallOnRequest, StaffProofs!CallOnPilgrim, StaffProofs!CallOnDeletion,
         StaffProofs!Running, StaffProofs!Begin, StaffProofs!GoTo, StaffProofs!Reply,
         StaffProofs!Check, StaffProofs!Without, StaffProofs!Locked, StaffProofs!RoomMembers,
         StaffProofs!Occupants, StaffProofs!Requesters, StaffProofs!Members,
         StaffProofs!Deleted, StaffProofs!Drop, StaffProofs!CommitDrops, StaffProofs!OwnGroup,
         StaffProofs!CreateGroup, StaffProofs!ReturnDatePasses, StaffProofs!WriteStatus,
         StaffProofs!ChangeStatus, StaffProofs!WriteGuide, StaffProofs!MayGuide,
         StaffProofs!AssignGuide, StaffProofs!UnassignGuide, StaffProofs!UpdateGuide,
         StaffProofs!MayJoin, StaffProofs!ReadPilgrim, StaffProofs!InsertMember,
         StaffProofs!AddPilgrimToGroup, StaffProofs!DeleteMember,
         StaffProofs!RemovePilgrimFromGroup, StaffProofs!DropIn, StaffProofs!CommitRemoveGroup,
         StaffProofs!BeginRemoveGroup, StaffProofs!RemoveGroup, StaffProofs!RoomOfGroup,
         StaffProofs!RequestOfGroup, StaffProofs!OwnGroups, StaffProofs!InsertRooms,
         StaffProofs!CreateRooms, StaffProofs!CascadeRoom, StaffProofs!DeleteRoomRow,
         StaffProofs!DeleteRoom, StaffProofs!HasSpace, StaffProofs!TakeBed,
         StaffProofs!InsertRoomMember, StaffProofs!AddRoomMember, StaffProofs!DeleteRoomMember,
         StaffProofs!RemoveRoomMember, StaffProofs!InsertRequest,
         StaffProofs!CreateRoomRequest, StaffProofs!DeleteRequestRow,
         StaffProofs!DeleteRoomRequest, StaffProofs!TakeRequest,
         StaffProofs!InsertRequestMember, StaffProofs!AddRoomRequestMember,
         StaffProofs!DeleteRequestMember, StaffProofs!RemoveRoomRequestMember,
         StaffProofs!OwnPilgrim, StaffProofs!LogRow, StaffProofs!HistoryActions,
         StaffProofs!LeadsLiveGroup, StaffProofs!RowsOf, StaffProofs!DropOwn,
         StaffProofs!CommitRemoval, StaffProofs!RemoveFromAgency, StaffProofs!RaiseGuideFlag,
         StaffProofs!SetAsGuide, StaffProofs!ClearGuideFlag, StaffProofs!RemoveAsGuide,
         StaffProofs!WriteAgency, StaffProofs!WriteLog, StaffProofs!AgencySeen,
         StaffProofs!SetAgency, StaffProofs!RemoveAgency, StaffProofs!InsertInvitation,
         StaffProofs!CreateInvitation, StaffProofs!WriteRejected, StaffProofs!RejectInvitation,
         StaffProofs!CommitAccept, StaffProofs!AcceptInvitation, StaffProofs!Active,
         StaffProofs!InsertDeletion, StaffProofs!CreateDeleteRequest,
         StaffProofs!WriteCancelled, StaffProofs!CancelDeleteRequest, StaffProofs!SoftDeleted,
         StaffProofs!CommitApproval, StaffProofs!ApproveDeleteRequest, StaffProofs!NoRow,
         StaffProofs!Restart
  <1>1. Staff!GroupRoutes(s) <=> StaffProofs!GroupRoutes(s)
    <2>1. Staff!AssignGuide(s) <=> StaffProofs!AssignGuide(s) OBVIOUS
    <2>2. Staff!UnassignGuide(s) <=> StaffProofs!UnassignGuide(s) OBVIOUS
    <2>3. Staff!UpdateGuide(s) <=> StaffProofs!UpdateGuide(s) OBVIOUS
    <2>4. Staff!AddPilgrimToGroup(s) <=> StaffProofs!AddPilgrimToGroup(s) OBVIOUS
    <2>5. Staff!RemovePilgrimFromGroup(s) <=> StaffProofs!RemovePilgrimFromGroup(s) OBVIOUS
    <2>6. Staff!RemoveGroup(s) <=> StaffProofs!RemoveGroup(s) OBVIOUS
    <2> QED BY ONLY <2>1, <2>2, <2>3, <2>4, <2>5, <2>6 DEF Staff!GroupRoutes, StaffProofs!GroupRoutes
  <1>2. Staff!RoomRoutes(s) <=> StaffProofs!RoomRoutes(s)
    <2>1. Staff!CreateRooms(s) <=> StaffProofs!CreateRooms(s) OBVIOUS
    <2>2. Staff!DeleteRoom(s) <=> StaffProofs!DeleteRoom(s) OBVIOUS
    <2>3. Staff!AddRoomMember(s) <=> StaffProofs!AddRoomMember(s) OBVIOUS
    <2>4. Staff!RemoveRoomMember(s) <=> StaffProofs!RemoveRoomMember(s) OBVIOUS
    <2> QED BY ONLY <2>1, <2>2, <2>3, <2>4 DEF Staff!RoomRoutes, StaffProofs!RoomRoutes
  <1>3. Staff!RoomRequestRoutes(s) <=> StaffProofs!RoomRequestRoutes(s)
    <2>1. Staff!CreateRoomRequest(s) <=> StaffProofs!CreateRoomRequest(s) OBVIOUS
    <2>2. Staff!DeleteRoomRequest(s) <=> StaffProofs!DeleteRoomRequest(s) OBVIOUS
    <2>3. Staff!AddRoomRequestMember(s) <=> StaffProofs!AddRoomRequestMember(s) OBVIOUS
    <2>4. Staff!RemoveRoomRequestMember(s) <=> StaffProofs!RemoveRoomRequestMember(s) OBVIOUS
    <2> QED BY ONLY <2>1, <2>2, <2>3, <2>4 DEF Staff!RoomRequestRoutes, StaffProofs!RoomRequestRoutes
  <1>4. Staff!PilgrimRoutes(s) <=> StaffProofs!PilgrimRoutes(s)
    <2>1. Staff!RemoveFromAgency(s) <=> StaffProofs!RemoveFromAgency(s) OBVIOUS
    <2>2. Staff!SetAsGuide(s) <=> StaffProofs!SetAsGuide(s) OBVIOUS
    <2>3. Staff!RemoveAsGuide(s) <=> StaffProofs!RemoveAsGuide(s) OBVIOUS
    <2> QED BY ONLY <2>1, <2>2, <2>3 DEF Staff!PilgrimRoutes, StaffProofs!PilgrimRoutes
  <1>5. Staff!AdminRoutes(s) <=> StaffProofs!AdminRoutes(s)
    <2>1. Staff!ChangeStatus(s) <=> StaffProofs!ChangeStatus(s) OBVIOUS
    <2>2. Staff!SetAgency(s) <=> StaffProofs!SetAgency(s) OBVIOUS
    <2>3. Staff!RemoveAgency(s) <=> StaffProofs!RemoveAgency(s) OBVIOUS
    <2>4. Staff!ApproveDeleteRequest(s) <=> StaffProofs!ApproveDeleteRequest(s) OBVIOUS
    <2> QED BY ONLY <2>1, <2>2, <2>3, <2>4 DEF Staff!AdminRoutes, StaffProofs!AdminRoutes
  <1>6. Staff!InvitationRoutes(s) <=> StaffProofs!InvitationRoutes(s)
    <2>1. Staff!CreateInvitation(s) <=> StaffProofs!CreateInvitation(s) OBVIOUS
    <2>2. Staff!RejectInvitation(s) <=> StaffProofs!RejectInvitation(s) OBVIOUS
    <2>3. Staff!AcceptInvitation(s) <=> StaffProofs!AcceptInvitation(s) OBVIOUS
    <2> QED BY ONLY <2>1, <2>2, <2>3 DEF Staff!InvitationRoutes, StaffProofs!InvitationRoutes
  <1>7. Staff!ProfileRoutes(s) <=> StaffProofs!ProfileRoutes(s)
    <2>1. Staff!CreateDeleteRequest(s) <=> StaffProofs!CreateDeleteRequest(s) OBVIOUS
    <2>2. Staff!CancelDeleteRequest(s) <=> StaffProofs!CancelDeleteRequest(s) OBVIOUS
    <2> QED BY ONLY <2>1, <2>2 DEF Staff!ProfileRoutes, StaffProofs!ProfileRoutes
  <1> QED BY ONLY <1>1, <1>2, <1>3, <1>4, <1>5, <1>6, <1>7 DEF Staff!Serve, StaffProofs!Serve

LEMMA SameStaff == Staff!Next <=> StaffProofs!Next
  <1>1. Staff!CreateGroup <=> StaffProofs!CreateGroup
    BY DEF Staff!CreateGroup, StaffProofs!CreateGroup, Staff!placeVars, StaffProofs!placeVars,
           Staff!roomVars, StaffProofs!roomVars, Staff!pilgrimVars, StaffProofs!pilgrimVars
  <1>2. Staff!ReturnDatePasses <=> StaffProofs!ReturnDatePasses
    BY DEF Staff!ReturnDatePasses, StaffProofs!ReturnDatePasses, Staff!placeVars,
           StaffProofs!placeVars, Staff!roomVars, StaffProofs!roomVars, Staff!pilgrimVars,
           StaffProofs!pilgrimVars
  <1>3. Staff!NoCall = StaffProofs!NoCall
    BY DEF Staff!NoCall, StaffProofs!NoCall, Staff!Call, StaffProofs!Call, Staff!NoDrops,
           StaffProofs!NoDrops
  <1>4. Staff!tables = StaffProofs!tables
    BY DEF Staff!tables, StaffProofs!tables, Staff!groupVars, StaffProofs!groupVars,
           Staff!placeVars, StaffProofs!placeVars, Staff!roomVars, StaffProofs!roomVars,
           Staff!pilgrimVars, StaffProofs!pilgrimVars
  <1>5. Staff!Restart <=> StaffProofs!Restart
    BY <1>3, <1>4 DEF Staff!Restart, StaffProofs!Restart, Staff!tables, StaffProofs!tables,
           Staff!groupVars, StaffProofs!groupVars, Staff!placeVars, StaffProofs!placeVars,
           Staff!roomVars, StaffProofs!roomVars, Staff!pilgrimVars, StaffProofs!pilgrimVars
  <1>6. (\E s \in Sessions : Staff!Serve(s)) <=> (\E s \in Sessions : StaffProofs!Serve(s))
    BY SameHandlers
  <1> QED BY <1>1, <1>2, <1>5, <1>6 DEF Staff!Next, StaffProofs!Next

LEMMA StaffIsAPart == OfficeSpec => StaffProofs!Spec
  <1>1. OfficeInit => StaffProofs!Init
    BY DEF OfficeInit, Staff!Init, StaffProofs!Init, Staff!NoRow, StaffProofs!NoRow,
           Staff!LogRow, StaffProofs!LogRow, Staff!NoCall, StaffProofs!NoCall, Staff!Call,
           StaffProofs!Call, Staff!NoDrops, StaffProofs!NoDrops
  <1>2. [OfficeNext]_<<vars, staffVars, tourVars, pageVars, part>>
          => [StaffProofs!Next]_(StaffProofs!vars)
    <2>1. CASE part = "staff" /\ Staff!Next
      BY <2>1, SameStaff
    <2>2. CASE UNCHANGED staffVars
      BY <2>2 DEF staffVars, StaffProofs!vars, StaffProofs!tables, StaffProofs!groupVars,
                  StaffProofs!placeVars, StaffProofs!roomVars, StaffProofs!pilgrimVars
    <2> QED BY <2>1, <2>2 DEF OfficeNext
  <1> QED BY <1>1, <1>2, PTL DEF OfficeSpec, StaffProofs!Spec

LEMMA StaffAssumed == StaffProofs!TablesAssumption /\ StaffProofs!SessionsAssumption
  BY StaffAssumption DEF Staff!TablesAssumption, StaffProofs!TablesAssumption,
         Staff!SessionsAssumption, StaffProofs!SessionsAssumption, Staff!IsFiniteSet,
         StaffProofs!IsFiniteSet

-----------------------------------------------------------------------------
(* Agencies, groups and rooms, requests served one by one *)

\* Without a restart between an admin's update and its row of the log, the log tells each
\* pilgrim's agency: AgencyBackendProofs!AloneLogTellsAgency, of the office.
THEOREM LogOfTheOffice ==
  ASSUME NEW s, Sessions = {s}, "restart" \notin Ops
  PROVE  OfficeSpec => []LogTellsAgency
  <1>1. StaffProofs!Spec => []StaffProofs!LogTellsAgency
    BY StaffAssumed, StaffProofs!AloneLogTellsAgency
  <1>2. StaffProofs!LogTellsAgency => LogTellsAgency
    BY DEF LogTellsAgency, Staff!LogTellsAgency, StaffProofs!LogTellsAgency, Staff!NoRow,
           StaffProofs!NoRow, Staff!LogRow, StaffProofs!LogRow
  <1> QED BY <1>1, <1>2, StaffIsAPart, PTL

\* Groups and their members keep the place book.
THEOREM GroupsOfTheOffice ==
  ASSUME NEW s, Sessions = {s}
  PROVE  OfficeSpec => GroupsKeepTheBook
  <1>1. StaffProofs!Spec => StaffProofs!GroupsKeepTheBook
    BY StaffAssumed, StaffProofs!AloneGroupsImplementTheBook
  <1>2. StaffProofs!GroupBook!Init => Staff!GroupBook!Init
    BY DEF Staff!GroupBook!Init, StaffProofs!GroupBook!Init
  <1>3. [StaffProofs!GroupBook!Next]_<<groups, groupOf>> => [Staff!GroupBook!Next]_<<groups, groupOf>>
    BY DEF Staff!GroupBook!Next, StaffProofs!GroupBook!Next, Staff!GroupBook!OpenPlaces,
           StaffProofs!GroupBook!OpenPlaces, Staff!GroupBook!Take, StaffProofs!GroupBook!Take,
           Staff!GroupBook!Freed, StaffProofs!GroupBook!Freed, Staff!GroupBook!Leave,
           StaffProofs!GroupBook!Leave, Staff!GroupBook!Close, StaffProofs!GroupBook!Close
  <1> QED BY <1>1, <1>2, <1>3, StaffIsAPart, PTL
          DEF GroupsKeepTheBook, Staff!GroupsKeepTheBook, StaffProofs!GroupsKeepTheBook,
              Staff!GroupBook!Spec, StaffProofs!GroupBook!Spec

\* Only removePilgrimFromGroup leaves a bed behind.
THEOREM BedsOfTheOffice ==
  ASSUME NEW s, Sessions = {s}
  PROVE  OfficeSpec => OnlyRemovalLeavesBeds
  <1>1. StaffProofs!Spec => StaffProofs!OnlyRemovalLeavesBeds
    BY StaffAssumed, StaffProofs!AloneBedsFollow
  <1> QED BY <1>1, StaffIsAPart, PTL
          DEF OnlyRemovalLeavesBeds, Staff!OnlyRemovalLeavesBeds,
              StaffProofs!OnlyRemovalLeavesBeds, Staff!RoomsWithItsGroup,
              StaffProofs!RoomsWithItsGroup, Staff!Running, StaffProofs!Running, Staff!vars,
              StaffProofs!vars, Staff!tables, StaffProofs!tables, Staff!groupVars,
              StaffProofs!groupVars, Staff!placeVars, StaffProofs!placeVars, Staff!roomVars,
              StaffProofs!roomVars, Staff!pilgrimVars, StaffProofs!pilgrimVars

\* Agencies part from members and guides only at the hands of an admin, or through the two
\* handlers that write a group without assignGuide's checks.
THEOREM SplitsOfTheOffice ==
  ASSUME NEW s, Sessions = {s}
  PROVE  OfficeSpec => OnlyAdminSplits
  <1>1. StaffProofs!Spec => StaffProofs!OnlyAdminSplits
    BY StaffAssumed, StaffProofs!AloneOnlyAdminSplits
  <1> QED BY <1>1, StaffIsAPart, PTL
          DEF OnlyAdminSplits, Staff!OnlyAdminSplits, StaffProofs!OnlyAdminSplits,
              Staff!OnlyAdminSplitsMember, StaffProofs!OnlyAdminSplitsMember,
              Staff!OnlyAdminSplitsGuide, StaffProofs!OnlyAdminSplitsGuide,
              Staff!AdminRewritesAgency, StaffProofs!AdminRewritesAgency,
              Staff!MemberOfOwnAgency, StaffProofs!MemberOfOwnAgency, Staff!GuidedByOwn,
              StaffProofs!GuidedByOwn, Staff!Running, StaffProofs!Running, Staff!vars,
              StaffProofs!vars, Staff!tables, StaffProofs!tables, Staff!groupVars,
              StaffProofs!groupVars, Staff!placeVars, StaffProofs!placeVars, Staff!roomVars,
              StaffProofs!roomVars, Staff!pilgrimVars, StaffProofs!pilgrimVars

-----------------------------------------------------------------------------
(* The lists: what a client that turns the pages misses.                   *)

\* A list of entries, each with its sort key.
Keyed(L) == /\ DOMAIN L \subseteq Entries
            /\ \A x \in DOMAIN L : L[x] \in [rank : {0, 1}, time : Times]

\* The entries that come before x, and how many they are.
Before(L, x) == {y \in DOMAIN L : Pages!Ahead(L[y], L[x])}
Place(L, x) == Cardinality(Before(L, x))
\* The entries that a write has left where they were.
Kept(L, M) == {x \in DOMAIN L \cap DOMAIN M : L[x] = M[x]}

\* Listings counts as FiniteSets does.
LEMMA SameCount ==
  /\ \A S : Pages!Cardinality(S) = Cardinality(S)
  /\ \A S : Pages!IsFiniteSet(S) <=> IsFiniteSet(S)
  BY DEF Pages!Cardinality, Cardinality, Pages!IsFiniteSet, IsFiniteSet

LEMMA PagesAssumed ==
  /\ IsFiniteSet(Entries) /\ Times \subseteq Int /\ None \notin Times /\ None # "FORMING"
  /\ PageSize \in Nat /\ PageSize > 0
  BY PagesAssumption, SameCount DEF Pages!ListsAssumption

\* Entries, and sets of them, can be counted.
LEMMA FiniteRows ==
  ASSUME NEW S \in SUBSET Entries
  PROVE  IsFiniteSet(S) /\ Cardinality(S) \in Nat
  <1>1. IsFiniteSet(S) BY PagesAssumed, FS_Subset
  <1> QED BY <1>1, FS_CardinalityType

LEMMA Fewer ==
  ASSUME NEW T \in SUBSET Entries, NEW S \in SUBSET T
  PROVE  Cardinality(S) <= Cardinality(T) /\ (Cardinality(S) = Cardinality(T) => S = T)
  BY FiniteRows, FS_Subset

LEMMA Together ==
  ASSUME NEW S \in SUBSET Entries, NEW T \in SUBSET Entries
  PROVE  Cardinality(S \cup T) <= Cardinality(S) + Cardinality(T)
  <1>1. S \cap T \in SUBSET Entries OBVIOUS
  <1>2. Cardinality(S \cup T) = Cardinality(S) + Cardinality(T) - Cardinality(S \cap T)
    BY FiniteRows, FS_Union
  <1> QED BY <1>1, <1>2, FiniteRows

\* The keys, and the places they give.
LEMMA KeysAreNumbers ==
  ASSUME NEW L, Keyed(L), NEW x \in DOMAIN L
  PROVE  /\ L[x].rank \in Int /\ L[x].time \in Int
         /\ L[x] = [rank |-> L[x].rank, time |-> L[x].time]
  <1>1. L[x] \in [rank : {0, 1}, time : Times] BY DEF Keyed
  <1>2. L[x].rank \in {0, 1} /\ L[x].time \in Times BY <1>1
  <1>3. \A n \in {0, 1} : n \in Int OBVIOUS
  <1>4. \A t \in Times : t \in Int BY PagesAssumed
  <1>5. L[x] = [rank |-> L[x].rank, time |-> L[x].time] BY <1>1
  <1> QED BY <1>2, <1>3, <1>4, <1>5

LEMMA PlacesDiffer ==
  ASSUME NEW L, Keyed(L), NEW x \in DOMAIN L, NEW y \in DOMAIN L, L[x] # L[y]
  PROVE  Place(L, x) # Place(L, y)
  <1>1. ASSUME NEW u \in DOMAIN L, NEW v \in DOMAIN L, Pages!Ahead(L[u], L[v])
        PROVE  Place(L, u) # Place(L, v)
    <2>1. \A w \in DOMAIN L : L[w].rank \in Int /\ L[w].time \in Int
      BY KeysAreNumbers
    <2>2. Before(L, u) \subseteq Before(L, v)
      BY <1>1, <2>1 DEF Before, Pages!Ahead
    <2>3. u \in Before(L, v) /\ u \notin Before(L, u)
      BY <1>1, <2>1 DEF Before, Pages!Ahead
    <2>4. Before(L, v) \in SUBSET Entries BY DEF Before, Keyed
    <2> QED BY <2>2, <2>3, <2>4, Fewer DEF Place
  <1>2. Pages!Ahead(L[x], L[y]) \/ Pages!Ahead(L[y], L[x])
    <2>1. L[x].rank # L[y].rank \/ L[x].time # L[y].time BY KeysAreNumbers
    <2>2. /\ L[x].rank \in Int /\ L[y].rank \in Int
          /\ L[x].time \in Int /\ L[y].time \in Int
      BY KeysAreNumbers
    <2> QED BY <2>1, <2>2 DEF Pages!Ahead
  <1> QED BY <1>1, <1>2

LEMMA PlaceIsNatural ==
  ASSUME NEW L, Keyed(L), NEW x \in DOMAIN L
  PROVE  Place(L, x) \in Nat /\ Place(L, x) < Cardinality(DOMAIN L)
  <1>1. DOMAIN L \in SUBSET Entries /\ Before(L, x) \in SUBSET DOMAIN L BY DEF Keyed, Before
  <1>2. x \notin Before(L, x) BY KeysAreNumbers DEF Before, Pages!Ahead
  <1>3. Before(L, x) # DOMAIN L BY <1>2
  <1>4. Cardinality(Before(L, x)) \in Nat /\ Cardinality(DOMAIN L) \in Nat BY <1>1, FiniteRows
  <1>5. /\ Cardinality(Before(L, x)) <= Cardinality(DOMAIN L)
        /\ Cardinality(Before(L, x)) # Cardinality(DOMAIN L)
    BY <1>1, <1>3, Fewer
  <1> QED BY <1>4, <1>5 DEF Place

\* Between two places are no more entries than places, but for those that share a key.
LEMMA RoomForFew ==
  ASSUME NEW L, Keyed(L), NEW a \in Int, NEW b \in Int, a <= b + 1,
         NEW S \in SUBSET (DOMAIN L \ Pages!Twins(L)),
         \A x \in S : Place(L, x) \in a..b
  PROVE  Cardinality(S) <= b - a + 1
  <1> DEFINE f == [x \in S |-> Place(L, x)]
  <1>1. \A x \in S : \A y \in S : x # y => L[x] # L[y] BY DEF Pages!Twins
  <1>2. \A x \in S : \A y \in S : f[x] = f[y] => x = y BY <1>1, PlacesDiffer
  <1>3. f \in [S -> a..b] OBVIOUS
  <1>4. f \in Injection(S, a..b) BY <1>2, <1>3 DEF Injection, IsInjective
  <1>5. IsFiniteSet(a..b) /\ Cardinality(a..b) = IF a > b THEN 0 ELSE b - a + 1
    BY FS_Interval
  <1>6. Cardinality(S) <= Cardinality(a..b) BY <1>4, <1>5, FS_Injection
  <1> QED BY <1>5, <1>6

\* An entry moves up by no more than what has left its place.
LEMMA PlacesMoveUp ==
  ASSUME NEW L, Keyed(L), NEW M, Keyed(M), NEW x \in Kept(L, M)
  PROVE  Place(L, x) <= Place(M, x) + Cardinality(DOMAIN L \ Kept(L, M))
  <1>1. Before(L, x) \subseteq Before(M, x) \cup (DOMAIN L \ Kept(L, M))
    BY DEF Before, Kept
  <1>2. /\ Before(M, x) \in SUBSET Entries
        /\ (DOMAIN L \ Kept(L, M)) \in SUBSET Entries
        /\ Before(L, x) \in SUBSET Entries
    BY DEF Before, Keyed
  <1>3. Cardinality(Before(L, x)) <= Cardinality(Before(M, x) \cup (DOMAIN L \ Kept(L, M)))
    BY <1>1, <1>2, Fewer
  <1>4. /\ Cardinality(Before(L, x)) \in Nat /\ Cardinality(Before(M, x)) \in Nat
        /\ Cardinality(DOMAIN L \ Kept(L, M)) \in Nat
        /\ Cardinality(Before(M, x) \cup (DOMAIN L \ Kept(L, M))) \in Nat
    BY <1>2, FiniteRows
  <1>5. Cardinality(Before(M, x) \cup (DOMAIN L \ Kept(L, M)))
          <= Cardinality(Before(M, x)) + Cardinality(DOMAIN L \ Kept(L, M))
    BY <1>2, Together
  <1> QED BY <1>3, <1>4, <1>5 DEF Place

\* Where pages end.
LEMMA PageEnds ==
  ASSUME NEW p \in Nat
  PROVE  /\ p * PageSize \in Nat /\ (p - 1) * PageSize \in Int
         /\ p * PageSize = (p - 1) * PageSize + PageSize
         /\ ((p + 1) - 1) * PageSize = p * PageSize
  BY PagesAssumed

LEMMA LastPageEnds ==
  ASSUME NEW t \in Nat, NEW p \in Nat, p >= Pages!TotalPages(t)
  PROVE  p * PageSize >= t
  <1> DEFINE u == t + PageSize - 1
             d == u \div PageSize
  <1>1. u \in Nat BY PagesAssumed
  <1>2. d \in Nat /\ d * PageSize > u - PageSize BY <1>1, PagesAssumed
  <1>3. p >= d BY DEF Pages!TotalPages
  <1>4. (p - d) * PageSize >= 0 BY <1>2, <1>3, PagesAssumed
  <1>5. p * PageSize = d * PageSize + (p - d) * PageSize BY <1>2, PagesAssumed
  <1>6. d * PageSize \in Int /\ p * PageSize \in Int /\ (p - d) * PageSize \in Int
    BY <1>2, PagesAssumed
  <1> HIDE DEF d
  <1> QED BY <1>2, <1>4, <1>5, <1>6, PagesAssumed

-----------------------------------------------------------------------------
(* The rows that the lists are made of.                                    *)

Stamps == Times \cup {None}

PilgrimRow == [at : Stamps, ours : BOOLEAN, guide : BOOLEAN, joined : Stamps, leads : BOOLEAN]
OursAreThere(row) == row.ours => row.at # None

PilgrimsFit ==
  /\ pilgrimRows \in [Entries -> PilgrimRow]
  /\ \A x \in Entries : OursAreThere(pilgrimRows[x])

GroupsFit ==
  /\ groupRows \in [Entries -> [at : Stamps, status : {None, "FORMING", "IN_TRIP"}]]
  /\ \A x \in Entries : groupRows[x].status # None => groupRows[x].at # None

RequestsFit == requestRows \in [Entries -> [at : Stamps, pending : BOOLEAN]]

TasksFit ==
  /\ taskRows \in [Entries -> [at : Stamps, touched : Stamps, flagged : BOOLEAN]]
  /\ \A x \in Entries : taskRows[x].at # None => taskRows[x].touched # None

LogFits == logRows \in [Entries -> Stamps]

RowsFit == list \in Pages!Lists /\ PilgrimsFit /\ GroupsFit /\ RequestsFit /\ TasksFit /\ LogFits

LEMMA NewestAreKeyed ==
  ASSUME NEW S \in SUBSET Entries, NEW f, \A x \in S : f[x] \in Times
  PROVE  Keyed(Pages!Newest(S, f))
  BY DEF Keyed, Pages!Newest

LEMMA ListsAreKeyed ==
  ASSUME RowsFit
  PROVE  Keyed(Pages!Listed)
  <1> USE DEF Stamps
  <1>1. Keyed(Pages!AgencyPilgrims) /\ Keyed(Pages!WithoutGroup)
    BY NewestAreKeyed
       DEF RowsFit, PilgrimsFit, PilgrimRow, OursAreThere, Pages!AgencyPilgrims, Pages!WithoutGroup,
       Pages!Ours, Pages!Created
  <1>2. Keyed(Pages!Leading) /\ Keyed(Pages!Idle)
    BY NewestAreKeyed
       DEF RowsFit, PilgrimsFit, PilgrimRow, OursAreThere, Pages!Leading, Pages!Idle, Pages!Ours, Pages!Created
  <1>3. Keyed(Pages!Found) /\ Keyed(Pages!GroupMembers)
    BY NewestAreKeyed
       DEF RowsFit, PilgrimsFit, PilgrimRow, OursAreThere, Pages!Found, Pages!GroupMembers, Pages!Created,
       Pages!Joined
  <1>4. Keyed(Pages!GroupsInStatus)
    BY NewestAreKeyed, PagesAssumed DEF RowsFit, GroupsFit, Pages!GroupsInStatus, Pages!Opened
  <1>5. Keyed(Pages!DeletionRequests)
    BY DEF RowsFit, RequestsFit, Pages!DeletionRequests, Keyed
  <1>6. Keyed(Pages!FlaggedTasks) /\ Keyed(Pages!TasksByUpdate)
    BY NewestAreKeyed DEF RowsFit, TasksFit, Pages!FlaggedTasks, Pages!TasksByUpdate,
       Pages!TasksOf, Pages!Assigned, Pages!Touched
  <1>7. Keyed(Pages!Log)
    BY NewestAreKeyed DEF RowsFit, LogFits, Pages!Log
  <1> QED BY ONLY <1>1, <1>2, <1>3, <1>4, <1>5, <1>6, <1>7, RowsFit
          DEF RowsFit, Pages!Listed, Pages!Lists

-----------------------------------------------------------------------------
(* The client                                                              *)

WalkFits ==
  walk \in [at : {"closed", "count", "rows", "shown"}, page : Nat, total : Nat,
            seen : SUBSET Entries, stayed : SUBSET Entries, twins : SUBSET Entries,
            shifts : Nat, late : Nat]

\* How many places of the list the pages read so far have covered.
Covered == IF walk.at = "shown" THEN walk.page * PageSize ELSE (walk.page - 1) * PageSize

Unseen == (walk.stayed \ walk.seen) \ walk.twins

\* Rows that slipped to where the client has read before it came there.
Missed == {x \in Unseen : Place(Pages!Listed, x) < Covered}

Follows ==
  /\ walk.page > 0
  /\ walk.stayed \subseteq DOMAIN Pages!Listed
  /\ Pages!Twins(Pages!Listed) \subseteq walk.twins
  /\ Cardinality(Missed) <= walk.shifts
  /\ walk.at \in {"rows", "shown"} =>
       Cardinality(DOMAIN Pages!Listed) <= walk.total + walk.late

WalkInv == WalkFits /\ (walk.at # "closed" => Follows)


-----------------------------------------------------------------------------
(* The writes keep the rows in form.                                       *)

LEMMA PilgrimStaysFit ==
  ASSUME PilgrimsFit, NEW x \in Entries, NEW row \in PilgrimRow, OursAreThere(row),
         pilgrimRows' = [pilgrimRows EXCEPT ![x] = row]
  PROVE  PilgrimsFit'
  BY DEF PilgrimsFit

LEMMA PilgrimsStayFit ==
  ASSUME PilgrimsFit, Pages!WritePilgrim
  PROVE  PilgrimsFit'
  <1> USE DEF PilgrimRow, OursAreThere, Stamps, Pages!NoPilgrim
  <1>1. \A x \in Entries : pilgrimRows[x] \in PilgrimRow /\ OursAreThere(pilgrimRows[x])
    BY DEF PilgrimsFit
  <1>2. CASE Pages!Register
    <2>1. PICK P \in SUBSET Entries, t \in Times :
            pilgrimRows' = [x \in Entries |-> IF x \in P
                             THEN [Pages!NoPilgrim EXCEPT !.at = t, !.ours = TRUE]
                             ELSE pilgrimRows[x]]
      BY <1>2 DEF Pages!Register
    <2>2. \A x \in Entries : pilgrimRows'[x] \in PilgrimRow
      BY <1>1, <2>1
    <2>3. \A x \in Entries : OursAreThere(pilgrimRows'[x])
      BY <1>1, <2>1, PagesAssumed
    <2> QED BY <2>1, <2>2, <2>3 DEF PilgrimsFit
  <1>3. CASE Pages!SetAgency
    <2>1. PICK x \in Entries : /\ pilgrimRows[x].at # None
                              /\ pilgrimRows' = [pilgrimRows EXCEPT ![x].ours = TRUE]
      BY <1>3 DEF Pages!SetAgency
    <2> QED BY <1>1, <2>1, PilgrimStaysFit
  <1>4. CASE Pages!RemoveFromAgency
    <2>1. PICK x \in Entries :
            pilgrimRows' = [pilgrimRows EXCEPT
                              ![x] = [Pages!NoPilgrim EXCEPT !.at = pilgrimRows[x].at]]
      BY <1>4 DEF Pages!RemoveFromAgency, Pages!Ours
    <2> QED BY <1>1, <2>1, PilgrimStaysFit
  <1>5. CASE Pages!RemovePilgrim
    <2>1. PICK x \in Entries :
            pilgrimRows' = [pilgrimRows EXCEPT ![x].at = None, ![x].ours = FALSE]
      BY <1>5 DEF Pages!RemovePilgrim
    <2> DEFINE row == [pilgrimRows[x] EXCEPT !.at = None, !.ours = FALSE]
    <2>2. pilgrimRows' = [pilgrimRows EXCEPT ![x] = row]
      BY <2>1 DEF PilgrimsFit
    <2>3. row \in PilgrimRow /\ OursAreThere(row) BY <1>1
    <2> HIDE DEF row
    <2> QED BY <2>2, <2>3, PilgrimStaysFit
  <1>6. CASE Pages!AddPilgrimToGroup
    <2>1. PICK x \in Entries, t \in Times : pilgrimRows' = [pilgrimRows EXCEPT ![x].joined = t]
      BY <1>6 DEF Pages!AddPilgrimToGroup, Pages!Ours
    <2> QED BY <1>1, <2>1, PilgrimStaysFit
  <1>7. CASE Pages!RemovePilgrimFromGroup
    <2>1. PICK x \in Entries : pilgrimRows' = [pilgrimRows EXCEPT ![x].joined = None]
      BY <1>7 DEF Pages!RemovePilgrimFromGroup
    <2> QED BY <1>1, <2>1, PilgrimStaysFit
  <1>8. CASE Pages!FlagGuide
    <2>1. PICK x \in Entries :
            pilgrimRows' = [pilgrimRows EXCEPT ![x].guide = ~pilgrimRows[x].guide]
      BY <1>8 DEF Pages!FlagGuide, Pages!Ours
    <2> QED BY <1>1, <2>1, PilgrimStaysFit
  <1>9. CASE Pages!LeadGroup \/ Pages!LoseGroup
    <2>1. PICK x \in Entries, b \in BOOLEAN : pilgrimRows' = [pilgrimRows EXCEPT ![x].leads = b]
      BY <1>9 DEF Pages!LeadGroup, Pages!LoseGroup, Pages!Ours
    <2> QED BY <1>1, <2>1, PilgrimStaysFit
  <1> QED BY ONLY <1>2, <1>3, <1>4, <1>5, <1>6, <1>7, <1>8, <1>9, Pages!WritePilgrim
          DEF Pages!WritePilgrim

LEMMA GroupsStayFit ==
  ASSUME GroupsFit, Pages!WriteGroup
  PROVE  GroupsFit'
  <1> USE DEF GroupsFit, Stamps, Pages!NoGroup
  <1>1. CASE Pages!CreateGroup BY <1>1, PagesAssumed DEF Pages!CreateGroup
  <1>2. CASE Pages!Restate BY <1>2 DEF Pages!Restate
  <1>3. CASE Pages!RemoveGroup BY <1>3 DEF Pages!RemoveGroup
  <1> QED BY <1>1, <1>2, <1>3 DEF Pages!WriteGroup

LEMMA RequestsStayFit ==
  ASSUME RequestsFit, Pages!WriteRequest
  PROVE  RequestsFit'
  <1> USE DEF RequestsFit, Stamps
  <1>1. CASE Pages!CreateDeleteRequest BY <1>1 DEF Pages!CreateDeleteRequest
  <1>2. CASE Pages!CloseDeleteRequest BY <1>2 DEF Pages!CloseDeleteRequest
  <1> QED BY <1>1, <1>2 DEF Pages!WriteRequest

LEMMA TasksStayFit ==
  ASSUME TasksFit, Pages!WriteTask
  PROVE  TasksFit'
  <1> USE DEF TasksFit, Stamps, Pages!NoTask, Pages!TasksOf
  <1>1. CASE Pages!CreateTask
    <2>1. PICK x \in Entries, t \in Times :
            taskRows' = [taskRows EXCEPT ![x] = [Pages!NoTask EXCEPT !.at = t, !.touched = t]]
      BY <1>1 DEF Pages!CreateTask
    <2> DEFINE row == [Pages!NoTask EXCEPT !.at = t, !.touched = t]
    <2>3. row \in [at : Stamps, touched : Stamps, flagged : BOOLEAN] /\ row.touched # None
      BY PagesAssumed
    <2>4. taskRows' = [taskRows EXCEPT ![x] = row] BY <2>1
    <2> HIDE DEF row
    <2> QED BY <2>3, <2>4
  <1>2. CASE Pages!ChangeTask
    <2>1. PICK x \in Entries, t \in Times, b \in BOOLEAN :
            taskRows' = [taskRows EXCEPT ![x].touched = t, ![x].flagged = b]
      BY <1>2 DEF Pages!ChangeTask
    <2> DEFINE row == [taskRows[x] EXCEPT !.touched = t, !.flagged = b]
    <2>2. taskRows' = [taskRows EXCEPT ![x] = row] BY <2>1
    <2>3. row \in [at : Stamps, touched : Stamps, flagged : BOOLEAN] /\ row.touched = t
      <3>1. taskRows[x] \in [at : Stamps, touched : Stamps, flagged : BOOLEAN] OBVIOUS
      <3> QED BY ONLY <3>1 DEF Stamps
    <2>4. t # None BY PagesAssumed
    <2> HIDE DEF row
    <2> QED BY <2>2, <2>3, <2>4
  <1>3. CASE Pages!DeleteTask BY <1>3 DEF Pages!DeleteTask
  <1> QED BY <1>1, <1>2, <1>3 DEF Pages!WriteTask

LEMMA LogStaysFit ==
  ASSUME LogFits, Pages!WriteLog
  PROVE  LogFits'
  BY DEF LogFits, Stamps, Pages!WriteLog, Pages!Append

LEMMA RowsStayFit ==
  ASSUME RowsFit, Pages!Write
  PROVE  RowsFit'
  <1>1. UNCHANGED list /\ list \in Pages!Lists BY DEF RowsFit, Pages!Write
  <1>2. CASE Pages!WritePilgrim
    <2>1. PilgrimsFit' BY <1>2, PilgrimsStayFit DEF RowsFit
    <2> QED BY <1>1, <1>2, <2>1
        DEF RowsFit, GroupsFit, RequestsFit, TasksFit, LogFits, Pages!WritePilgrim
  <1>3. CASE Pages!WriteGroup
    <2>1. GroupsFit' BY <1>3, GroupsStayFit DEF RowsFit
    <2> QED BY <1>1, <1>3, <2>1
        DEF RowsFit, PilgrimsFit, RequestsFit, TasksFit, LogFits, Pages!WriteGroup
  <1>4. CASE Pages!WriteRequest
    <2>1. RequestsFit' BY <1>4, RequestsStayFit DEF RowsFit
    <2> QED BY <1>1, <1>4, <2>1
        DEF RowsFit, PilgrimsFit, GroupsFit, TasksFit, LogFits, Pages!WriteRequest
  <1>5. CASE Pages!WriteTask
    <2>1. TasksFit' BY <1>5, TasksStayFit DEF RowsFit
    <2> QED BY <1>1, <1>5, <2>1
        DEF RowsFit, PilgrimsFit, GroupsFit, RequestsFit, LogFits, Pages!WriteTask
  <1>6. CASE Pages!WriteLog
    <2>1. LogFits' BY <1>6, LogStaysFit DEF RowsFit
    <2> QED BY <1>1, <1>6, <2>1
        DEF RowsFit, PilgrimsFit, GroupsFit, RequestsFit, TasksFit, Pages!WriteLog
  <1> QED BY ONLY <1>1, <1>2, <1>3, <1>4, <1>5, <1>6, Pages!Write DEF Pages!Write, Pages!Lists

-----------------------------------------------------------------------------
LEMMA WatchedIs ==
  ASSUME NEW L, NEW M
  PROVE  Pages!Watched(L, M) =
           IF walk.at = "closed" THEN walk
           ELSE [walk EXCEPT !.stayed = @ \cap Kept(L, M), !.twins = @ \cup Pages!Twins(M),
                             !.shifts = @ + Cardinality(DOMAIN L \ Kept(L, M)),
                             !.late = @ + Cardinality(DOMAIN M \ DOMAIN L)]
  BY SameCount DEF Pages!Watched, Kept

\* A write between two queries.
LEMMA WritesFollow ==
  ASSUME Keyed(Pages!Listed), Keyed(Pages!Listed)', WalkInv, Pages!Write
  PROVE  WalkInv'
  <1> DEFINE L == Pages!Listed
             M == Pages!Listed'
             kept == Kept(L, M)
             left == DOMAIN L \ kept
             came == DOMAIN M \ DOMAIN L
  <1>1. walk' = IF walk.at = "closed" THEN walk
                ELSE [walk EXCEPT !.stayed = @ \cap kept, !.twins = @ \cup Pages!Twins(M),
                                  !.shifts = @ + Cardinality(left),
                                  !.late = @ + Cardinality(came)]
    <2>1. walk' = Pages!Watched(L, M) BY DEF Pages!Write
    <2> HIDE DEF L, M
    <2> QED BY <2>1, WatchedIs
  <1>2. Keyed(L) /\ Keyed(M) OBVIOUS
  <1>3. CASE walk.at = "closed" BY <1>1, <1>3 DEF WalkInv, WalkFits
  <1>4. CASE walk.at # "closed"
    <2>1. Follows BY <1>4 DEF WalkInv
    <2>2. WalkFits BY DEF WalkInv
    <2>3. /\ left \in SUBSET Entries /\ came \in SUBSET Entries
          /\ DOMAIN L \in SUBSET Entries /\ DOMAIN M \in SUBSET Entries
          /\ Pages!Twins(M) \in SUBSET Entries /\ kept \in SUBSET DOMAIN M
      BY <1>2 DEF Keyed, Kept, Pages!Twins
    <2>4. Cardinality(left) \in Nat /\ Cardinality(came) \in Nat BY <2>3, FiniteRows
    <2> HIDE DEF L, M, kept, left, came
    <2>5. /\ walk'.at = walk.at /\ walk'.page = walk.page /\ walk'.total = walk.total
          /\ walk'.seen = walk.seen /\ walk'.stayed = walk.stayed \cap kept
          /\ walk'.twins = walk.twins \cup Pages!Twins(M)
          /\ walk'.shifts = walk.shifts + Cardinality(left)
          /\ walk'.late = walk.late + Cardinality(came)
      BY <1>1, <1>4, <2>2 DEF WalkFits
    <2>6. WalkFits'
      <3>1. /\ walk.stayed \cap kept \in SUBSET Entries
            /\ walk.twins \cup Pages!Twins(M) \in SUBSET Entries
            /\ walk.shifts + Cardinality(left) \in Nat /\ walk.late + Cardinality(came) \in Nat
        BY <2>2, <2>3, <2>4 DEF WalkFits
      <3> QED BY <1>1, <1>4, <2>2, <3>1 DEF WalkFits
    <2>7. walk.at \in {"rows", "shown"} => Cardinality(DOMAIN M) <= walk'.total + walk'.late
      <3>1. DOMAIN M \subseteq DOMAIN L \cup came BY DEF came
      <3>2. DOMAIN L \cup came \in SUBSET Entries BY <2>3
      <3>3. Cardinality(DOMAIN M) <= Cardinality(DOMAIN L \cup came) BY <3>1, <3>2, Fewer
      <3>4. Cardinality(DOMAIN L \cup came) <= Cardinality(DOMAIN L) + Cardinality(came)
        BY <2>3, Together
      <3>5. /\ Cardinality(DOMAIN M) \in Nat /\ Cardinality(DOMAIN L \cup came) \in Nat
            /\ Cardinality(DOMAIN L) \in Nat
        BY <2>3, <3>2, FiniteRows
      <3>6. walk.total \in Nat /\ walk.late \in Nat BY <2>2 DEF WalkFits
      <3> QED BY <2>1, <2>4, <2>5, <3>3, <3>4, <3>5, <3>6 DEF Follows, L
    <2>8. Cardinality(Missed') <= walk'.shifts
      <3> DEFINE n == Covered
                 slipped == {x \in Missed' : Place(L, x) >= n}
      <3>1. n \in Int /\ Covered' = n
        BY <2>2, <2>5, PageEnds DEF WalkFits, Covered
      <3>2. /\ Unseen' \subseteq Unseen /\ Unseen' \subseteq kept
            /\ Unseen \subseteq DOMAIN L /\ Unseen \cap Pages!Twins(L) = {}
        BY <2>1, <2>5 DEF Unseen, Follows, L
      <3>3. Missed' = {x \in Unseen' : Place(M, x) < n} BY <3>1 DEF Missed, M
      <3>4. Missed = {x \in Unseen : Place(L, x) < n} BY DEF Missed, L
      <3> HIDE DEF n
      <3>5. \A x \in Missed' : /\ x \in kept /\ x \in DOMAIN L /\ x \in DOMAIN M
                               /\ Place(L, x) \in Nat /\ Place(M, x) \in Nat
                               /\ Place(L, x) <= Place(M, x) + Cardinality(left)
        BY <1>2, <2>3, <3>2, <3>3, PlaceIsNatural, PlacesMoveUp DEF kept, left
      <3>6. \A x \in slipped : Place(L, x) \in n .. n + Cardinality(left) - 1
        BY <2>4, <3>1, <3>3, <3>5
      <3>7. slipped \in SUBSET (DOMAIN L \ Pages!Twins(L)) BY <3>2, <3>3
      <3>8. Cardinality(slipped) <= Cardinality(left)
        <4> DEFINE m == n + Cardinality(left) - 1
        <4>1. m \in Int /\ n <= m + 1 /\ m - n + 1 = Cardinality(left) BY <2>4, <3>1
        <4> HIDE DEF m, slipped
        <4>2. \A x \in slipped : Place(L, x) \in n .. m BY <3>6 DEF m
        <4>3. Cardinality(slipped) <= m - n + 1 BY <1>2, <3>1, <3>7, <4>1, <4>2, RoomForFew
        <4> QED BY <4>1, <4>3
      <3>9. Missed' \subseteq Missed \cup slipped
        BY <3>1, <3>2, <3>3, <3>4, <3>5
      <3>10. Missed \in SUBSET Entries /\ slipped \in SUBSET Entries
        BY <2>3, <3>2, <3>3, <3>4
      <3> HIDE DEF slipped
      <3>11. Cardinality(Missed') <= Cardinality(Missed \cup slipped)
        BY <3>9, <3>10, Fewer
      <3>12. Cardinality(Missed \cup slipped) <= Cardinality(Missed) + Cardinality(slipped)
        BY <3>10, Together
      <3>13. /\ Cardinality(Missed) \in Nat /\ Cardinality(slipped) \in Nat
             /\ Cardinality(Missed \cup slipped) \in Nat /\ Cardinality(Missed') \in Nat
        <4>1. Missed \cup slipped \in SUBSET Entries /\ Missed' \in SUBSET Entries
          BY <3>9, <3>10
        <4> QED BY <3>10, <4>1, FiniteRows
      <3>14. walk.shifts \in Nat BY <2>2 DEF WalkFits
      <3> QED BY <2>1, <2>4, <2>5, <3>8, <3>11, <3>12, <3>13, <3>14 DEF Follows
    <2>9. /\ walk'.page > 0 /\ walk'.stayed \subseteq DOMAIN M
          /\ Pages!Twins(M) \subseteq walk'.twins
      BY <2>1, <2>3, <2>5 DEF Follows
    <2> QED BY <2>5, <2>6, <2>7, <2>8, <2>9 DEF WalkInv, Follows, M
  <1> QED BY <1>3, <1>4


-----------------------------------------------------------------------------
\* While the tables stay as they are, the list does.
LEMMA ListStays ==
  ASSUME UNCHANGED <<list, Pages!tables>>
  PROVE  Pages!Listed' = Pages!Listed
  BY DEF Pages!tables, Pages!Listed, Pages!AgencyPilgrims, Pages!WithoutGroup,
         Pages!Leading, Pages!Idle, Pages!Found, Pages!GroupMembers, Pages!GroupsInStatus,
         Pages!DeletionRequests, Pages!FlaggedTasks, Pages!TasksByUpdate, Pages!Log,
         Pages!Ours, Pages!Created, Pages!Joined, Pages!Opened, Pages!TasksOf, Pages!Assigned,
         Pages!Touched

\* The client's own steps leave the list as it is.
LEMMA OpensFollow ==
  ASSUME Keyed(Pages!Listed), Pages!OpenList
  PROVE  WalkInv'
  <1> DEFINE L == Pages!Listed
  <1>1. DOMAIN L \in SUBSET Entries /\ Pages!Twins(L) \in SUBSET DOMAIN L BY
      DEF Keyed, Pages!Twins
  <1>2. Pages!Listed' = L
    BY ListStays DEF Pages!OpenList
  <1> HIDE DEF L
  <1>3. walk' = [Pages!NoWalk EXCEPT !.at = "count", !.page = 1, !.stayed = DOMAIN L,
                                     !.twins = Pages!Twins(L)]
    BY DEF Pages!OpenList, L
  <1>4. walk' = [at |-> "count", page |-> 1, total |-> 0, seen |-> {}, stayed |-> DOMAIN L,
                 twins |-> Pages!Twins(L), shifts |-> 0, late |-> 0]
    BY ONLY <1>3 DEF Pages!NoWalk
  <1>5. WalkFits' BY <1>1, <1>4 DEF WalkFits
  <1>6. Covered' = 0 BY <1>4, PagesAssumed DEF Covered
  <1>7. Missed' = {}
    <2>1. Unseen' \subseteq DOMAIN L BY <1>4 DEF Unseen
    <2>2. \A x \in DOMAIN L : ~(Place(L, x) < 0) BY PlaceIsNatural DEF L
    <2> QED BY <1>2, <1>6, <2>1, <2>2 DEF Missed
  <1>8. Cardinality(Missed') = 0 BY <1>7, FS_EmptySet
  <1> QED BY <1>2, <1>4, <1>5, <1>8 DEF WalkInv, Follows

LEMMA CountsFollow ==
  ASSUME Keyed(Pages!Listed), WalkInv, Pages!CountRows
  PROVE  WalkInv'
  <1>1. WalkFits /\ Follows /\ walk.at = "count" BY DEF WalkInv, Pages!CountRows
  <1>2. Pages!Listed' = Pages!Listed BY ListStays DEF Pages!CountRows
  <1>3. Cardinality(DOMAIN Pages!Listed) \in Nat BY FiniteRows DEF Keyed
  <1>4. walk' = [walk EXCEPT !.at = "rows", !.late = 0,
                             !.total = Cardinality(DOMAIN Pages!Listed)]
    BY SameCount DEF Pages!CountRows
  <1>5. /\ walk'.at = "rows" /\ walk'.late = 0
        /\ walk'.total = Cardinality(DOMAIN Pages!Listed)
        /\ walk'.page = walk.page /\ walk'.seen = walk.seen /\ walk'.stayed = walk.stayed
        /\ walk'.twins = walk.twins /\ walk'.shifts = walk.shifts
    BY <1>1, <1>4 DEF WalkFits
  <1>6. WalkFits' BY <1>1, <1>3, <1>4 DEF WalkFits
  <1>7. Missed' = Missed BY <1>1, <1>2, <1>5 DEF Missed, Unseen, Covered
  <1> QED BY <1>1, <1>2, <1>3, <1>5, <1>6, <1>7 DEF WalkInv, Follows

\* A page has every row whose place is on it, but for those that share their key.
LEMMA PagesAreComplete ==
  ASSUME Keyed(Pages!Listed), NEW n \in Int, NEW P \in SUBSET DOMAIN Pages!Listed,
         Pages!IsPage(P, n), NEW x \in DOMAIN Pages!Listed \ Pages!Twins(Pages!Listed),
         Place(Pages!Listed, x) \in n .. n + PageSize - 1
  PROVE  x \in P
  <1> DEFINE L == Pages!Listed
             same == {y \in DOMAIN L : L[y] = L[x]}
             places == Place(L, x) .. Place(L, x) + Cardinality(same) - 1
  <1>1. same = {x} BY DEF Pages!Twins
  <1>2. Cardinality(P \cap same) = Cardinality(places \cap (n .. n + PageSize - 1))
    BY SameCount DEF Pages!IsPage, Place, Before
  <1>3. Cardinality(same) = 1 BY <1>1, FS_Singleton
  <1>4. Place(L, x) \in Int BY PlaceIsNatural
  <1>5. places = {Place(L, x)} BY <1>3, <1>4
  <1>6. places \cap (n .. n + PageSize - 1) = {Place(L, x)} BY <1>5
  <1>7. Cardinality(P \cap same) = 1 BY <1>2, <1>6, FS_Singleton
  <1>8. P \cap same # {}
    <2> HIDE DEF same
    <2>1. P \cap same = {} => Cardinality(P \cap same) = 0 BY FS_EmptySet
    <2> QED BY <1>7, <2>1
  <1> QED BY <1>1, <1>8

LEMMA ReadsFollow ==
  ASSUME Keyed(Pages!Listed), WalkInv, Pages!ReadRows
  PROVE  WalkInv'
  <1> DEFINE L == Pages!Listed
             n == (walk.page - 1) * PageSize
  <1>1. WalkFits /\ Follows /\ walk.at = "rows" BY DEF WalkInv, Pages!ReadRows
  <1>2. Pages!Listed' = L BY ListStays DEF Pages!ReadRows
  <1>3. PICK P \in SUBSET DOMAIN L :
          /\ Pages!IsPage(P, n)
          /\ walk' = [walk EXCEPT !.at = "shown", !.seen = @ \cup P]
    BY DEF Pages!ReadRows, Pages!Skipped
  <1>4. DOMAIN L \in SUBSET Entries BY DEF Keyed
  <1>5. /\ walk'.at = "shown" /\ walk'.seen = walk.seen \cup P /\ walk'.late = walk.late
        /\ walk'.total = walk.total /\ walk'.page = walk.page /\ walk'.stayed = walk.stayed
        /\ walk'.twins = walk.twins /\ walk'.shifts = walk.shifts
    BY <1>1, <1>3 DEF WalkFits
  <1>6. WalkFits'
    <2>1. walk.seen \cup P \in SUBSET Entries BY <1>1, <1>4 DEF WalkFits
    <2> QED BY <1>1, <1>3, <2>1 DEF WalkFits
  <1>7. n \in Int /\ Covered = n /\ Covered' = n + PageSize
    BY <1>1, <1>5, PageEnds DEF WalkFits, Covered
  <1>8. Missed' \subseteq Missed
    <2> SUFFICES ASSUME NEW x \in Missed' PROVE x \in Missed OBVIOUS
    <2>1. /\ x \in walk.stayed /\ x \notin walk.seen /\ x \notin P /\ x \notin walk.twins
          /\ Place(L, x) < n + PageSize
      BY <1>2, <1>5, <1>7 DEF Missed, Unseen
    <2>2. x \in DOMAIN L \ Pages!Twins(L) BY <1>1, <2>1 DEF Follows
    <2>3. Place(L, x) \in Int BY <2>2, PlaceIsNatural
    <2> HIDE DEF n
    <2>4. Place(L, x) < n
      <3>1. Place(L, x) \notin n .. n + PageSize - 1
        BY <1>3, <1>7, <2>1, <2>2, PagesAreComplete
      <3> QED BY <1>7, <2>1, <2>3, <3>1, PagesAssumed
    <2> QED BY <1>7, <2>1, <2>4 DEF Missed, Unseen
  <1>9. Cardinality(Missed') <= walk'.shifts
    <2>1. Missed \in SUBSET Entries BY <1>1, <1>4 DEF Missed, Unseen, Follows
    <2>2. Cardinality(Missed') <= Cardinality(Missed) BY <1>8, <2>1, Fewer
    <2>3. Cardinality(Missed') \in Nat /\ Cardinality(Missed) \in Nat BY <1>8, <2>1, FiniteRows
    <2>4. walk.shifts \in Nat BY <1>1 DEF WalkFits
    <2> QED BY <1>1, <1>5, <2>2, <2>3, <2>4 DEF Follows
  <1> QED BY <1>1, <1>2, <1>5, <1>6, <1>9 DEF WalkInv, Follows

LEMMA TurnsFollow ==
  ASSUME WalkInv, Pages!TurnPage
  PROVE  WalkInv'
  <1>1. WalkFits /\ Follows /\ walk.at = "shown" BY DEF WalkInv, Pages!TurnPage
  <1>2. Pages!Listed' = Pages!Listed BY ListStays DEF Pages!TurnPage
  <1>3. walk' = [walk EXCEPT !.at = "count", !.page = walk.page + 1] BY DEF Pages!TurnPage
  <1>4. /\ walk'.at = "count" /\ walk'.page = walk.page + 1 /\ walk'.seen = walk.seen
        /\ walk'.stayed = walk.stayed /\ walk'.twins = walk.twins /\ walk'.shifts = walk.shifts
    BY <1>1, <1>3 DEF WalkFits
  <1>5. WalkFits'
    <2>1. walk.page + 1 \in Nat BY <1>1 DEF WalkFits
    <2> QED BY <1>1, <1>3, <2>1 DEF WalkFits
  <1>6. Covered' = Covered BY <1>1, <1>4, PageEnds DEF WalkFits, Covered
  <1>7. Missed' = Missed BY <1>2, <1>4, <1>6 DEF Missed, Unseen
  <1> QED BY <1>1, <1>2, <1>4, <1>5, <1>7 DEF WalkInv, Follows, WalkFits

-----------------------------------------------------------------------------
\* What is behind the last page has come since the count.
LEMMA FewAreBehind ==
  ASSUME Keyed(Pages!Listed), WalkInv
  PROVE  PagesMissOnlyTheMoved
  <1> DEFINE L == Pages!Listed
             total == Cardinality(DOMAIN L)
             n == walk.page * PageSize
             behind == Unseen \ Missed
  <1> SUFFICES ASSUME walk.at = "shown", Pages!LastPage
               PROVE  Cardinality(Unseen) <= walk.shifts + walk.late
    BY SameCount DEF PagesMissOnlyTheMoved, Pages!PagesMissOnlyTheMoved, Unseen
  <1>1. WalkFits /\ Follows BY DEF WalkInv
  <1>2. walk.page \in Nat /\ walk.total \in Nat /\ walk.shifts \in Nat /\ walk.late \in Nat
    BY <1>1 DEF WalkFits
  <1>3. n \in Int /\ n >= walk.total /\ Covered = n
    BY <1>2, PageEnds, LastPageEnds DEF Pages!LastPage, Covered
  <1>4. DOMAIN L \in SUBSET Entries /\ total \in Nat BY FiniteRows DEF Keyed
  <1>5. Unseen \subseteq DOMAIN L \ Pages!Twins(L) BY <1>1 DEF Follows, Unseen
  <1>6. total <= walk.total + walk.late BY <1>1 DEF Follows
  <1>7. Cardinality(behind) <= walk.late
    <2>1. \A x \in behind : Place(L, x) >= n /\ Place(L, x) < total /\ Place(L, x) \in Nat
      BY <1>3, <1>5, PlaceIsNatural DEF Missed
    <2> HIDE DEF n, total
    <2>2. behind \in SUBSET (DOMAIN L \ Pages!Twins(L)) BY <1>5
    <2>3. CASE n <= total
      <3>1. total - 1 \in Int /\ n <= (total - 1) + 1 BY <1>4, <2>3
      <3>2. \A x \in behind : Place(L, x) \in n .. (total - 1) BY <1>3, <1>4, <2>1
      <3> HIDE DEF behind
      <3>3. Cardinality(behind) <= (total - 1) - n + 1
        BY <1>3, <2>2, <3>1, <3>2, RoomForFew
      <3>4. Cardinality(behind) \in Nat BY <1>4, <2>2, FiniteRows
      <3> QED BY <1>2, <1>3, <1>4, <1>6, <3>3, <3>4
    <2>4. CASE n > total
      <3>1. behind = {} BY <1>3, <1>4, <2>1, <2>4
      <3> QED BY <1>2, <3>1, FS_EmptySet
    <2> QED BY <1>3, <1>4, <2>3, <2>4
  <1>8. Unseen = Missed \cup behind BY DEF Missed
  <1>9. Missed \in SUBSET Entries /\ behind \in SUBSET Entries BY <1>4, <1>5 DEF Missed
  <1> HIDE DEF behind
  <1>10. Cardinality(Unseen) <= Cardinality(Missed) + Cardinality(behind)
    BY <1>8, <1>9, Together
  <1>11. /\ Cardinality(Unseen) \in Nat /\ Cardinality(Missed) \in Nat
         /\ Cardinality(behind) \in Nat
    BY <1>4, <1>5, <1>9, FiniteRows
  <1> QED BY <1>1, <1>2, <1>7, <1>10, <1>11 DEF Follows

\* Turning the pages misses no row that kept its place, but for what moved meanwhile.
THEOREM WalksMissOnlyTheMoved == OfficeSpec => []PagesMissOnlyTheMoved
<1>1. OfficeInit => RowsFit /\ WalkInv
  BY PagesAssumed
     DEF OfficeInit, Pages!Init, RowsFit, PilgrimsFit, PilgrimRow, OursAreThere, GroupsFit,
         RequestsFit, TasksFit, LogFits, Stamps, WalkInv, WalkFits, Pages!NoWalk,
         Pages!NoPilgrim, Pages!NoGroup, Pages!NoRequest, Pages!NoTask
<1>2. RowsFit /\ [OfficeNext]_<<vars, staffVars, tourVars, pageVars, part>> => RowsFit'
  <2>1. ASSUME RowsFit, Pages!Write PROVE RowsFit' BY <2>1, RowsStayFit
  <2>2. ASSUME RowsFit, UNCHANGED <<list, Pages!tables>> PROVE RowsFit'
    BY <2>2 DEF RowsFit, PilgrimsFit, GroupsFit, RequestsFit, TasksFit, LogFits, Pages!tables
  <2>3. UNCHANGED pageVars => UNCHANGED <<list, Pages!tables>> BY DEF pageVars, Pages!tables
  <2> QED BY <2>1, <2>2, <2>3
          DEF OfficeNext, Pages!Next, Pages!OpenList, Pages!CountRows, Pages!ReadRows,
              Pages!TurnPage, Pages!CloseList
<1>3. RowsFit => Keyed(Pages!Listed) BY ListsAreKeyed
<1>4. /\ WalkInv /\ Keyed(Pages!Listed) /\ Keyed(Pages!Listed)'
      /\ [OfficeNext]_<<vars, staffVars, tourVars, pageVars, part>>
      => WalkInv'
  <2> SUFFICES ASSUME WalkInv, Keyed(Pages!Listed), Keyed(Pages!Listed)',
                      [OfficeNext]_<<vars, staffVars, tourVars, pageVars, part>>
               PROVE  WalkInv'
    OBVIOUS
  <2>1. CASE Pages!Write BY <2>1, WritesFollow
  <2>2. CASE Pages!OpenList BY <2>2, OpensFollow
  <2>3. CASE Pages!CountRows BY <2>3, CountsFollow
  <2>4. CASE Pages!ReadRows BY <2>4, ReadsFollow
  <2>5. CASE Pages!TurnPage BY <2>5, TurnsFollow
  <2>6. CASE Pages!CloseList
    BY <2>6 DEF Pages!CloseList, Pages!NoWalk, WalkInv, WalkFits
  <2>7. CASE UNCHANGED pageVars
    <3>1. UNCHANGED <<list, Pages!tables, walk>> BY <2>7 DEF pageVars, Pages!tables
    <3>2. Pages!Listed' = Pages!Listed BY <3>1, ListStays
    <3> QED BY <3>1, <3>2 DEF WalkInv, WalkFits, Follows, Missed, Unseen, Covered
  <2> QED BY <2>1, <2>2, <2>3, <2>4, <2>5, <2>6, <2>7 DEF OfficeNext, Pages!Next
<1>5. Keyed(Pages!Listed) /\ WalkInv => PagesMissOnlyTheMoved BY FewAreBehind
<1> QED BY <1>1, <1>2, <1>3, <1>4, <1>5, PTL DEF OfficeSpec

=============================================================================
