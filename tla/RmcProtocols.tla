---------------------------- MODULE RmcProtocols ----------------------------
(***************************************************************************)
(* The RMC protocols of the two PRUDP servers: for each protocol that      *)
(* dedicated-server/src/main.rs registers, what its dispatch function      *)
(* decides by.  The functions are generated and have one shape: a method   *)
(* number the enumeration does not have is unknown, the parameters are     *)
(* parsed, and a method the service does not override is unimplemented.    *)
(*                                                                         *)
(*   Methods  the enumeration; a method's number is its position           *)
(*   Bare     methods whose request has no parameters, which always parse  *)
(*   Silent   methods whose answer carries nothing                         *)
(*   Served   methods the server overrides                                 *)
(*                                                                         *)
(* Every method served on the secure server begins with login_required.    *)
(***************************************************************************)
EXTENDS Integers, Sequences

\* A protocol with a generated dispatch: the login is looked at by the method.
Generated(id, methods, bare, silent, served) ==
    [id |-> id, methods |-> methods, bare |-> bare, silent |-> silent, served |-> served,
     loginFirst |-> FALSE]

\* A protocol written by hand, which looks at the login before the method.
Overlord(id, methods, bare) ==
    [id |-> id, methods |-> methods, bare |-> bare, silent |-> {}, served |-> {methods[1]},
     loginFirst |-> TRUE]

-----------------------------------------------------------------------------
\* challenge_helper_service/challenge_helper_protocol.rs, dedicated-server/src/challenge.rs
ChallengeHelperMethods == <<"GenerateMyFriendChallenges", "GenerateFriendChallenges",
    "GetOnlineChallenges">>
ChallengeHelperBare == {"GetOnlineChallenges"}
ChallengeHelperSilent == {}
ChallengeHelperServed == {"GenerateFriendChallenges"}
ChallengeHelper ==
    Generated(105, ChallengeHelperMethods, ChallengeHelperBare, ChallengeHelperSilent, ChallengeHelperServed)
-----------------------------------------------------------------------------
\* clan_helper_service/clan_helper_protocol.rs, dedicated-server/src/clan.rs
ClanHelperMethods == <<"SetClanInfo", "AddPidToClid", "RemoveMemberByPid", "DisbandEntireClid",
    "GetClanInfoByPid", "GetClanInfoByClid", "GetMemberListByPid", "GetMemberListByClid",
    "GenerateClanChallenges">>
ClanHelperBare == {}
ClanHelperSilent == {"SetClanInfo", "AddPidToClid", "RemoveMemberByPid", "DisbandEntireClid"}
ClanHelperServed == {"GetClanInfoByPid", "GetMemberListByClid", "GenerateClanChallenges"}
ClanHelper ==
    Generated(106, ClanHelperMethods, ClanHelperBare, ClanHelperSilent, ClanHelperServed)
-----------------------------------------------------------------------------
\* game_session_ex_service/game_session_ex_protocol.rs, dedicated-server/src/game_session_ex.rs
GameSessionExMethods == <<"SearchSessions">>
GameSessionExBare == {}
GameSessionExSilent == {}
GameSessionExServed == {"SearchSessions"}
GameSessionEx ==
    Generated(123, GameSessionExMethods, GameSessionExBare, GameSessionExSilent, GameSessionExServed)
-----------------------------------------------------------------------------
\* game_session_service/game_session_protocol.rs, dedicated-server/src/game_session.rs
GameSessionMethods == <<"CreateSession", "UpdateSession", "DeleteSession", "MigrateSession",
    "LeaveSession", "GetSession", "SearchSessions", "AddParticipants", "RemoveParticipants",
    "GetParticipantCount", "GetParticipants", "SendInvitation", "GetInvitationReceivedCount",
    "GetInvitationsReceived", "GetInvitationSentCount", "GetInvitationsSent",
    "AcceptInvitation", "DeclineInvitation", "CancelInvitation", "SendTextMessage",
    "RegisterUrLs", "JoinSession", "AbandonSession", "SearchSessionsWithParticipants",
    "GetSessions", "GetParticipantsUrLs", "MigrateSessionHost", "SplitSession",
    "SearchSocialSessions", "ReportUnsuccessfulJoinSessions">>
GameSessionBare == {}
GameSessionSilent == {"UpdateSession", "DeleteSession", "LeaveSession", "AddParticipants",
    "RemoveParticipants", "SendInvitation", "AcceptInvitation", "DeclineInvitation",
    "CancelInvitation", "SendTextMessage", "RegisterUrLs", "JoinSession", "AbandonSession",
    "MigrateSessionHost", "ReportUnsuccessfulJoinSessions"}
GameSessionServed == {"CreateSession", "UpdateSession", "DeleteSession", "MigrateSession",
    "LeaveSession", "AddParticipants", "RemoveParticipants", "RegisterUrLs", "JoinSession",
    "AbandonSession", "SearchSessionsWithParticipants", "MigrateSessionHost", "SplitSession",
    "ReportUnsuccessfulJoinSessions"}
GameSession ==
    Generated(42, GameSessionMethods, GameSessionBare, GameSessionSilent, GameSessionServed)
-----------------------------------------------------------------------------
\* ladder_helper_service/ladder_helper_protocol.rs, dedicated-server/src/ladder.rs
LadderHelperMethods == <<"GetUnixUtc", "AreLaddersAvailableInCountry", "CheckLadderIsRunning",
    "ClearLadderLeaderboard">>
LadderHelperBare == {"GetUnixUtc", "AreLaddersAvailableInCountry"}
LadderHelperSilent == {}
LadderHelperServed == {"GetUnixUtc"}
LadderHelper ==
    Generated(107, LadderHelperMethods, LadderHelperBare, LadderHelperSilent, LadderHelperServed)
-----------------------------------------------------------------------------
\* localization_service/localization_protocol.rs, dedicated-server/src/locale.rs
LocalizationMethods == <<"GetLocaleCode", "SetLocaleCode">>
LocalizationBare == {"GetLocaleCode"}
LocalizationSilent == {"SetLocaleCode"}
LocalizationServed == {"SetLocaleCode"}
Localization ==
    Generated(39, LocalizationMethods, LocalizationBare, LocalizationSilent, LocalizationServed)
-----------------------------------------------------------------------------
\* nat_traversal/nat_traversal_protocol.rs, dedicated-server/src/nat_traversal.rs
NatTraversalMethods == <<"RequestProbeInitiation", "InitiateProbe",
    "RequestProbeInitiationExt">>
NatTraversalBare == {}
NatTraversalSilent == {"RequestProbeInitiation", "InitiateProbe", "RequestProbeInitiationExt"}
NatTraversalServed == {"RequestProbeInitiationExt"}
NatTraversal ==
    Generated(3, NatTraversalMethods, NatTraversalBare, NatTraversalSilent, NatTraversalServed)
-----------------------------------------------------------------------------
\* player_stats_service/player_stats_protocol.rs, dedicated-server/src/player_stats.rs
PlayerStatsMethods == <<"WriteStats", "ReadStatsByPlayers", "ReadLeaderboardsNearPlayer",
    "ReadLeaderboardsByRank", "ReadLeaderboardsByPlayers", "ReadStatboardHistory",
    "ReadLeaderboardHistory", "ReadStatboardHistoryAggregated", "GetStatboardNextPurgeDate",
    "ReadLeaderboardsNearPlayer2", "ReadLeaderboardsByRank2", "ReadLeaderboardsByPlayers2",
    "ReadPopulationStats">>
PlayerStatsBare == {}
PlayerStatsSilent == {"WriteStats"}
PlayerStatsServed == {"WriteStats", "ReadStatsByPlayers"}
PlayerStats ==
    Generated(55, PlayerStatsMethods, PlayerStatsBare, PlayerStatsSilent, PlayerStatsServed)
-----------------------------------------------------------------------------
\* privileges_service/privileges_protocol.rs, dedicated-server/src/privileges.rs
PrivilegesMethods == <<"GetPrivileges", "ActivateKey", "ActivateKeyWithExpectedPrivileges",
    "GetPrivilegeRemainDuration", "GetExpiredPrivileges", "GetPrivilegesEx">>
PrivilegesBare == {"GetExpiredPrivileges"}
PrivilegesSilent == {}
PrivilegesServed == {"GetPrivileges"}
Privileges ==
    Generated(35, PrivilegesMethods, PrivilegesBare, PrivilegesSilent, PrivilegesServed)
-----------------------------------------------------------------------------
\* secure_connection_service/secure_connection_protocol.rs, dedicated-server/src/secure.rs
SecureConnectionMethods == <<"Register", "RequestConnectionData", "RequestUrLs", "RegisterEx">>
SecureConnectionBare == {}
SecureConnectionSilent == {}
SecureConnectionServed == {"Register", "RegisterEx"}
SecureConnection ==
    Generated(11, SecureConnectionMethods, SecureConnectionBare, SecureConnectionSilent, SecureConnectionServed)
-----------------------------------------------------------------------------
\* trackingextension/tracking_extension_protocol.rs, dedicated-server/src/tracking_ext.rs
TrackingExtensionMethods == <<"GetTrackingUserGroup", "GetTrackingUserGroupTags">>
TrackingExtensionBare == {}
TrackingExtensionSilent == {}
TrackingExtensionServed == {"GetTrackingUserGroup", "GetTrackingUserGroupTags"}
TrackingExtension ==
    Generated(1001, TrackingExtensionMethods, TrackingExtensionBare, TrackingExtensionSilent, TrackingExtensionServed)
-----------------------------------------------------------------------------
\* tracking_service/tracking_protocol_3.rs, dedicated-server/src/tracking.rs
Tracking3Methods == <<"SendTag", "SendTagAndUpdateUserInfo", "SendUserInfo", "GetConfiguration",
    "SendTags">>
Tracking3Bare == {"GetConfiguration"}
Tracking3Silent == {"SendTag", "SendTagAndUpdateUserInfo", "SendTags"}
Tracking3Served == {"GetConfiguration", "SendTags"}
Tracking3 ==
    Generated(36, Tracking3Methods, Tracking3Bare, Tracking3Silent, Tracking3Served)
-----------------------------------------------------------------------------
\* ubi_account_management_service/ubi_account_management_protocol.rs, dedicated-server/src/ubi_acc_mgmt.rs
UbiAccountManagementMethods == <<"CreateAccount", "UpdateAccount", "GetAccount", "LinkAccount",
    "GetTos", "ValidateUsername", "ValidatePassword", "ValidateEmail", "GetCountryList",
    "ForgetPassword", "LookupPrincipalIds", "LookupUbiAccountIDsByPids",
    "LookupUbiAccountIDsByUsernames", "LookupUsernamesByUbiAccountIDs",
    "LookupUbiAccountIDsByUsernameSubString", "UserHasPlayed", "IsUserPlaying",
    "LookupUbiAccountIDsByUsernamesGlobal", "LookupUbiAccountIDsByEmailsGlobal",
    "LookupUsernamesByUbiAccountIDsGlobal", "GetTosEx", "HasAcceptedLatestTos",
    "AcceptLatestTos">>
UbiAccountManagementBare == {"CreateAccount", "UpdateAccount", "GetAccount",
    "HasAcceptedLatestTos", "AcceptLatestTos"}
UbiAccountManagementSilent == {"LinkAccount", "ForgetPassword"}
UbiAccountManagementServed == {"LookupPrincipalIds", "LookupUbiAccountIDsByPids",
    "HasAcceptedLatestTos"}
UbiAccountManagement ==
    Generated(29, UbiAccountManagementMethods, UbiAccountManagementBare, UbiAccountManagementSilent, UbiAccountManagementServed)
-----------------------------------------------------------------------------
\* uplay_win_service/uplay_win_protocol.rs, dedicated-server/src/uplay_win.rs
UplayWinMethods == <<"GetActions", "GetActionsCompleted", "GetActionsCount",
    "GetActionsCompletedCount", "GetRewards", "GetRewardsPurchased", "UplayWelcome",
    "SetActionCompleted", "SetActionsCompleted", "GetUserToken",
    "GetVirtualCurrencyUserBalance", "GetSectionsByKey", "BuyReward">>
UplayWinBare == {"GetUserToken"}
UplayWinSilent == {}
UplayWinServed == {"GetActionsCompleted", "GetRewardsPurchased", "UplayWelcome"}
UplayWin ==
    Generated(49, UplayWinMethods, UplayWinBare, UplayWinSilent, UplayWinServed)
-----------------------------------------------------------------------------
\* user_storage/user_storage_protocol.rs, dedicated-server/src/user_storage.rs
UserStorageMethods == <<"SearchContents", "SearchContentsWithTotal", "DeleteContent",
    "SaveMetaData", "SaveContentDb", "SaveContentAndGetUploadInfo", "UploadEnd", "GetContentDb",
    "GetContentUrl", "GetSlotCount", "GetMetaData", "Like", "Unlike", "IsLiked",
    "GetFavourites", "MakeFavourite", "RemoveFromFavourites", "ReportInappropriate",
    "IncrementPlayCount", "UpdateCustomStat", "GetOwnContents", "GetMostPopularTags", "GetTags",
    "TagContent", "SearchContentsByPlayers", "SearchContentsByPlayersWithTotal">>
UserStorageBare == {}
UserStorageSilent == {"DeleteContent", "Like", "Unlike", "MakeFavourite",
    "RemoveFromFavourites", "ReportInappropriate", "IncrementPlayCount", "UpdateCustomStat",
    "TagContent"}
UserStorageServed == {"SearchContents", "GetContentUrl"}
UserStorage ==
    Generated(53, UserStorageMethods, UserStorageBare, UserStorageSilent, UserStorageServed)
-----------------------------------------------------------------------------
\* authentication_foundation/ticket_granting_protocol.rs, dedicated-server/src/ticket.rs
TicketGrantingMethods == <<"Login", "LoginEx", "RequestTicket", "GetPid", "GetName",
    "LoginWithContext">>
TicketGrantingBare == {}
TicketGrantingSilent == {}
TicketGrantingServed == {"Login", "LoginEx", "RequestTicket"}
TicketGranting ==
    Generated(10, TicketGrantingMethods, TicketGrantingBare, TicketGrantingSilent, TicketGrantingServed)
-----------------------------------------------------------------------------
\* overlord_news.rs, overlord_core.rs, overlord_challenge.rs
OverlordNews == Overlord(5002, <<"get_news">>, {"get_news"})
OverlordCore == Overlord(5003, <<"fetch_config">>, {"fetch_config"})
OverlordChallenge == Overlord(5007, <<"get_challenges">>, {})

-----------------------------------------------------------------------------
\* start_server: the protocols of each server. register_protocol overwrites
\* one that has the same number.
SecureProtocols ==
    <<ChallengeHelper, ClanHelper, GameSessionEx, GameSession, LadderHelper, Localization,
      NatTraversal, OverlordChallenge, OverlordCore, OverlordNews, PlayerStats, Privileges,
      SecureConnection, TrackingExtension, Tracking3, UbiAccountManagement, UplayWin,
      UserStorage>>

AuthProtocols == <<TicketGranting>>

=============================================================================
