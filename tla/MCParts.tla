------------------------------- MODULE MCParts -------------------------------
(***************************************************************************)
(* Twelve parts of the system that share no state, for TLC: one run        *)
(* explores one of them (part), never two at a time.                       *)
(***************************************************************************)
EXTENDS EdgeCommands, Sessions, LoginLimiter, TankLookup,
        QuotaDelivery, StaleSweep, UserDirectory, ChannelConfig, TankHistory,
        MCLevelFilter, Tenancy

VARIABLE part

partsVars == <<part, edgeCmdVars, sessionVars, limiterVars, lookupVars, quotaVars,
               sweepVars, directoryVars, channelVars, historyVars,
               filterVars, orgVars, assetVars>>

\* The variables of the other parts keep their initial values.
PartsTypeOK ==
  CASE part = "edge commands" -> EdgeCommandsTypeOK
    [] part = "sessions" -> SessionsTypeOK
    [] part = "limiter" -> LoginLimiterTypeOK
    [] part = "lookup" -> TankLookupTypeOK
    [] part = "quota" -> QuotaDeliveryTypeOK
    [] part = "sweep" -> StaleSweepTypeOK
    [] part = "users" -> UserDirectoryTypeOK
    [] part = "channel" -> ChannelConfigTypeOK
    [] part = "history" -> TankHistoryTypeOK
    [] part = "filter" -> LevelFilterTypeOK
    [] part = "organisation" -> OrgRegistryTypeOK
    [] part = "assets" -> TankRegistryTypeOK

PartsInit ==
  /\ EdgeCommandsInit /\ SessionsInit /\ LoginLimiterInit /\ TankLookupInit
  /\ QuotaDeliveryInit /\ StaleSweepInit /\ UserDirectoryInit
  /\ ChannelConfigInit /\ TankHistoryInit
  /\ LevelFilterInit /\ OrgRegistryInit /\ TankRegistryInit
  /\ part \in {"edge commands", "sessions", "limiter", "lookup", "quota", "sweep",
               "users", "channel", "history", "filter", "organisation", "assets"}
  /\ part # "filter" => shape = "rectangular"   \* one initial state each

PartsNext ==
  /\ UNCHANGED part
  /\ \/ part = "edge commands" /\ EdgeCommandsNext
     \/ part # "edge commands" /\ UNCHANGED edgeCmdVars
  /\ \/ part = "sessions" /\ SessionsNext
     \/ part # "sessions" /\ UNCHANGED sessionVars
  /\ \/ part = "limiter" /\ LoginLimiterNext
     \/ part # "limiter" /\ UNCHANGED limiterVars
  /\ \/ part = "lookup" /\ TankLookupNext
     \/ part # "lookup" /\ UNCHANGED lookupVars
  /\ \/ part = "quota" /\ QuotaDeliveryNext
     \/ part # "quota" /\ UNCHANGED quotaVars
  /\ \/ part = "sweep" /\ StaleSweepNext
     \/ part # "sweep" /\ UNCHANGED sweepVars
  /\ \/ part = "users" /\ UserDirectoryNext
     \/ part # "users" /\ UNCHANGED directoryVars
  /\ \/ part = "channel" /\ ChannelConfigNext
     \/ part # "channel" /\ UNCHANGED channelVars
  /\ \/ part = "history" /\ TankHistoryNext
     \/ part # "history" /\ UNCHANGED historyVars
  /\ \/ part = "filter" /\ LevelFilterNext
     \/ part # "filter" /\ UNCHANGED filterVars
  /\ \/ part = "organisation" /\ OrgRegistryNext
     \/ part # "organisation" /\ UNCHANGED orgVars
  /\ \/ part = "assets" /\ TankRegistryNext
     \/ part # "assets" /\ UNCHANGED assetVars

PartsSpec == PartsInit /\ [][PartsNext]_partsVars
=============================================================================
