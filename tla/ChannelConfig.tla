---------------------------- MODULE ChannelConfig ----------------------------
(***************************************************************************)
(* The configuration of a notification channel, edited by operators who    *)
(* only ever see its secrets masked: services/notifications/secrets.py     *)
(* behind api/v1/notifications.py.  An editor sends back what he read,     *)
(* however long ago, with one field edited.  A PATCH reads the stored      *)
(* configuration, merges into it, and commits all of it.                   *)
(***************************************************************************)
CONSTANTS
  Secrets,    \* keys is_secret_key recognizes for the channel's type
  Plain,      \* other keys
  Values,     \* what a field may hold
  Editors,
  Mask, Blank, Missing

ASSUME ChannelConfigAssumption ==
  /\ Secrets \cap Plain = {}
  /\ {Mask, Blank, Missing} \cap Values = {}
  /\ Mask # Blank /\ Mask # Missing /\ Blank # Missing

VARIABLES
  stored,   \* config_json
  view,     \* what each editor has read, edited or not
  patch,    \* a PATCH that has read the stored configuration
  intended, \* history: the value last given to each secret
  collided  \* history: two PATCHes overlapped

channelVars == <<stored, view, patch, intended, collided>>

Fields == Secrets \cup Plain
Config == [Fields -> Values \cup {Mask, Blank, Missing}]
NoPatch == [of |-> "nobody"]

ChannelConfigTypeOK ==
  /\ stored \in Config
  /\ view \in [Editors -> Config]
  /\ patch \in [Editors -> {NoPatch} \cup [of : {"editor"}, merged : Config, incoming : Config]]
  /\ intended \in [Secrets -> Values \cup {Missing}]
  /\ collided \in BOOLEAN

Nothing == [f \in Fields |-> Missing]

\* a channel just created, with its default configuration
ChannelConfigInit ==
  /\ stored = Nothing
  /\ view = [e \in Editors |-> Nothing]
  /\ patch = [e \in Editors |-> NoPatch]
  /\ intended = [s \in Secrets |-> Missing]
  /\ collided = FALSE

-----------------------------------------------------------------------------
mask_config(config) ==
  [f \in Fields |-> IF f \in Secrets /\ config[f] # Missing THEN Mask ELSE config[f]]

is_masked(value) == value \in {Mask, Blank}

\* mutant: an empty value is taken for a new secret
merge_config_BlankIsNew(old, incoming) ==
  [f \in Fields |->
    IF f \in Plain THEN incoming[f]
    ELSE IF incoming[f] \in {Mask, Missing} THEN old[f] ELSE incoming[f]]

\* A secret that is new and masked is stored as the mask.
merge_config(old, incoming) ==
  [f \in Fields |->
    IF f \in Plain THEN incoming[f]
    ELSE IF incoming[f] = Missing THEN old[f]
    ELSE IF ~is_masked(incoming[f]) THEN incoming[f]
    ELSE IF old[f] = Missing THEN Mask ELSE old[f]]

\* get_gateway, list_gateways
ReadChannel(e) ==
  /\ patch[e] = NoPatch
  /\ view' = [view EXCEPT ![e] = mask_config(stored)]
  /\ UNCHANGED <<stored, patch, intended, collided>>

(* A field set, cleared or removed in the editor's copy, and a PATCH: *)
PatchChannel(e) ==
  /\ patch[e] = NoPatch
  /\ \E f \in Fields, v \in Values \cup {Blank, Missing} :
       LET incoming == [view[e] EXCEPT ![f] = v] IN
       patch' = [patch EXCEPT ![e] = [of |-> "editor", incoming |-> incoming,
                                      merged |-> merge_config(stored, incoming)]]
  /\ collided' = (collided \/ \E d \in Editors : patch[d] # NoPatch)
  /\ UNCHANGED <<stored, view, intended>>

CommitChannel(e) ==
  /\ patch[e] # NoPatch
  /\ stored' = patch[e].merged
  /\ intended' = [s \in Secrets |->
       IF patch[e].incoming[s] \in Values THEN patch[e].incoming[s] ELSE intended[s]]
  /\ patch' = [patch EXCEPT ![e] = NoPatch]
  /\ view' = [view EXCEPT ![e] = mask_config(stored')]
  /\ UNCHANGED collided

ChannelConfigNext ==
  \E e \in Editors : ReadChannel(e) \/ PatchChannel(e) \/ CommitChannel(e)

ChannelConfigSpec == ChannelConfigInit /\ [][ChannelConfigNext]_channelVars

-----------------------------------------------------------------------------
\* A secret keeps the value last given to it, however stale the copies the editors send
\* back ("an operator editing "priority" can never silently wipe the password",
\* secrets.py:10-12), unless two PATCHes overlapped: the later writes back what it read.
SecretsSurvive ==
  collided \/ \A s \in Secrets : intended[s] # Missing => stored[s] = intended[s]
=============================================================================
