----------------------------- MODULE TrackTags -----------------------------
(***************************************************************************)
(* TrackServer with a record of the users the application has tagged: the   *)
(* tag of a user is documented to be persistent (irc_track.h), which is     *)
(* about the server's channels as much as about the tracker's objects.      *)
(***************************************************************************)
EXTENDS TrackServer

VARIABLE
  tagged   \* keys of the users tagged since when they are in a channel of ours

TagsInit == ServerInit /\ tagged = {}

(* We tag a user when we are up to date: the record starts.                 *)
Tags(n) ==
  /\ \E t \in TagKinds \ {"none"} : irc_tag_user(n, t)
  /\ UNCHANGED server
  /\ tagged' = IF CaughtUp THEN tagged \cup {NickKey[n]} ELSE tagged

(* It ends when the user shares no channel with us any more, or has another *)
(* nickname.                                                                *)
Sharing == {NickKey[n] : n \in {m \in Nick : Common(m)}}

TagsNext ==
  \/ \E n \in Nick : Tags(n)
  \/ ServerNext /\ (tagged' = tagged \cap Sharing')

TagsSpec == TagsInit /\ [][TagsNext]_<<allvars, tagged>>

(* Whoever has been tagged, and has shared a channel with us ever since, is *)
(* known and has the tag.                                                   *)
TagPersists ==
  CaughtUp => \A k \in tagged : k \in DOMAIN users /\ uobj[users[k]].tag # "none"

=============================================================================
