---------------------------- MODULE MCKeyedUnion -----------------------------
(* Model-checking instance of KeyedUnion.                                   *)
EXTENDS KeyedUnion

(* Channelinfo and DeviceChannel are both keyed by ChannelConnection;      *)
(* DomainBuildInfo has the most variants and a negative sentinel.          *)
MCClosedStructs == {"Channelinfo", "DeviceChannel", "DomainBuildInfo"}

(* The zero value and -2, which no tag enumeration declares. *)
MCForeignTags == {ZeroValue, -2}

=============================================================================
