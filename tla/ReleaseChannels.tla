--------------------------- MODULE ReleaseChannels ---------------------------
(***************************************************************************)
(* Release channels as a spec names them and as GKE does, and the two ways *)
(* the code goes from one to the other: creation refuses a name it does    *)
(* not know, an update sends REGULAR for it.                               *)
(***************************************************************************)
CONSTANT Nil    \* the nil pointer, slice or map

\* A channel nobody asked for: the nil pointer, or the empty string that the
\* custom resource definition lets through.
Unrequested == {Nil, ""}

specToGKEReleaseChannel ==
    [Rapid |-> "RAPID", Regular |-> "REGULAR", Stable |-> "STABLE", Extended |-> "EXTENDED"]

SpecChannels == DOMAIN specToGKEReleaseChannel

GKEChannels == { specToGKEReleaseChannel[c] : c \in SpecChannels }

\* What GKE reports for a cluster in no channel.
NoChannel == "UNSPECIFIED"

InvalidChannel == "invalid release channel"

validateAndMapReleaseChannel(channel) ==
    IF channel \in Unrequested THEN "REGULAR"
    ELSE IF channel \in SpecChannels THEN specToGKEReleaseChannel[channel]
    ELSE InvalidChannel

gkeReleaseChannel(channel) ==
    IF validateAndMapReleaseChannel(channel) = InvalidChannel
    THEN "REGULAR"
    ELSE validateAndMapReleaseChannel(channel)

\* The channel of a cluster in the terms of a spec.
UpstreamReleaseChannel(channel) ==
    IF channel \in GKEChannels
    THEN CHOOSE c \in SpecChannels : specToGKEReleaseChannel[c] = channel
    ELSE Nil
=============================================================================
