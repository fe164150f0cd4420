---------------------------- MODULE MCRefReplies ----------------------------
(* The instance of RefReplies for TLC. *)
EXTENDS RefReplies

\* Around the smallest ICMPv4 message (28), what the checks of a quoted UDP or ICMP
\* header ask for with 0, 4 and 20 bytes of IPv4 header (28, 32, 36, 48, 52), the
\* smallest with a quoted IPv6 packet (49, 56) and with an extension (164), and
\* larger ones that hold several objects.
MCSizes == {7, 28, 29, 32, 36, 48, 49, 52, 55, 56, 64, 163, 164, 172, 180}

\* Too short for ip_p, without options, and what types 1 and 3 of ICMPv6 are taken for.
MCHeaderLens == {0, 4, 12, 20}

\* No, a small and a large length, and the least offset of an extension.
MCLenBytes == {0, 1, 31, 32, 254}

MCObjectLens == {0, 3, 4, 5, 8, 12, 16, 65535}

\* Words that leave no, one and two carries.
MCSums == {0, 65535, 131070, 131071, 8388480}
=============================================================================
