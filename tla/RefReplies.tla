----------------------------- MODULE RefReplies -----------------------------
(***************************************************************************)
(* How the reference traceroute finds its way through a message it has     *)
(* received, by lengths the message itself gives: packet_ok4 and           *)
(* packet_ok6 up to the header of the quoted probe (get_udphdr), then      *)
(* print_exthdr through the extension objects and their MPLS labels.       *)
(* (ref/worker.c)                                                          *)
(*                                                                         *)
(* The bytes of a message are whatever its sender likes: each is chosen    *)
(* when the code reads it. Two positions are kept apart because the code   *)
(* does: where it reads next, and how much it thinks is left. A byte that  *)
(* is read although it was not received is whatever an earlier message has *)
(* left in the buffer, or what lies behind the buffer.                     *)
(***************************************************************************)
EXTENDS Integers

CONSTANTS Sizes,      \* bound: what recvmsg returns, at most the size of packet
          HeaderLens, \* bound: values of ip_hl << 2
          LenBytes,   \* bound: values of ip6e_len and of icmp_length
          ObjectLens, \* bound: values of ieo_length
          Sums,       \* bound: sums of the 16-bit words of an extension
          Digits      \* bound: how many digits a label has

PacketSize == 512
Word == 65536

ASSUME BytesAssumption ==
    /\ Sizes \subseteq 1 .. PacketSize
    /\ HeaderLens \subseteq 0 .. 60
    /\ LenBytes \subseteq 0 .. 255
    /\ ObjectLens \subseteq 0 .. Word - 1
    /\ Sums \subseteq 0 .. (PacketSize \div 2) * (Word - 1)
    /\ Digits \subseteq 1 .. 7

VARIABLES
    probe,   \* what is expected: the IP version and protocol of the probes
    cc,      \* the size of the message
    hlen,    \* its first byte as the length of an IPv4 header
    pc,      \* what the code is doing
    nh,      \* get_udphdr's nh: the kind of the header it looks at
    pos,     \* where it reads next (cp, buf), as an offset into packet
    read,    \* where the bytes end that the last step has read; 0 if it read none
    left,    \* print_exthdr's cc: what it takes for the rest of the message
    olen,    \* what is left of an object
    labels,  \* how many labels of the object have been printed (first)
    room,    \* exthdr_size: space left for text
    whole,   \* no text has been cut off
    sound    \* the extension carries the checksum of its words

extVars == <<left, olen, labels, room, whole, sound>>
vars == <<probe, cc, hlen, pc, nh, pos, read, extVars>>

Headers == {"esp", "tcp", "icmpv6", "udp", "fragment", "ah", "other"}

IPv6 == probe \in {"udp6", "icmp6"}

\* The kernel has checked an IPv4 header before it hands the message on. The types
\* of ICMPv6 that packet_ok6 accepts (1, 3, 129) are taken for a length of 4 or 12.
Init ==
    /\ probe \in {"udp4", "icmp4", "other4", "udp6", "icmp6"}
    /\ cc \in Sizes
    /\ hlen \in HeaderLens
    /\ IF IPv6 THEN hlen \in {4, 12} ELSE hlen >= 20
    /\ pc = "packet_ok"
    /\ nh = "none"
    /\ pos = 0 /\ read = 0
    /\ left = 0 /\ olen = 0 /\ labels = 0 /\ room = 0
    /\ whole = TRUE /\ sound = FALSE

\* What packet_ok makes of the message, and the end of what it has read for that.
\* Its other locals are gone with it.
Verdict(result, end) == pc' = result /\ read' = end /\ nh' = "none" /\ pos' = 0

MinICMP == 8

\* Where the identifier and the sequence number of a quoted probe end in its UDP or
\* ICMP header.
IdentEnd == IF probe \in {"udp4", "udp6"} THEN 2 ELSE 6
SeqEnd   == IF probe \in {"udp4", "udp6"} THEN 4 ELSE 8

Later(a, b) == IF a > b THEN a ELSE b
-----------------------------------------------------------------------------
\* packet_ok4 has read ip_hl of the quoted header, inner, whether it was received
\* or not. An echo reply with our identifier quotes nothing.
EchoReply4 == probe = "icmp4" /\ Verdict("accepted", hlen + 9)

\* What the length check covers, counted from the ICMP header: the ports of a quoted
\* UDP header, all but the end of a quoted ICMP header, nothing for other protocols.
LengthChecked(inner) ==
    CASE probe = "udp4"  -> inner + 12
      [] probe = "icmp4" -> inner + 8
      [] OTHER           -> 0

\* ip_p (which ends at byte 10 of the quoted header), identifier and sequence number
\* are compared or used in this order, none if the message is too short.
Quoted4(inner) ==
    LET ipP    == hlen + MinICMP + 10
        header == hlen + MinICMP + inner
    IN  IF LengthChecked(inner) > cc - hlen
        THEN Verdict("mismatch", hlen + 9)
        ELSE \/ Verdict("mismatch", ipP)
             \/ probe = "other4" /\ Verdict("accepted", ipP)
             \/ probe # "other4" /\ Verdict("mismatch", Later(ipP, header + IdentEnd))
             \/ probe # "other4" /\ Verdict("accepted", Later(ipP, header + SeqEnd))

\* Too short a message is wrong at once; one of another type quotes nothing.
PacketOk4 ==
    /\ pc = "packet_ok" /\ ~IPv6
    /\ IF cc < hlen + MinICMP
       THEN Verdict("wrong", 1)
       ELSE \/ Verdict("mismatch", hlen + 2)
            \/ EchoReply4
            \/ \E inner \in HeaderLens : Quoted4(inner)
    /\ UNCHANGED <<probe, cc, hlen, extVars>>

\* The identifier and the sequence number of the ICMPv6 or UDP header at start.
Identified6(start) ==
    \/ Verdict("mismatch", start + IdentEnd)
    \/ Verdict("accepted", start + SeqEnd)

\* packet_ok6: an echo reply, or an error whose quoted packet is searched.
PacketOk6 ==
    /\ pc = "packet_ok" /\ IPv6
    /\ IF cc < 8
       THEN Verdict("wrong", 0)
       ELSE \/ Verdict("mismatch", 2)
            \/ probe = "icmp6" /\ Identified6(0)
            \/ 8 + 40 >= cc /\ Verdict("wrong", 2)
            \/ /\ 8 + 40 < cc
               /\ pc' = "get_udphdr"
               /\ pos' = 8 + 40
               /\ read' = 8 + 7
               /\ nh' \in Headers
    /\ UNCHANGED <<probe, cc, hlen, extVars>>

\* With -v a message that is not for us is dumped: from behind the ICMP header, in
\* words until their number is that of the message's, or byte by byte as many as
\* the whole message has. Both end behind it.
DumpEnd ==
    IF IPv6 THEN 8 + cc ELSE hlen + MinICMP + 4 * ((cc - hlen - 1) \div 4)

Dump ==
    /\ pc = "mismatch"
    /\ Verdict("wrong", 0) \/ Verdict("dumped", DumpEnd)
    /\ UNCHANGED <<probe, cc, hlen, extVars>>

\* Mutation: the length byte has a sign.
HeaderLenSigned(len) ==
    LET signed == IF len > 127 THEN len - 256 ELSE len
    IN  CASE nh = "fragment" -> 8
          [] nh = "ah"       -> (signed + 2) * 4
          [] OTHER           -> (signed + 1) * 8

\* How long the header at pos is, by its kind and its length byte.
HeaderLen(len) ==
    CASE nh = "fragment" -> 8
      [] nh = "ah"       -> (len + 2) * 4
      [] OTHER           -> (len + 1) * 8

\* Mutation: the loop goes on while there is anything left.
GetUdphdrToTheEnd ==
    /\ pc = "get_udphdr"
    /\ \/ cc - pos <= 0 /\ Verdict("wrong", 0)
       \/ cc - pos > 0 /\ nh \in {"esp", "tcp"} /\ Verdict("wrong", 0)
       \/ cc - pos > 0 /\ nh \in {"icmpv6", "udp"}
          /\ IF (nh = "icmpv6") = (probe = "icmp6")
             THEN Identified6(pos) ELSE Verdict("wrong", 0)
       \/ cc - pos > 0 /\ nh \in {"fragment", "ah", "other"}
          /\ \E len \in LenBytes : pos' = pos + HeaderLen(len)
          /\ nh' \in Headers
          /\ read' = pos + (IF nh = "fragment" THEN 1 ELSE 2)
          /\ UNCHANGED pc
    /\ UNCHANGED <<probe, cc, hlen, extVars>>

\* One iteration of get_udphdr's loop.
GetUdphdr ==
    /\ pc = "get_udphdr"
    /\ \/ cc - pos < 8 /\ Verdict("wrong", 0)
       \/ cc - pos >= 8 /\ nh \in {"esp", "tcp"} /\ Verdict("wrong", 0)
       \/ cc - pos >= 8 /\ nh \in {"icmpv6", "udp"}
          /\ IF (nh = "icmpv6") = (probe = "icmp6")
             THEN Identified6(pos) ELSE Verdict("wrong", 0)
       \/ cc - pos >= 8 /\ nh \in {"fragment", "ah", "other"}
          /\ \E len \in LenBytes : pos' = pos + HeaderLen(len)
          /\ nh' \in Headers
          /\ read' = pos + (IF nh = "fragment" THEN 1 ELSE 2)
          /\ UNCHANGED pc
    /\ UNCHANGED <<probe, cc, hlen, extVars>>
-----------------------------------------------------------------------------
(***************************************************************************)
(* in_cksum, of words that add up to sum: an int, so no carry is lost.     *)
(***************************************************************************)
\* Mutation: a carry of the carry is forgotten.
InCksumOnce(sum) == (Word - 1) - (((sum \div Word) + (sum % Word)) % Word)

InCksum(sum) ==
    LET folded == (sum \div Word) + (sum % Word)
    IN  (Word - 1) - ((folded + (folded \div Word)) % Word)

ObjHdr == 4   \* sizeof(objhdr), and of exthdr
Label  == 4   \* sizeof(u_int32_t)
Text   == 29  \* sizeof("[MPLS Label 1048576 (Exp 3)]")

\* Mutation: the estimate leaves out the bracket.
RoughEstimateOfNumber(n) == 14 * (n \div Label)

RoughEstimate(n) == Text * (n \div Label)

ICMP_EXT_OFFSET == 128

\* Not the last answer of a row, or neither -x nor -v.
NoExthdr ==
    /\ pc = "accepted"
    /\ pc' = "done"
    /\ read' = 0
    /\ UNCHANGED <<probe, cc, hlen, nh, pos, extVars>>

\* The extension header. Nothing is printed of a message that is too short for one,
\* or of another type, or whose extension has another version or a wrong checksum.
ExtHeader(lengthByte, sum, cksum) ==
    LET off   == IF lengthByte = 0 THEN ICMP_EXT_OFFSET ELSE lengthByte * 4
        start == hlen + MinICMP + off
    IN  /\ pc = "accepted"
        /\ sound' = (cksum # 0 /\ cksum = InCksum(sum))
        /\ \/ /\ pc' = "done"
              /\ read' = IF cc < hlen + MinICMP THEN 1 ELSE hlen + 6
              /\ UNCHANGED <<pos, left, room>>
           \/ /\ off >= ICMP_EXT_OFFSET /\ cc - hlen - MinICMP >= off + 4 + ObjHdr
              /\ \/ pc' = "done" /\ read' = start + 4 /\ UNCHANGED <<pos, left, room>>
                 \/ /\ cksum # 0 /\ InCksum(sum + cksum) # 0
                    /\ pc' = "rejected" /\ read' = cc /\ UNCHANGED <<pos, left, room>>
                 \/ /\ cksum = 0 \/ InCksum(sum + cksum) = 0
                    /\ pc' = "objects"
                    /\ pos' = start + 4
                    /\ read' = IF cksum # 0 THEN cc ELSE start + 4
                    /\ left' = cc - start - 4
                    /\ room' = RoughEstimate(left')
        /\ UNCHANGED <<probe, cc, hlen, nh, olen, labels, whole>>

\* Mutation: the data of an unknown object is not skipped.
NextObjectNotSkipped(len, mpls) ==
    /\ pc = "objects"
    /\ IF left <= ObjHdr \/ len < ObjHdr \/ len > left
       THEN /\ pc' = "done"
            /\ read' = IF left <= ObjHdr THEN 0 ELSE pos + ObjHdr
            /\ UNCHANGED <<pos, left, olen>>
       ELSE /\ left' = left - len
            /\ read' = pos + ObjHdr
            /\ pos' = pos + ObjHdr
            /\ pc' = IF mpls THEN "labels" ELSE "objects"
            /\ olen' = IF mpls THEN len - ObjHdr ELSE 0
    /\ labels' = 0
    /\ UNCHANGED <<probe, cc, hlen, nh, room, whole, sound>>

\* One object: the labels of an MPLS stack follow, anything else is skipped.
NextObject(len, mpls) ==
    /\ pc = "objects"
    /\ IF left <= ObjHdr \/ len < ObjHdr \/ len > left
       THEN /\ pc' = "done"
            /\ read' = IF left <= ObjHdr THEN 0 ELSE pos + ObjHdr
            /\ UNCHANGED <<pos, left, olen>>
       ELSE /\ left' = left - len
            /\ read' = pos + ObjHdr
            /\ IF mpls
               THEN pc' = "labels" /\ pos' = pos + ObjHdr /\ olen' = len - ObjHdr
               ELSE UNCHANGED pc /\ pos' = pos + len /\ olen' = 0
    /\ labels' = 0
    /\ UNCHANGED <<probe, cc, hlen, nh, room, whole, sound>>

\* snprintf of n characters, and what is made of its result.
After(size, n) == IF n < size THEN size - n ELSE size

\* " [MPLS Label " or ", ", the number, and perhaps " (Exp x)".
PrintLabel(digits, exp) ==
    LET lead == IF labels = 0 THEN 13 ELSE 2
    IN  /\ pc = "labels" /\ olen >= Label
        /\ pos' = pos + Label
        /\ read' = pos + Label
        /\ olen' = olen - Label
        /\ labels' = labels + 1
        /\ room' = After(After(After(room, lead), digits), exp)
        /\ whole' = (whole /\ room' = room - lead - digits - exp)
        /\ UNCHANGED <<probe, cc, hlen, pc, nh, left, sound>>

\* The end of the object: "|]" if it is not one of whole labels, else "]".
EndLabels ==
    LET n == IF olen > 0 THEN 2 ELSE IF labels > 0 THEN 1 ELSE 0
    IN  /\ pc = "labels" /\ olen < Label
        /\ pc' = IF olen > 0 THEN "done" ELSE "objects"
        /\ room' = After(room, n)
        /\ whole' = (whole /\ room' = room - n)
        /\ read' = 0
        /\ UNCHANGED <<probe, cc, hlen, nh, pos, left, olen, labels, sound>>

Returned ==
    /\ pc \in {"wrong", "dumped", "rejected", "done"}
    /\ UNCHANGED vars

Step ==
    \/ PacketOk4 \/ PacketOk6 \/ GetUdphdr \/ Dump \/ NoExthdr
    \/ \E len \in LenBytes, sum \in Sums :
          \E cksum \in {0, 1, InCksum(sum)} : ExtHeader(len, sum, cksum)
    \/ \E len \in ObjectLens, mpls \in BOOLEAN : NextObject(len, mpls)
    \/ \E digits \in Digits, exp \in {0, 8} : PrintLabel(digits, exp)
    \/ EndLabels

Next == Step \/ Returned

\* A callback runs to its end.
Spec == Init /\ [][Next]_vars /\ WF_vars(Step)
-----------------------------------------------------------------------------
TypeOK ==
    /\ probe \in {"udp4", "icmp4", "other4", "udp6", "icmp6"}
    /\ cc \in Sizes /\ hlen \in HeaderLens /\ nh \in Headers \cup {"none"}
    /\ pc \in {"packet_ok", "get_udphdr", "accepted", "mismatch", "objects", "labels",
               "wrong", "dumped", "rejected", "done"}
    /\ pos \in Nat /\ read \in Nat /\ left \in 0 .. PacketSize
    /\ olen \in 0 .. PacketSize /\ labels \in Nat /\ room \in Nat
    /\ whole \in BOOLEAN /\ sound \in BOOLEAN

(***************************************************************************)
(* Which code may read bytes that were not received, and how many at most, *)
(* whatever lengths the message gives. get_udphdr, print_exthdr and the    *)
(* verdict of packet_ok6 read none. The verdict of packet_ok4 may rest on  *)
(* up to 6 bytes for a UDP probe and 10 for others, as ip_p is read behind *)
(* a check of another length, or of none, but never on bytes behind the    *)
(* buffer. The dumps of -v print up to 8 bytes too many.                   *)
(***************************************************************************)
ReadsBounded ==
    /\ pc \in {"get_udphdr", "wrong", "objects", "labels", "rejected", "done"} => read <= cc
    /\ pc \in {"accepted", "mismatch"} =>
          /\ IPv6 => read <= cc
          /\ probe = "udp4" => read <= cc + 6
          /\ probe \in {"icmp4", "other4"} => read <= cc + 10
          /\ read <= PacketSize
    /\ pc = "dumped" => read <= cc + 8

(***************************************************************************)
(* print_exthdr's two positions agree: what it has not read of the object  *)
(* and of the message is what lies between buf and the end.                *)
(***************************************************************************)
PositionsAgree == pc \in {"objects", "labels"} => pos + olen + left = cc

(***************************************************************************)
(* The rough estimate of the needed space is enough for every extension:   *)
(* no label is cut off.                                                    *)
(***************************************************************************)
NothingCutOff == whole

(***************************************************************************)
(* An extension whose sender has computed the checksum as in_cksum does is *)
(* never turned away because of it.                                        *)
(***************************************************************************)
SoundAccepted == pc = "rejected" => ~sound

\* However a message lies about its lengths, the callback comes to its end.
Ends == <>(pc \in {"wrong", "dumped", "rejected", "done"})
=============================================================================
