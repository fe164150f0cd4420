-------------------------- MODULE RefReplies_proofs --------------------------
(***************************************************************************)
(* What is proved about the reading of messages: for every message of at   *)
(* most the size of the buffer, and whatever lengths it gives.             *)
(***************************************************************************)
EXTENDS RefReplies, TLAPS

(***************************************************************************)
(* The text that may still be needed always has its room: 29 characters    *)
(* for each word that is left, of which the header of an object counts as  *)
(* one until its first label has been printed.                             *)
(***************************************************************************)
RoomLeft ==
    /\ pc = "objects" => room >= Text * (left \div Label)
    /\ pc = "labels" /\ labels = 0 =>
          room >= Text * ((left \div Label) + (olen \div Label) + 1)
    /\ pc = "labels" /\ labels > 0 =>
          room >= Text * ((left \div Label) + (olen \div Label)) + 30

ReadSoFar ==
    /\ pc = "get_udphdr" => IPv6
    /\ pc = "mismatch" => IPv6 \/ cc >= hlen + 8
    /\ pc \in {"packet_ok", "get_udphdr", "accepted", "objects"} => olen = 0

IInv ==
    /\ TypeOK
    /\ ReadSoFar
    /\ ReadsBounded
    /\ PositionsAgree
    /\ RoomLeft
    /\ NothingCutOff
    /\ SoundAccepted

-----------------------------------------------------------------------------
\* Quotient and rest of the division by 65536 ...
LEMMA Divided ==
    ASSUME NEW s \in Nat
    PROVE  /\ s \div 65536 \in Nat /\ s % 65536 \in Nat /\ s % 65536 < 65536
           /\ s = 65536 * (s \div 65536) + (s % 65536)
BY SMT

\* ... and there are no others.
LEMMA DividedOnce ==
    ASSUME NEW a \in Int, NEW b \in Int, NEW c \in Int, NEW d \in Int,
           0 <= b, b < 65536, 0 <= d, d < 65536,
           65536 * a + b = 65536 * c + d
    PROVE  a = c /\ b = d
BY SMT

LEMMA Quotient ==
    ASSUME NEW s \in Nat, NEW a \in Nat, NEW b \in Nat, b < 65536, s = 65536 * a + b
    PROVE  s \div 65536 = a /\ s % 65536 = b
<1>1. /\ s \div 65536 \in Int /\ s % 65536 \in Int /\ 0 <= s % 65536 /\ s % 65536 < 65536
      /\ 65536 * a + b = 65536 * (s \div 65536) + (s % 65536)
  BY Divided, SMT
<1> QED
  BY ONLY <1>1, DividedOnce, a \in Int, b \in Int, 0 <= b, b < 65536, SMT

\* The two foldings of in_cksum, by quotient and rest of the sum.
LEMMA Folded ==
    ASSUME NEW s \in Nat, NEW a \in Nat, NEW b \in Nat, a < 65536, b < 65536,
           s = 65536 * a + b
    PROVE  /\ a + b < 65536 => InCksum(s) = 65535 - (a + b)
           /\ a + b >= 65536 => InCksum(s) = 65535 - ((a + b) - 65535)
<1>1. s \div 65536 = a /\ s % 65536 = b
  BY Quotient, SMT
<1>2. InCksum(s) = 65535 - (((a + b) + ((a + b) \div 65536)) % 65536)
  BY <1>1, SMT DEF InCksum, Word
<1>3. CASE a + b < 65536
  <2>1. (a + b) \div 65536 = 0 /\ (a + b) % 65536 = a + b
    <3>1. a + b = 65536 * 0 + (a + b) /\ a + b \in Nat
      BY SMT
    <3> QED BY <1>3, <3>1, Quotient, SMT
  <2>2. (a + b) + 0 = a + b
    BY SMT
  <2> QED BY <1>2, <1>3, <2>1, <2>2, SMT
<1>4. CASE a + b >= 65536
  <2>1. (a + b) \div 65536 = 1
    <3>1. a + b = 65536 * 1 + ((a + b) - 65536) /\ (a + b) - 65536 \in Nat /\ a + b \in Nat
          /\ (a + b) - 65536 < 65536
      BY <1>4, SMT
    <3> QED BY <3>1, Quotient, SMT
  <2>2. ((a + b) + 1) % 65536 = (a + b) - 65535
    <3>1. (a + b) + 1 = 65536 * 1 + ((a + b) - 65535) /\ (a + b) - 65535 \in Nat /\ (a + b) + 1 \in Nat
          /\ (a + b) - 65535 < 65536
      BY <1>4, SMT
    <3> QED BY <3>1, Quotient, SMT
  <2> QED BY <1>2, <1>4, <2>1, <2>2, SMT
<1> QED BY <1>3, <1>4, SMT

\* The largest sum of words, as a number.
LEMMA LargestSum == (PacketSize \div 2) * (Word - 1) = 16776960
BY SMT DEF PacketSize, Word

(***************************************************************************)
(* in_cksum of words that include their own checksum is zero: two foldings *)
(* leave no carry, as long as the sum fits the buffer.                     *)
(***************************************************************************)
LEMMA ChecksumVerifies ==
    ASSUME NEW sum \in 0 .. (PacketSize \div 2) * (Word - 1)
    PROVE  InCksum(sum + InCksum(sum)) = 0
<1>0. sum \in Nat /\ sum <= 16776960
  BY LargestSum, SMT
<1> DEFINE a == sum \div 65536
           b == sum % 65536
<1>1. /\ a \in Nat /\ b \in Nat /\ b < 65536
      /\ sum = 65536 * a + b
  BY <1>0, Divided, SMT
<1> HIDE DEF a, b
<1>2. a <= 255 /\ a < 65536
  BY <1>0, <1>1, SMT
<1>3. CASE a + b < 65536
  <2>1. InCksum(sum) = 65535 - (a + b)
    BY <1>0, <1>1, <1>2, <1>3, Folded, SMT
  <2>2. /\ sum + InCksum(sum) \in Nat
        /\ sum + InCksum(sum) = 65536 * a + (65535 - a)
        /\ 65535 - a \in Nat /\ 65535 - a < 65536
    BY <1>0, <1>1, <1>2, <1>3, <2>1, SMT
  <2>3. a + (65535 - a) = 65535
    BY <1>1, <1>2, SMT
  <2> QED BY <1>1, <1>2, <2>2, <2>3, Folded, SMT
<1>4. CASE a + b >= 65536
  <2>1. InCksum(sum) = 65535 - ((a + b) - 65535)
    BY <1>0, <1>1, <1>2, <1>4, Folded, SMT
  <2>2. /\ sum + InCksum(sum) \in Nat
        /\ sum + InCksum(sum) = 65536 * (a + 1) + (65534 - a)
        /\ 65534 - a \in Nat /\ 65534 - a < 65536 /\ a + 1 \in Nat /\ a + 1 < 65536
    BY <1>0, <1>1, <1>2, <1>4, <2>1, SMT
  <2>3. (a + 1) + (65534 - a) = 65535
    BY <1>1, <1>2, SMT
  <2> QED BY <1>1, <1>2, <2>2, <2>3, Folded, SMT
<1>5. a + b < 65536 \/ a + b >= 65536
  BY <1>1, <1>2, SMT
<1> QED BY <1>3, <1>4, <1>5, SMT

LEMMA Bounds ==
    /\ Sizes \subseteq 1 .. 512
    /\ HeaderLens \subseteq 0 .. 60
    /\ LenBytes \subseteq 0 .. 255
BY BytesAssumption DEF PacketSize

LEMMA BoundsOfMessage ==
    ASSUME TypeOK
    PROVE  cc \in 1 .. 512 /\ hlen \in 0 .. 60
BY Bounds DEF TypeOK

-----------------------------------------------------------------------------
\* A verdict ends no object, and prints no text.
LEMMA VerdictKeeps ==
    ASSUME IInv, UNCHANGED <<probe, cc, hlen, extVars>>,
           pc \in {"packet_ok", "get_udphdr", "mismatch"},
           NEW result \in {"accepted", "mismatch", "wrong", "dumped"},
           NEW end \in Nat, Verdict(result, end),
           result = "accepted" => pc # "mismatch",
           result = "wrong" => end <= cc,
           result = "mismatch" => IPv6 \/ cc >= hlen + 8,
           result \in {"accepted", "mismatch"} =>
              /\ IPv6 => end <= cc
              /\ probe = "udp4" => end <= cc + 6
              /\ probe \in {"icmp4", "other4"} => end <= cc + 10
              /\ end <= PacketSize,
           result = "dumped" => end <= cc + 8
    PROVE  IInv'
<1>1. /\ pc' = result /\ read' = end /\ nh' = "none" /\ pos' = 0
      /\ UNCHANGED <<probe, cc, hlen, left, olen, labels, room, whole, sound>>
  BY DEF Verdict, extVars
<1>2. TypeOK'
  BY <1>1 DEF IInv, TypeOK
<1>3. ReadsBounded'
  BY <1>1 DEF ReadsBounded, IPv6
<1> QED
  BY <1>1, <1>2, <1>3 DEF IInv, ReadSoFar, PositionsAgree, RoomLeft, NothingCutOff, SoundAccepted,
     IPv6

LEMMA InitReading == Init => IInv
<1> SUFFICES ASSUME Init PROVE IInv
  OBVIOUS
<1>1. cc \in 1 .. 512
  BY Bounds DEF Init
<1>2. TypeOK
  <2>1. whole \in BOOLEAN /\ sound \in BOOLEAN
    BY Zenon DEF Init
  <2> QED BY <2>1 DEF Init, TypeOK, PacketSize, Headers
<1>3. NothingCutOff
  BY Zenon DEF Init, NothingCutOff
<1> QED
  BY <1>1, <1>2, <1>3 DEF Init, IInv, ReadSoFar, ReadsBounded, PositionsAgree, RoomLeft, SoundAccepted

\* packet_ok4's checks, one kind of IPv4 probe after the other.
LEMMA PacketOk4Step ==
    ASSUME IInv, PacketOk4 PROVE IInv'
<1>1. cc \in 1 .. 512 /\ hlen \in 0 .. 60
  BY BoundsOfMessage DEF IInv
<1>2. /\ UNCHANGED <<probe, cc, hlen, extVars>> /\ pc = "packet_ok" /\ ~IPv6
      /\ probe \in {"udp4", "icmp4", "other4"}
  BY DEF PacketOk4, IInv, TypeOK, IPv6
<1>3. CASE cc < hlen + MinICMP
  BY <1>1, <1>2, <1>3, VerdictKeeps DEF PacketOk4
<1>4. CASE cc >= hlen + 8 /\ Verdict("mismatch", hlen + 2)
  BY <1>1, <1>2, <1>4, VerdictKeeps DEF PacketSize
<1>5. CASE cc >= hlen + 8 /\ EchoReply4
  BY <1>1, <1>2, <1>5, VerdictKeeps DEF EchoReply4, PacketSize
<1>6. ASSUME cc >= hlen + 8, NEW inner \in HeaderLens, Quoted4(inner) PROVE IInv'
  <2>1. inner \in 0 .. 60
    BY Bounds
  <2>0. /\ LengthChecked(inner) \in Nat
        /\ probe = "udp4" => LengthChecked(inner) = inner + 12
        /\ probe = "icmp4" => LengthChecked(inner) = inner + 8
    <3>1. inner + 12 \in Nat /\ inner + 8 \in Nat
      BY <2>1
    <3> QED  BY <3>1, Zenon DEF LengthChecked
  <2>2. CASE Verdict("mismatch", hlen + 9)
    BY <1>1, <1>2, <1>6, <2>2, VerdictKeeps DEF PacketSize
  <2>3. CASE LengthChecked(inner) <= cc - hlen /\ Verdict("mismatch", hlen + 18)
    BY <1>1, <1>2, <1>6, <2>0, <2>1, <2>3, VerdictKeeps DEF PacketSize
  <2>4. CASE probe = "other4" /\ Verdict("accepted", hlen + 18)
    BY <1>1, <1>2, <1>6, <2>4, VerdictKeeps DEF PacketSize
  <2>5. ASSUME LengthChecked(inner) <= cc - hlen, probe # "other4",
               NEW result \in {"accepted", "mismatch"}, NEW n \in 0 .. 8,
               probe = "udp4" => n <= 4,
               Verdict(result, Later(hlen + 18, hlen + 8 + inner + n))
        PROVE  IInv'
    <3> DEFINE end == Later(hlen + 18, hlen + 8 + inner + n)
    <3>1. end \in Nat /\ end <= 512
      BY <1>1, <2>1, <2>5 DEF Later
    <3>2. probe = "udp4" => end <= cc + 6
      BY <1>1, <2>0, <2>1, <2>5 DEF Later
    <3>3. probe = "icmp4" => end <= cc + 10
      BY <1>1, <2>0, <2>1, <2>5 DEF Later
    <3>4. Verdict(result, end)
      BY <2>5
    <3> HIDE DEF end
    <3> QED  BY <1>1, <1>2, <1>6, <2>5, <3>1, <3>2, <3>3, <3>4, VerdictKeeps DEF PacketSize
  <2>6. CASE /\ LengthChecked(inner) <= cc - hlen /\ probe # "other4"
             /\ \/ Verdict("mismatch", Later(hlen + 18, hlen + 8 + inner + IdentEnd))
                \/ Verdict("accepted", Later(hlen + 18, hlen + 8 + inner + SeqEnd))
    <3>1. /\ IdentEnd \in 0 .. 8 /\ (probe = "udp4" => IdentEnd <= 4)
          /\ SeqEnd \in 0 .. 8 /\ (probe = "udp4" => SeqEnd <= 4)
      BY DEF IdentEnd, SeqEnd
    <3> QED  BY <2>5, <2>6, <3>1, Zenon
  <2>7. hlen + MinICMP + 10 = hlen + 18 /\ hlen + MinICMP + inner = hlen + 8 + inner
    BY <1>1, <2>1 DEF MinICMP
  <2>8. LengthChecked(inner) > cc - hlen \/ LengthChecked(inner) <= cc - hlen
    BY <1>1, <2>0
  <2> QED  BY <1>6, <2>2, <2>3, <2>4, <2>6, <2>7, <2>8 DEF Quoted4
<1>7. cc < hlen + MinICMP \/ cc >= hlen + 8
  BY <1>1 DEF MinICMP
<1> QED  BY <1>3, <1>4, <1>5, <1>6, <1>7 DEF PacketOk4

\* What an identifier and a sequence number use of a header that was received.
LEMMA Identified6Step ==
    ASSUME IInv, UNCHANGED <<probe, cc, hlen, extVars>>, pc \in {"packet_ok", "get_udphdr"},
           IPv6, NEW start \in Nat, start + 8 <= cc, Identified6(start)
    PROVE  IInv'
<1>1. cc \in 1 .. 512
  BY BoundsOfMessage DEF IInv
<1>2. IdentEnd \in 0 .. 8 /\ SeqEnd \in 0 .. 8
  BY DEF IdentEnd, SeqEnd
<1>3. CASE Verdict("mismatch", start + IdentEnd)
  BY <1>1, <1>2, <1>3, VerdictKeeps DEF PacketSize, IPv6
<1>4. CASE Verdict("accepted", start + SeqEnd)
  BY <1>1, <1>2, <1>4, VerdictKeeps DEF PacketSize, IPv6
<1> QED  BY <1>3, <1>4 DEF Identified6

\* packet_ok6's check before it searches the quoted packet.
LEMMA PacketOk6Step ==
    ASSUME IInv, PacketOk6 PROVE IInv'
<1>1. cc \in 1 .. 512
  BY BoundsOfMessage DEF IInv
<1>2. UNCHANGED <<probe, cc, hlen, extVars>> /\ pc = "packet_ok" /\ IPv6
  BY DEF PacketOk6
<1>3. CASE \E n \in {0, 2} : Verdict("wrong", n) /\ n <= cc
  BY <1>1, <1>2, <1>3, VerdictKeeps DEF IPv6
<1>4. CASE cc >= 8 /\ Verdict("mismatch", 2)
  BY <1>1, <1>2, <1>4, VerdictKeeps DEF IPv6, PacketSize
<1>5. CASE cc >= 8 /\ Identified6(0)
  BY <1>1, <1>2, <1>5, Identified6Step
<1>6. CASE 8 + 40 < cc /\ pc' = "get_udphdr" /\ pos' = 8 + 40 /\ read' = 8 + 7 /\ nh' \in Headers
  BY <1>1, <1>2, <1>6 DEF IInv, TypeOK, ReadSoFar, ReadsBounded, PositionsAgree, RoomLeft,
     NothingCutOff, SoundAccepted, extVars, IPv6
<1> QED  BY <1>1, <1>3, <1>4, <1>5, <1>6 DEF PacketOk6

\* A header of the quoted packet lies in the message before its length is used.
LEMMA GetUdphdrStep ==
    ASSUME IInv, GetUdphdr PROVE IInv'
<1>1. cc \in 1 .. 512 /\ pos \in Nat
  BY BoundsOfMessage DEF IInv, TypeOK
<1>2. UNCHANGED <<probe, cc, hlen, extVars>> /\ pc = "get_udphdr" /\ IPv6
  BY DEF GetUdphdr, IInv, ReadSoFar
<1>3. CASE Verdict("wrong", 0)
  BY <1>1, <1>2, <1>3, VerdictKeeps
<1>4. CASE cc - pos >= 8 /\ Identified6(pos)
  BY <1>1, <1>2, <1>4, Identified6Step
<1>5. ASSUME cc - pos >= 8, NEW len \in LenBytes, pos' = pos + HeaderLen(len), nh' \in Headers,
             read' = pos + (IF nh = "fragment" THEN 1 ELSE 2), UNCHANGED pc
      PROVE  IInv'
  <2>1. pos' \in Nat
    BY <1>1, <1>5, Bounds DEF HeaderLen
  <2>2. read' \in Nat /\ read' <= cc
    BY <1>1, <1>5
  <2> QED
    BY <1>1, <1>2, <1>5, <2>1, <2>2 DEF IInv, TypeOK, ReadSoFar, ReadsBounded, PositionsAgree,
       RoomLeft, NothingCutOff, SoundAccepted, extVars, IPv6
<1> QED  BY <1>3, <1>4, <1>5 DEF GetUdphdr

\* A dump goes at most as far behind the message as it begins in it.
LEMMA DumpStep ==
    ASSUME IInv, Dump PROVE IInv'
<1>1. cc \in 1 .. 512 /\ hlen \in 0 .. 60
  BY BoundsOfMessage DEF IInv
<1>2. UNCHANGED <<probe, cc, hlen, extVars>> /\ pc = "mismatch"
  BY DEF Dump
<1>3. CASE Verdict("wrong", 0)
  BY <1>1, <1>2, <1>3, VerdictKeeps
<1>4. CASE Verdict("dumped", DumpEnd)
  <2>1. cc > hlen \/ IPv6
    BY <1>1, <1>2 DEF IInv, ReadSoFar
  <2>2. DumpEnd \in Nat /\ DumpEnd <= cc + 8
    BY <1>1, <2>1, SMT DEF DumpEnd, MinICMP
  <2> QED  BY <1>2, <1>4, <2>2, VerdictKeeps
<1> QED  BY <1>3, <1>4 DEF Dump

\* The checks of print_exthdr before the first object establish the loop's
\* invariant.
LEMMA ExtHeaderStep ==
    ASSUME IInv, NEW len \in LenBytes, NEW sum \in Sums, NEW cksum \in {0, 1, InCksum(sum)},
           ExtHeader(len, sum, cksum)
    PROVE  IInv'
<1> DEFINE off == IF len = 0 THEN ICMP_EXT_OFFSET ELSE len * 4
<1>1. cc \in 1 .. 512 /\ hlen \in 0 .. 60 /\ read \in Nat
  BY BoundsOfMessage DEF IInv, TypeOK
<1>2. off \in Nat
  BY Bounds DEF ICMP_EXT_OFFSET
<1>3. /\ UNCHANGED <<probe, cc, hlen, nh, olen, labels, whole>> /\ pc = "accepted"
      /\ sound' = (cksum # 0 /\ cksum = InCksum(sum))
  BY DEF ExtHeader
<1>4. CASE /\ pc' = "done" /\ UNCHANGED <<pos, left, room>>
           /\ read' = IF cc < hlen + MinICMP THEN 1 ELSE hlen + 6
  <2>1. read' \in Nat /\ read' <= cc
    BY <1>1, <1>4 DEF MinICMP
  <2> QED
    BY <1>1, <1>3, <1>4, <2>1 DEF IInv, TypeOK, ReadSoFar, ReadsBounded, PositionsAgree, RoomLeft,
       NothingCutOff, SoundAccepted
<1> DEFINE enough == off >= ICMP_EXT_OFFSET /\ cc - hlen - MinICMP >= off + 4 + ObjHdr
           start  == hlen + MinICMP + off
<1>5. enough => start \in Nat /\ start + 8 <= cc
  BY <1>1, <1>2 DEF MinICMP, ObjHdr
<1>6. CASE enough /\ pc' = "done" /\ read' = start + 4 /\ UNCHANGED <<pos, left, room>>
  <2>1. read' \in Nat /\ read' <= cc
    <3> HIDE DEF start, enough
    <3> QED  BY <1>1, <1>5, <1>6
  <2> QED
    BY <1>1, <1>3, <1>6, <2>1 DEF IInv, TypeOK, ReadSoFar, ReadsBounded, PositionsAgree, RoomLeft,
       NothingCutOff, SoundAccepted
<1>7. CASE /\ cksum # 0 /\ InCksum(sum + cksum) # 0
           /\ pc' = "rejected" /\ read' = cc /\ UNCHANGED <<pos, left, room>>
  <2>2. ~sound'
    BY <1>3, <1>7, ChecksumVerifies, BytesAssumption
  <2> QED
    BY <1>1, <1>3, <1>7, <2>2 DEF IInv, TypeOK, ReadSoFar, ReadsBounded, PositionsAgree, RoomLeft,
       NothingCutOff, SoundAccepted
<1>8. CASE /\ enough
           /\ pc' = "objects" /\ pos' = start + 4
           /\ read' = IF cksum # 0 THEN cc ELSE start + 4
           /\ left' = cc - start - 4
           /\ room' = RoughEstimate(left')
  <2>1. start \in Nat /\ start + 8 <= cc
    BY <1>5, <1>8
  <2>2. pos' = start + 4 /\ left' = cc - start - 4 /\ read' \in {cc, start + 4}
    BY <1>8
  <2>3. /\ left' \in 0 .. 512 /\ pos' \in Nat /\ read' \in Nat /\ read' <= cc
        /\ pos' + left' = cc
    <3> HIDE DEF start, enough
    <3> QED BY <1>1, <2>1, <2>2
  <2>4. room' = 29 * (left' \div 4) /\ room' \in Nat
    BY <1>8, <2>3, SMT DEF RoughEstimate, Text, Label
  <2>5. sound' \in BOOLEAN
    BY <1>3
  <2>6. olen = 0
    BY <1>3 DEF IInv, ReadSoFar
  <2> QED
    BY <1>1, <1>3, <1>8, <2>3, <2>4, <2>5, <2>6 DEF IInv, TypeOK, ReadSoFar, ReadsBounded, PositionsAgree,
       RoomLeft, NothingCutOff, SoundAccepted, PacketSize, Text, Label
<1> QED BY <1>4, <1>6, <1>7, <1>8 DEF ExtHeader

\* An object is entered only if it fits what is left.
LEMMA NextObjectStep ==
    ASSUME IInv, NEW len \in ObjectLens, NEW mpls \in BOOLEAN, NextObject(len, mpls)
    PROVE  IInv'
<1>1. /\ cc \in 1 .. 512 /\ read \in Nat /\ pos \in Nat /\ left \in 0 .. 512 /\ room \in Nat
      /\ len \in Nat
  BY BoundsOfMessage, BytesAssumption DEF IInv, TypeOK, PacketSize
<1>2. /\ UNCHANGED <<probe, cc, hlen, nh, room, whole, sound>> /\ pc = "objects" /\ labels' = 0
      /\ olen = 0 /\ pos + left = cc /\ read <= cc /\ room >= 29 * (left \div 4)
  BY <1>1 DEF NextObject, IInv, ReadSoFar, ReadsBounded, PositionsAgree, RoomLeft, Text, Label
<1>3. CASE left <= ObjHdr \/ len < ObjHdr \/ len > left
  <2>1. /\ pc' = "done" /\ UNCHANGED <<pos, left, olen>>
        /\ read' = IF left <= ObjHdr THEN 0 ELSE pos + ObjHdr
    BY <1>3 DEF NextObject
  <2>2. read' \in Nat /\ read' <= cc
    BY <1>1, <1>2, <2>1 DEF ObjHdr
  <2> QED
    BY <1>1, <1>2, <2>1, <2>2 DEF IInv, TypeOK, ReadSoFar, ReadsBounded, PositionsAgree, RoomLeft,
       NothingCutOff, SoundAccepted
<1>4. CASE ~(left <= ObjHdr \/ len < ObjHdr \/ len > left)
  <2>1. 4 <= len /\ len <= left
    BY <1>1, <1>4 DEF ObjHdr
  <2>2. left' = left - len /\ read' = pos + 4
    BY <1>4 DEF NextObject, ObjHdr
  <2>3. left' \in 0 .. 512 /\ read' \in Nat /\ read' <= cc
    BY <1>1, <1>2, <2>1, <2>2
  <2>4. CASE mpls
    <3>1. pc' = "labels" /\ pos' = pos + 4 /\ olen' = len - 4
      BY <1>4, <2>4 DEF NextObject, ObjHdr
    <3>2. pos' \in Nat /\ olen' \in 0 .. 512 /\ pos' + olen' + left' = cc
      BY <1>1, <1>2, <2>1, <2>2, <3>1
    <3>3. room >= 29 * ((left' \div 4) + (olen' \div 4) + 1)
      BY <1>1, <1>2, <2>1, <2>2, <3>1, SMT
    <3>4. TypeOK'
      BY <1>1, <1>2, <2>3, <3>1, <3>2 DEF IInv, TypeOK, PacketSize
    <3>5. RoomLeft'
      BY <1>2, <3>1, <3>3 DEF RoomLeft, Text, Label
    <3> QED
      BY <1>1, <1>2, <2>3, <3>1, <3>2, <3>4, <3>5 DEF IInv, ReadSoFar, ReadsBounded, PositionsAgree,
         NothingCutOff, SoundAccepted
  <2>5. CASE ~mpls
    <3>1. pc' = "objects" /\ pos' = pos + len /\ olen' = 0
      BY <1>2, <1>4, <2>5 DEF NextObject
    <3>2. pos' \in Nat /\ pos' + olen' + left' = cc
      BY <1>1, <1>2, <2>1, <2>2, <3>1
    <3>3. room >= 29 * (left' \div 4)
      BY <1>1, <1>2, <2>1, <2>2, SMT
    <3>4. TypeOK'
      BY <1>1, <1>2, <2>3, <3>1, <3>2 DEF IInv, TypeOK, PacketSize
    <3>5. RoomLeft'
      BY <1>2, <3>1, <3>3 DEF RoomLeft, Text, Label
    <3> QED
      BY <1>1, <1>2, <2>3, <3>1, <3>2, <3>4, <3>5 DEF IInv, ReadSoFar, ReadsBounded, PositionsAgree,
         NothingCutOff, SoundAccepted
  <2> QED BY <2>4, <2>5
<1> QED BY <1>3, <1>4

LEMMA Quarter == ASSUME NEW k \in Nat PROVE k \div 4 \in Nat
BY SMT

\* A label uses four bytes of the object and at most the room estimated for it.
LEMMA PrintLabelStep ==
    ASSUME IInv, NEW digits \in Digits, NEW exp \in {0, 8}, PrintLabel(digits, exp)
    PROVE  IInv'
<1> DEFINE lead == IF labels = 0 THEN 13 ELSE 2
<1>1. /\ cc \in 1 .. 512 /\ read \in Nat /\ pos \in Nat /\ left \in 0 .. 512 /\ room \in Nat
      /\ olen \in 0 .. 512 /\ labels \in Nat /\ digits \in 1 .. 7
  BY BoundsOfMessage, BytesAssumption DEF IInv, TypeOK, PacketSize
<1>2. /\ UNCHANGED <<probe, cc, hlen, pc, nh, left, sound>> /\ pc = "labels" /\ olen >= 4
      /\ pos' = pos + 4 /\ read' = pos + 4 /\ olen' = olen - 4 /\ labels' = labels + 1
      /\ pos + olen + left = cc
  BY DEF PrintLabel, Label, IInv, PositionsAgree
<1>3. /\ pos' \in Nat /\ read' \in Nat /\ read' <= cc /\ olen' \in 0 .. 512 /\ labels' \in Nat
      /\ labels' > 0 /\ pos' + olen' + left = cc
  BY <1>1, <1>2
<1>4. /\ (labels = 0 => room >= 29 * ((left \div 4) + (olen \div 4) + 1))
      /\ (labels > 0 => room >= 29 * ((left \div 4) + (olen \div 4)) + 30)
  BY <1>2 DEF IInv, RoomLeft, Text, Label
<1>5. room - lead - digits - exp >= 29 * ((left \div 4) + (olen' \div 4)) + 30
  <2>1. olen' \div 4 = (olen \div 4) - 1 /\ olen \div 4 \in Nat /\ left \div 4 \in Nat
    BY <1>1, <1>2, SMT
  <2>2. CASE labels = 0
    BY <1>1, <1>4, <2>1, <2>2, SMT
  <2>3. CASE labels > 0
    BY <1>1, <1>4, <2>1, <2>3, SMT
  <2> QED BY <1>1, <2>2, <2>3
<1>6. room - lead - digits - exp >= 30
  <2>1. left \in Nat /\ olen' \in Nat
    BY <1>1, <1>3
  <2>2. left \div 4 \in Nat
    BY ONLY <2>1, Quarter, Zenon
  <2>3. olen' \div 4 \in Nat
    BY ONLY <2>1, Quarter, Zenon
  <2> QED BY <1>1, <1>5, <2>2, <2>3, SMT
<1>7. After(After(After(room, lead), digits), exp) = room - lead - digits - exp
  BY <1>1, <1>6 DEF After
<1>8. room' = room - lead - digits - exp /\ whole' = whole
  BY <1>7, Zenon DEF PrintLabel, IInv, NothingCutOff, TypeOK
<1> HIDE DEF lead
<1>9. room' \in Nat /\ room' >= 29 * ((left \div 4) + (olen' \div 4)) + 30
  <2>1. room' \in Int
    BY <1>1, <1>8 DEF lead
  <2> QED BY <1>5, <1>6, <1>8, <2>1
<1> QED
  BY <1>1, <1>2, <1>3, <1>8, <1>9 DEF IInv, TypeOK, ReadSoFar, ReadsBounded, PositionsAgree, RoomLeft,
     NothingCutOff, SoundAccepted, PacketSize, Text, Label

\* The closing bracket fits in what the labels have left.
LEMMA EndLabelsStep ==
    ASSUME IInv, EndLabels PROVE IInv'
<1> DEFINE n == IF olen > 0 THEN 2 ELSE IF labels > 0 THEN 1 ELSE 0
<1>1. /\ cc \in 1 .. 512 /\ left \in 0 .. 512 /\ room \in Nat /\ olen \in 0 .. 512 /\ labels \in Nat
  BY BoundsOfMessage DEF IInv, TypeOK, PacketSize
<1>2. /\ UNCHANGED <<probe, cc, hlen, nh, pos, left, olen, labels, sound>> /\ pc = "labels" /\ read' = 0
      /\ olen < 4 /\ pc' = (IF olen > 0 THEN "done" ELSE "objects")
      /\ pos + olen + left = cc
  BY DEF EndLabels, Label, IInv, PositionsAgree
<1>3. room >= 29 * (left \div 4) + 29
  <2>1. left \div 4 \in Nat /\ olen \div 4 \in Nat
    BY <1>1, SMT
  <2> QED BY <1>1, <1>2, <2>1, SMT DEF IInv, RoomLeft, Text, Label
<1>4. After(room, n) = room - n /\ room - n \in Nat /\ room - n >= 29 * (left \div 4)
  <2>1. left \div 4 \in Nat
    BY <1>1, SMT
  <2> QED BY <1>1, <1>3, <2>1, SMT DEF After
<1>5. room' = room - n /\ whole' = whole
  BY <1>4, Zenon DEF EndLabels, IInv, NothingCutOff, TypeOK
<1> HIDE DEF n
<1> QED
  BY <1>1, <1>2, <1>4, <1>5 DEF IInv, TypeOK, ReadSoFar, ReadsBounded, PositionsAgree, RoomLeft,
     NothingCutOff, SoundAccepted, Text, Label

LEMMA NextReading ==
    ASSUME IInv, [Next]_vars PROVE IInv'
<1>1. CASE PacketOk4
  BY <1>1, PacketOk4Step
<1>2. CASE PacketOk6
  BY <1>2, PacketOk6Step
<1>3. CASE GetUdphdr
  BY <1>3, GetUdphdrStep
<1>4. CASE NoExthdr
  BY <1>4, BoundsOfMessage DEF NoExthdr, IInv, TypeOK, ReadSoFar, ReadsBounded, PositionsAgree, RoomLeft,
     NothingCutOff, SoundAccepted, extVars
<1>5. ASSUME NEW len \in LenBytes, NEW sum \in Sums, NEW cksum \in {0, 1, InCksum(sum)},
             ExtHeader(len, sum, cksum)
      PROVE  IInv'
  BY <1>5, ExtHeaderStep
<1>6. ASSUME NEW len \in ObjectLens, NEW mpls \in BOOLEAN, NextObject(len, mpls)
      PROVE  IInv'
  BY <1>6, NextObjectStep
<1>7. ASSUME NEW digits \in Digits, NEW exp \in {0, 8}, PrintLabel(digits, exp)
      PROVE  IInv'
  BY <1>7, PrintLabelStep
<1>8. CASE EndLabels
  BY <1>8, EndLabelsStep
<1>9. CASE Dump
  BY <1>9, DumpStep
<1>10. CASE UNCHANGED vars
  BY <1>10 DEF vars, extVars, IPv6, IInv, TypeOK, ReadSoFar, ReadsBounded, PositionsAgree, RoomLeft,
     NothingCutOff, SoundAccepted
<1> QED
  BY <1>1, <1>2, <1>3, <1>4, <1>5, <1>6, <1>7, <1>8, <1>9, <1>10, Zenon DEF Next, Step, Returned

\* What holds while a message is read, for all lengths it may give: where the
\* parsers of worker.c are and how far they have read.
THEOREM ReadingInvariant == Spec => []IInv
<1>1. Init => IInv
  BY InitReading
<1>2. IInv /\ [Next]_vars => IInv'
  BY NextReading
<1> QED BY <1>1, <1>2, PTL DEF Spec

(***************************************************************************)
(* Type correctness: positions and lengths stay in their ranges, for every *)
(* message (packet_ok, get_udphdr, print_exthdr).                          *)
(***************************************************************************)
THEOREM RepliesTypeCorrect == Spec => []TypeOK
BY ReadingInvariant, PTL DEF IInv

(***************************************************************************)
(* Whatever lengths a message gives, get_udphdr, print_exthdr and the      *)
(* verdict of packet_ok6 use no byte that was not received; the verdict of *)
(* packet_ok4 and the dumps of -v use no more than ReadsBounded says.      *)
(***************************************************************************)
THEOREM ReadsAreBounded == Spec => []ReadsBounded
BY ReadingInvariant, PTL DEF IInv

(***************************************************************************)
(* The position and the two lengths print_exthdr keeps always add up to    *)
(* the message.                                                            *)
(***************************************************************************)
THEOREM ExtensionPositionsAgree == Spec => []PositionsAgree
BY ReadingInvariant, PTL DEF IInv

(***************************************************************************)
(* The space print_exthdr allocates by its rough estimate is enough for    *)
(* the labels of every extension.                                          *)
(***************************************************************************)
THEOREM LabelsNeverCutOff == Spec => []NothingCutOff
BY ReadingInvariant, PTL DEF IInv

(***************************************************************************)
(* in_cksum accepts what in_cksum has computed, for all words that fit the *)
(* buffer.                                                                 *)
(***************************************************************************)
THEOREM SoundExtensionsAccepted == Spec => []SoundAccepted
BY ReadingInvariant, PTL DEF IInv
=============================================================================
