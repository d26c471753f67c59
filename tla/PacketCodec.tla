---------------------------- MODULE PacketCodec ----------------------------
(***************************************************************************)
(* Packets on their way between the server and the nodes: how they are     *)
(* filled in, brought into network byte order, checksummed, validated and  *)
(* brought back (LichtensteinUtils.cpp, lichtenstein_proto.h), and which   *)
(* of them the server acts on (handlePacket, handleMulticastPacket).       *)
(*                                                                         *)
(* A field's value is left out but for what the code decides on; what is   *)
(* kept of each multibyte field is its byte order.  A checksum stands for  *)
(* the bytes it was computed over: crc32_fast is external, and two packets *)
(* that differ are taken to have different checksums.                      *)
(***************************************************************************)
EXTENDS Integers, FiniteSetsExt

CONSTANTS
  TxnNumbers, \* transaction numbers
  NoPacket    \* nothing is on its way, or nothing was acted on

---------------------------------------------------------------------------
(***************************************************************************)
(* lichtenstein_proto.h.  Addresses are in network byte order everywhere   *)
(* and are no multibyte fields here.                                       *)
(***************************************************************************)
HeaderFields == {"magic", "version", "checksum", "opcode", "flags", "sequenceIndex",
                 "sequenceNumPackets", "txn", "payloadLength"}

Multibyte ==
  [nodeAnnouncement   |-> {"swVersion", "hwVersion", "port", "fbSize", "channels",
                           "numGpioDigitalIn", "numGpioDigitalOut", "numGpioAnalogIn",
                           "numGpioAnalogOut", "hostnameLen"},
   serverAnnouncement |-> {"swVersion", "capabilities", "port", "status", "hostnameLen"},
   nodeAdoption       |-> {"port", "adoptionFlags", "numChannels", "pixelsPerChannel"},
   nodeStatusReq      |-> {"uptime", "totalMem", "freeMem", "rxPackets", "txPackets",
                           "packetsWithInvalidCRC", "framesOutput", "outputState",
                           "cpuUsagePercent", "avgConversionTimeUs", "rxBytes", "txBytes",
                           "rxSymbolErrors", "mediumSpeed", "mediumDuplex"},
   framebufferData    |-> {"destChannel", "dataFormat", "dataElements"},
   syncOutput         |-> {"channel"},
   nodeReconfig       |-> {"hostnameLen"},
   other              |-> {}]

Opcodes == DOMAIN Multibyte

\* A packet's length, as the code tells lengths apart.
TooSmall == 0        \* smaller than the header
HeaderOnly == 1      \* smaller than the structure of its opcode
WholeStruct == 2

\* Opcodes as they are read; only zero, nodeAnnouncement, reads the same in
\* both byte orders.
OpcodeOf(p) ==
  IF "opcode" \in p.net /\ p.opcode # "nodeAnnouncement" THEN "other" ELSE p.opcode

---------------------------------------------------------------------------
(***************************************************************************)
(* LichtensteinUtils.cpp.                                                  *)
(***************************************************************************)

\* populateHeader, in memory that was cleared, with the payload length set.
PopulateHeader(opcode, txn) ==
  [opcode |-> opcode, flags |-> {"checksummed"}, txn |-> txn, payload |-> "struct",
   length |-> WholeStruct, magic |-> TRUE, net |-> {}, checksum |-> {}]

ASSUME NoPacketIsNone ==
  \A opcode \in Opcodes, txn \in TxnNumbers : PopulateHeader(opcode, txn) # NoPacket

Swap(p, fields) == [p EXCEPT !.net = (@ \ fields) \cup (fields \ @)]

\* The fields convertPacketByteOrder swaps behind the header.
SwappedFields(opcode) ==
  CASE opcode = "serverAnnouncement" -> Multibyte[opcode] \ {"status"}
    [] opcode = "nodeReconfig"       -> {}
    [] OTHER                         -> Multibyte[opcode]

\* Mutant of ConvertPacketByteOrder: the number of channels is read after its
\* swap in both directions.
ConvertReadsAfterSwap(p, fromNetworkOrder) ==
  LET header == Swap(p, HeaderFields)
      opcode == OpcodeOf(IF fromNetworkOrder THEN header ELSE p)
      swapped == Swap(header, SwappedFields(opcode))
  IN CASE p.payload = "none" -> [packet |-> header, err |-> 0, overrun |-> FALSE]
       [] p.payload # "none" /\ (opcode = "other" \/ p.length < WholeStruct) ->
            [packet |-> header, err |-> -1, overrun |-> FALSE]
       [] OTHER ->
            [packet |-> swapped, err |-> 0,
             overrun |-> opcode = "nodeAdoption"
                           /\ (p.payload = "text" \/ "numChannels" \in swapped.net)]

\* convertPacketByteOrder.  The header is swapped in any case, and the result
\* is an error if the rest is not.  overrun: the loop over pixelsPerChannel
\* leaves the packet, since what it takes for numChannels is not that number.
ConvertPacketByteOrder(p, fromNetworkOrder) ==
  LET header == Swap(p, HeaderFields)
      opcode == OpcodeOf(IF fromNetworkOrder THEN header ELSE p)
      swapped == Swap(header, SwappedFields(opcode))
      counted == IF fromNetworkOrder THEN swapped ELSE p
  IN CASE p.payload = "none" -> [packet |-> header, err |-> 0, overrun |-> FALSE]
       [] p.payload # "none" /\ (opcode = "other" \/ p.length < WholeStruct) ->
            [packet |-> header, err |-> -1, overrun |-> FALSE]
       [] OTHER ->
            [packet |-> swapped, err |-> 0,
             overrun |-> opcode = "nodeAdoption"
                           /\ (p.payload = "text" \/ "numChannels" \in counted.net)]

\* The bytes from the opcode to the end of the packet.
ChecksummedData(p) ==
  {<<p.opcode, p.flags, p.txn, p.payload, p.length, p.net \ {"magic", "version", "checksum"}>>}

\* applyChecksum, on a packet that is no smaller than its header.
ApplyChecksum(p) ==
  [p EXCEPT !.checksum = ChecksummedData(p), !.net = @ \cup {"checksum"}]

\* Mutant of ValidatePacket: the flags are tested in host byte order.
ValidateHostFlags(p) ==
  CASE p.length = TooSmall -> "kPacketTooSmall"
    [] p.length # TooSmall /\ "checksummed" \in p.flags /\ "flags" \notin p.net
         /\ p.checksum # ChecksummedData(p) -> "kInvalidChecksum"
    [] OTHER -> IF p.magic THEN "kNoError" ELSE "kInvalidMagic"

\* validatePacket, on a packet right off the wire.
ValidatePacket(p) ==
  LET checksummed == "flags" \in p.net /\ "checksummed" \in p.flags
      matches == "checksum" \in p.net /\ p.checksum = ChecksummedData(p)
  IN CASE p.length = TooSmall -> "kPacketTooSmall"
       [] p.length # TooSmall /\ checksummed /\ ~matches -> "kInvalidChecksum"
       [] p.length # TooSmall /\ (checksummed => matches) ->
            IF p.magic /\ "magic" \in p.net THEN "kNoError" ELSE "kInvalidMagic"

---------------------------------------------------------------------------
VARIABLES
  packet,      \* the datagram on its way
  to,          \* where it goes: "node", "server" or "multicast" (to the server)
  handled,     \* the last packet that was acted on, as its handler read it
  aborted,     \* a CHECK on what the server was about to send has failed
  overrun,     \* convertPacketByteOrder has left the packet
  meant,       \* history: what the sender of the datagram meant
  damage,      \* history: what the network has damaged in it
  trusted      \* history: the server took it for valid without having looked

codecVars == <<packet, to, handled, aborted, overrun, meant, damage, trusted>>

CodecInit ==
  /\ packet = NoPacket /\ to = "node"
  /\ handled = NoPacket
  /\ aborted = FALSE /\ overrun = FALSE
  /\ meant = NoPacket /\ damage = {} /\ trusted = FALSE

\* A datagram is put on the wire.
Put(p, destination, intention) ==
  /\ packet = NoPacket
  /\ packet' = p
  /\ to' = destination
  /\ handled' = NoPacket
  /\ meant' = intention
  /\ damage' = {} /\ trusted' = FALSE

---------------------------------------------------------------------------
(***************************************************************************)
(* The server sends.                                                       *)
(***************************************************************************)

\* Mutant of Encode: the checksum is computed before the bytes are swapped.
EncodeChecksumFirst(p) == ConvertPacketByteOrder(ApplyChecksum(p), FALSE)

\* convertToNetworkByteOrder, then applyChecksum.
Encode(p) ==
  LET converted == ConvertPacketByteOrder(p, FALSE)
  IN [converted EXCEPT !.packet = ApplyChecksum(converted.packet)]

\* adoptNode and sendDataToNode; the CHECK comes before sendto.
ServerSends(opcode, txn) ==
  LET encoded == Encode(PopulateHeader(opcode, txn))
  IN /\ overrun' = encoded.overrun
     /\ \/ encoded.err = 0
           /\ Put(encoded.packet, "node", PopulateHeader(opcode, txn))
           /\ UNCHANGED aborted
        \/ /\ packet = NoPacket
           /\ encoded.err # 0
           /\ aborted' = TRUE
           /\ UNCHANGED <<packet, to, handled, meant, damage, trusted>>

---------------------------------------------------------------------------
(***************************************************************************)
(* The nodes and the network ("Lichtenstein Protocol.md").                 *)
(***************************************************************************)

\* A packet of a node: in network byte order, with a checksum if it says so.
NodePacket(opcode, flags, txn, payload, length) ==
  LET p == [opcode |-> opcode, flags |-> flags, txn |-> txn, payload |-> payload,
            length |-> length, magic |-> TRUE, checksum |-> {},
            net |-> HeaderFields
                      \cup (IF payload = "struct" THEN Multibyte[opcode] ELSE {})]
  IN IF "checksummed" \in flags THEN ApplyChecksum(p) ELSE p

NodeSends(p, destination) ==
  /\ Put(p, destination, p)
  /\ UNCHANGED <<aborted, overrun>>

Checksums == {{}, {"checksummed"}}

NodeAnnounces(txn, c) ==
  NodeSends(NodePacket("nodeAnnouncement", {"multicast"} \cup c, txn, "struct", WholeStruct),
            "multicast")

\* "The payload length should be zero and no payload may be sent."
NodeAcks(opcode, txn, c) ==
  NodeSends(NodePacket(opcode, {"response", "ack"} \cup c, txn, "none", HeaderOnly), "server")

\* "The payload consists of an optional zero-terminated string"
NodeNAcks(opcode, txn, c, length) ==
  NodeSends(NodePacket(opcode, {"response", "nack"} \cup c, txn, "text", length), "server")

NodeReports(txn, c) ==
  NodeSends(NodePacket("nodeStatusReq", {"response"} \cup c, txn, "struct", WholeStruct), "server")

\* A datagram of some other program.
StrayArrives(opcode, flags, length, destination) ==
  /\ Put([NodePacket(opcode, flags, CHOOSE t \in TxnNumbers : TRUE, "text", length)
            EXCEPT !.magic = FALSE, !.checksum = {}],
         destination, NoPacket)
  /\ UNCHANGED <<aborted, overrun>>

\* The network damages a datagram.
Damage(what) ==
  /\ packet # NoPacket
  /\ meant # NoPacket
  /\ packet' = CASE what = "magic"   -> [packet EXCEPT !.magic = FALSE]
                 [] what = "flag"    -> [packet EXCEPT !.flags = @ \ {"checksummed"}]
                 [] what = "payload" -> [packet EXCEPT !.payload =
                                           IF @ = "none" THEN @ ELSE "text"]
                 [] what = "txn"     -> [packet EXCEPT !.txn = CHOOSE t \in TxnNumbers : t # @]
  /\ damage' = damage \cup {what}
  /\ UNCHANGED <<to, handled, aborted, overrun, meant, trusted>>

Lose ==
  /\ packet # NoPacket
  /\ packet' = NoPacket
  /\ UNCHANGED <<to, handled, aborted, overrun, meant, damage, trusted>>

\* A node discards what is not valid and reads network byte order.
NodeReceives ==
  /\ packet # NoPacket /\ to = "node"
  /\ packet' = NoPacket
  /\ handled' = IF ValidatePacket(packet) = "kNoError"
                THEN [opcode |-> packet.opcode, txn |-> packet.txn,
                      payload |-> packet.payload,
                      wrongOrder |-> (HeaderFields \cup Multibyte[packet.opcode]) \ packet.net]
                ELSE NoPacket
  /\ UNCHANGED <<to, aborted, overrun, meant, damage, trusted>>

---------------------------------------------------------------------------
(***************************************************************************)
(* The server receives.                                                    *)
(***************************************************************************)

\* What a handler reads of a converted packet, and in which byte order.
Read(p, fields) ==
  [opcode |-> OpcodeOf(p), txn |-> p.txn, payload |-> p.payload,
   wrongOrder |-> fields \cap p.net]

\* handleMulticastPacket.
ServerReceivesMulticast ==
  LET converted == ConvertPacketByteOrder(packet, TRUE)
      valid == ValidatePacket(packet) = "kNoError"
      p == converted.packet
  IN /\ packet # NoPacket /\ to = "multicast"
     /\ packet' = NoPacket
     /\ handled' = IF valid /\ OpcodeOf(p) = "nodeAnnouncement"
                   THEN Read(p, HeaderFields \cup Multibyte["nodeAnnouncement"])
                   ELSE NoPacket
     /\ overrun' = (valid /\ converted.overrun)
     /\ UNCHANGED <<to, aborted, meant, damage, trusted>>

\* handlePacket: err, which it tests, is not the result of validatePacket but
\* was never assigned.
ServerReceives(errIsZero) ==
  LET converted == ConvertPacketByteOrder(packet, TRUE)
      p == converted.packet
      isAck == "ack" \in p.flags /\ "flags" \notin p.net
  IN /\ packet # NoPacket /\ to = "server"
     /\ packet' = NoPacket
     /\ handled' = IF errIsZero /\ isAck /\ OpcodeOf(p) \in {"nodeAdoption", "framebufferData"}
                   THEN Read(p, HeaderFields)
                   ELSE NoPacket
     /\ overrun' = (errIsZero /\ converted.overrun)
     /\ trusted' = (errIsZero /\ ValidatePacket(packet) # "kNoError")
     /\ UNCHANGED <<to, aborted, meant, damage>>

---------------------------------------------------------------------------
Sends(txn) ==
  \/ \E opcode \in {"nodeAdoption", "framebufferData"} : ServerSends(opcode, txn)
  \/ \E c \in Checksums :
       \/ NodeAnnounces(txn, c)
       \/ NodeReports(txn, c)
       \/ \E opcode \in Opcodes :
            \/ NodeAcks(opcode, txn, c)
            \/ \E length \in {HeaderOnly, WholeStruct} : NodeNAcks(opcode, txn, c, length)

Stray ==
  \E opcode \in Opcodes, flags \in SUBSET {"checksummed", "ack"},
     length \in TooSmall..WholeStruct, destination \in {"server", "multicast"} :
    StrayArrives(opcode, flags, length, destination)

Receive ==
  \/ NodeReceives
  \/ ServerReceivesMulticast
  \/ \E errIsZero \in BOOLEAN : ServerReceives(errIsZero)

\* After an overrun the memory of the server is undefined.
Ended == (overrun \/ aborted) /\ UNCHANGED codecVars

CodecNext ==
  \/ ~overrun /\ ~aborted
       /\ \/ \E txn \in TxnNumbers : Sends(txn)
          \/ Stray
          \/ \E what \in {"magic", "flag", "payload", "txn"} : Damage(what)
          \/ Lose
          \/ Receive
  \/ Ended

CodecSpec == CodecInit /\ [][CodecNext]_codecVars

---------------------------------------------------------------------------
\* What the server puts on the wire passes its own validation, with every
\* multibyte value in network byte order: the swap of the header, the swap of
\* the payload by an opcode that is itself swapped, and the checksum over the
\* result are done in an order that fits (convertToNetworkByteOrder,
\* applyChecksum; lichtenstein_proto.h:5).
WireIsValid ==
  /\ ~aborted
  /\ packet # NoPacket /\ to = "node" /\ damage = {} =>
       /\ ValidatePacket(packet) = "kNoError"
       /\ HeaderFields \cup Multibyte[packet.opcode] \subseteq packet.net

\* The damage that validatePacket cannot notice: there is no checksum, or its
\* flag is what was damaged.
Unnoticed == damage # {} /\ ("checksummed" \notin meant.flags \/ "flag" \in damage)

\* A packet that is acted on, by a node or by the server, is one that was sent,
\* and its handler reads in its own byte order what the sender put in, unless
\* the damage cannot be noticed or handlePacket went on without knowing
\* whether the packet is valid.
HandledAsMeant ==
  handled # NoPacket /\ ~trusted =>
    /\ meant # NoPacket
    /\ ~Unnoticed => /\ handled.opcode = meant.opcode
                     /\ handled.txn = meant.txn
                     /\ handled.payload = meant.payload
                     /\ handled.wrongOrder = {}

\* convertPacketByteOrder stays inside the packet, unless it is the negative
\* ack of an adoption, whose text is taken for a number of channels, or one
\* that is no valid packet at all.
SwapStaysInPacket ==
  overrun => trusted \/ Unnoticed \/ ("nack" \in meant.flags /\ meant.opcode = "nodeAdoption")
===========================================================================
