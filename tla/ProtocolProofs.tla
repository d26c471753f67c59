--------------------------- MODULE ProtocolProofs ---------------------------
(***************************************************************************)
(* Proofs about what the server and the nodes say to each other: about     *)
(* NodeAdoption, for any nodes, addresses, configurations and transaction  *)
(* numbers, and so for any number of adoptions that wait for an answer at  *)
(* a time, and about PacketCodec, for any transaction numbers and any      *)
(* sequence of packets, damaged ones included.                             *)
(***************************************************************************)
EXTENDS NodeAdoption, PacketCodec, TLAPS

Channels == (UNION {ConfigsOf[m] : m \in Macs}) \cup {NoChannel}

\* What a DbNode object holds.
NodeCopy == [mac : Macs, ip : Ips, channel : Channels]

Adoption == [txn : Txns, node : NodeCopy]

\* What a client's UpdateNode request works on: the mark is written back too.
ClientCopy == [mac : Macs, ip : Ips, adopted : BOOLEAN, channel : Channels]

\* The shapes of the tables, the lists and the packets.
TypeOK ==
  /\ rows \in [Macs -> [ip : Ips \cup {NoIp}, adopted : BOOLEAN, channel : Channels]]
  /\ pendingAdoptions \subseteq Adoption
  /\ node \in NodeCopy \cup {NoNode}
  /\ client \in [Clients -> ClientCopy \cup {NoNode}]
  /\ device \in [Macs -> [ip : Ips, adopted : BOOLEAN]]
  /\ announcements \subseteq [mac : Macs, ip : Ips]
  /\ adoptions \subseteq [txn : Txns, ip : Ips]
  /\ acks \subseteq Txns
  /\ newest \in [Macs -> Ips \cup {NoIp}]
  /\ configured \in [Macs -> Channels]

\* handlePacket may search pendingAdoptions by transaction number: no two
\* adoptions that wait have the same one.
TxnsAreUnique == \A e, f \in pendingAdoptions : e.txn = f.txn => e = f

\* A waiting copy has the address its node announced last, unless the node has
\* been announced again.
CopiesHaveNewest ==
  \A e \in pendingAdoptions : e.txn \notin superseded => e.node.ip = newest[e.node.mac]

\* The channel c, loaded for node m, may be written back: there is none, it
\* is what a client stored last, or the row has been reverted already.
MayBeWritten(m, c) == c = NoChannel \/ c = configured[m] \/ m \in reverted

\* Every copy, waiting or in work, is marked as outdated or may be written.
CopiesHaveChannel ==
  /\ \A e \in pendingAdoptions :
       e.txn \notin outdated => MayBeWritten(e.node.mac, e.node.channel)
  /\ node # NoNode /\ NoNode \notin outdated => MayBeWritten(node.mac, node.channel)

\* The same of the copies of clients, and a mark they may write back is true.
ClientCopiesAreMarked ==
  \A c \in Clients : client[c] # NoNode =>
    /\ c \notin superseded => client[c].ip = newest[client[c].mac]
    /\ c \notin outdated => MayBeWritten(client[c].mac, client[c].channel)
    /\ client[c].adopted => client[c].mac \in accepted

\* Each address that is about is one of the node it is about.
AddressesStayOwn ==
  /\ \A m \in Macs : device[m].ip \in IpsOf[m]
  /\ \A p \in announcements : p.ip \in IpsOf[p.mac]
  /\ \A e \in pendingAdoptions : e.node.ip \in IpsOf[e.node.mac]
  /\ node # NoNode => node.ip \in IpsOf[node.mac]

\* An adoption on its way goes to the address in the copy that waits for its
\* answer, and an answer comes from a node that has accepted.
AnswersAreOwn ==
  \A e \in pendingAdoptions :
    /\ \A a \in adoptions : a.txn = e.txn => a.ip = e.node.ip
    /\ e.txn \in acks => e.node.mac \in accepted

AdoptionInvariant ==
  /\ TypeOK
  /\ TxnsAreUnique
  /\ AddressIsNewest /\ CopiesHaveNewest
  /\ ClientChangeStays /\ CopiesHaveChannel /\ ClientCopiesAreMarked
  /\ AddressesStayOwn /\ AnswersAreOwn /\ AdoptedNodeAccepted

LEMMA AdoptionInit == Init => AdoptionInvariant
<1> SUFFICES ASSUME Init PROVE AdoptionInvariant
  OBVIOUS
<1>1. TypeOK
  BY DEF Init, TypeOK, Channels, NodeCopy, Adoption, ClientCopy
<1>2. TxnsAreUnique /\ CopiesHaveNewest /\ CopiesHaveChannel /\ AnswersAreOwn
  BY DEF Init, TxnsAreUnique, CopiesHaveNewest, CopiesHaveChannel, AnswersAreOwn
<1>3. AddressIsNewest /\ ClientChangeStays /\ AdoptedNodeAccepted
  BY DEF Init, AddressIsNewest, ClientChangeStays, AdoptedNodeAccepted
<1>4. AddressesStayOwn
  BY DEF Init, AddressesStayOwn
<1>5. ClientCopiesAreMarked
  BY DEF Init, ClientCopiesAreMarked
<1> QED
  BY <1>1, <1>2, <1>3, <1>4, <1>5 DEF AdoptionInvariant

---------------------------------------------------------------------------
(***************************************************************************)
(* The nodes and the network, which do not touch the datastore.            *)
(***************************************************************************)

\* A step of the world outside: the server and its history stay, and no ack
\* comes from a node that has not accepted.
LEMMA OutsidePreserves ==
  ASSUME AdoptionInvariant, TypeOK',
         UNCHANGED <<server, newest, configured, copies>>,
         accepted \subseteq accepted',
         adoptions' \subseteq adoptions,
         \A m \in Macs : device'[m].ip \in IpsOf[m],
         \A p \in announcements' : p.ip \in IpsOf[p.mac],
         \A e \in pendingAdoptions : e.txn \in acks' => e.node.mac \in accepted'
  PROVE  AdoptionInvariant'
<1> USE DEF AdoptionInvariant, server, copies
<1>1. TxnsAreUnique' /\ AddressIsNewest' /\ CopiesHaveNewest'
  BY DEF TxnsAreUnique, AddressIsNewest, CopiesHaveNewest
<1>2. ClientChangeStays' /\ CopiesHaveChannel'
  BY DEF ClientChangeStays, CopiesHaveChannel, MayBeWritten
<1>3. AddressesStayOwn'
  BY DEF AddressesStayOwn
<1>4. AnswersAreOwn' /\ AdoptedNodeAccepted'
  BY DEF AnswersAreOwn, AdoptedNodeAccepted
<1>5. ClientCopiesAreMarked'
  BY DEF ClientCopiesAreMarked, MayBeWritten
<1> QED
  BY <1>1, <1>2, <1>3, <1>4, <1>5

LEMMA AnnouncePreserves ==
  ASSUME AdoptionInvariant, NEW m \in Macs, Announce(m)
  PROVE  AdoptionInvariant'
<1>1. /\ UNCHANGED <<server, newest, configured, copies, accepted, adoptions, acks, device>>
      /\ announcements' = announcements \cup {[mac |-> m, ip |-> device[m].ip]}
  BY DEF Announce, history
<1>2. TypeOK'
  BY <1>1 DEF AdoptionInvariant, TypeOK, server
<1>3. \A p \in announcements' : p.ip \in IpsOf[p.mac]
  BY <1>1 DEF AdoptionInvariant, AddressesStayOwn
<1>4. /\ \A n \in Macs : device'[n].ip \in IpsOf[n]
      /\ \A e \in pendingAdoptions : e.txn \in acks' => e.node.mac \in accepted'
  BY <1>1 DEF AdoptionInvariant, AddressesStayOwn, AnswersAreOwn
<1> QED
  BY <1>1, <1>2, <1>3, <1>4, OutsidePreserves

LEMMA RestartPreserves ==
  ASSUME AdoptionInvariant, NEW m \in Macs, NEW ip \in Ips, Restart(m, ip)
  PROVE  AdoptionInvariant'
<1>1. /\ UNCHANGED <<server, newest, configured, copies, accepted, network>>
      /\ device' = [device EXCEPT ![m] = [ip |-> ip, adopted |-> FALSE]]
      /\ ip \in IpsOf[m]
  BY DEF Restart, history
<1>2. TypeOK'
  BY <1>1 DEF AdoptionInvariant, TypeOK, server, network
<1>3. \A n \in Macs : device'[n].ip \in IpsOf[n]
  BY <1>1 DEF AdoptionInvariant, AddressesStayOwn, TypeOK
<1>4. /\ \A p \in announcements' : p.ip \in IpsOf[p.mac]
      /\ \A e \in pendingAdoptions : e.txn \in acks' => e.node.mac \in accepted'
      /\ UNCHANGED <<adoptions, accepted>>
  BY <1>1 DEF AdoptionInvariant, AddressesStayOwn, AnswersAreOwn, network
<1> QED
  BY <1>1, <1>2, <1>3, <1>4, OutsidePreserves

LEMMA LosePacketPreserves ==
  ASSUME AdoptionInvariant, LosePacket
  PROVE  AdoptionInvariant'
<1>1. /\ UNCHANGED <<server, newest, configured, copies, accepted, device>>
      /\ announcements' \subseteq announcements
      /\ adoptions' \subseteq adoptions
      /\ acks' \subseteq acks
  BY DEF LosePacket, history
<1>2. TypeOK'
  BY <1>1 DEF AdoptionInvariant, TypeOK, server
<1>3. /\ \A m \in Macs : device'[m].ip \in IpsOf[m]
      /\ \A p \in announcements' : p.ip \in IpsOf[p.mac]
      /\ \A e \in pendingAdoptions : e.txn \in acks' => e.node.mac \in accepted'
  BY <1>1 DEF AdoptionInvariant, AddressesStayOwn, AnswersAreOwn
<1> QED
  BY <1>1, <1>2, <1>3, OutsidePreserves

\* The node that an adoption reaches is the one the waiting copy is of: it has
\* the address, and no other node can.
LEMMA ReceiveAdoptionPreserves ==
  ASSUME AdoptionInvariant, NEW a \in adoptions, NEW m \in Macs, ReceiveAdoption(a, m)
  PROVE  AdoptionInvariant'
<1>1. /\ UNCHANGED <<server, newest, configured, copies, announcements>>
      /\ device' = [device EXCEPT ![m].adopted = TRUE]
      /\ adoptions' = adoptions \ {a}
      /\ acks' \subseteq acks \cup {a.txn}
      /\ accepted' = accepted \cup {m}
      /\ device[m].ip = a.ip
  BY DEF ReceiveAdoption
<1>2. TypeOK'
  BY <1>1 DEF AdoptionInvariant, TypeOK, server
<1>3. ASSUME NEW e \in pendingAdoptions, e.txn \in acks'
      PROVE  e.node.mac \in accepted'
  <2>1. CASE e.txn \in acks
    BY <1>1, <2>1 DEF AdoptionInvariant, AnswersAreOwn
  <2>2. CASE e.txn = a.txn
    <3>1. e.node.ip = device[m].ip
      BY <1>1, <2>2 DEF AdoptionInvariant, AnswersAreOwn
    <3>2. e.node.ip \in IpsOf[e.node.mac] /\ device[m].ip \in IpsOf[m] /\ e.node.mac \in Macs
      BY DEF AdoptionInvariant, AddressesStayOwn, TypeOK, Adoption, NodeCopy
    <3>3. e.node.mac = m
      BY <3>1, <3>2, AddressesAreOwn
    <3> QED
      BY <1>1, <3>3
  <2> QED
    BY <1>1, <1>3, <2>1, <2>2
<1>4. /\ \A n \in Macs : device'[n].ip \in IpsOf[n]
      /\ \A p \in announcements' : p.ip \in IpsOf[p.mac]
  BY <1>1 DEF AdoptionInvariant, AddressesStayOwn, TypeOK
<1> QED
  BY <1>1, <1>2, <1>3, <1>4, OutsidePreserves

---------------------------------------------------------------------------
(***************************************************************************)
(* The protocol worker.                                                    *)
(***************************************************************************)

\* DataStore::update: what becomes of the rows.
LEMMA UpdateNodeFacts ==
  ASSUME TypeOK, NEW n, n.mac \in Macs, n.ip \in Ips, n.channel \in Channels,
         NEW b \in BOOLEAN, rows' = UpdateNode(rows, n, b)
  PROVE  /\ rows' \in [Macs -> [ip : Ips \cup {NoIp}, adopted : BOOLEAN, channel : Channels]]
         /\ rows'[n.mac].ip = n.ip
         /\ rows'[n.mac].adopted = b
         /\ rows'[n.mac].channel = IF n.channel = NoChannel THEN rows[n.mac].channel
                                                            ELSE n.channel
         /\ \A m \in Macs \ {n.mac} : rows'[m] = rows[m]
BY DEF TypeOK, UpdateNode

\* A copy whose channel may be written leaves the channel as the client wants
\* it; one that may not marks the node as reverted.
LEMMA UpdateKeepsChannel ==
  ASSUME TypeOK, ClientChangeStays,
         NEW n, n.mac \in Macs, n.ip \in Ips, n.channel \in Channels, NEW b \in BOOLEAN,
         rows' = UpdateNode(rows, n, b), configured' = configured,
         reverted \subseteq reverted',
         MayBeWritten(n.mac, n.channel) \/ n.mac \in reverted'
  PROVE  ClientChangeStays'
BY UpdateNodeFacts DEF ClientChangeStays, MayBeWritten

LEMMA ReceiveAnnouncementPreserves ==
  ASSUME AdoptionInvariant, NEW p \in announcements, ReceiveAnnouncement(p)
  PROVE  AdoptionInvariant'
<1> USE DEF AdoptionInvariant
<1>1. /\ UNCHANGED <<rows, pendingAdoptions, client, adoptions, acks, device, accepted, newest,
                     configured, superseded, outdated, rewound, reverted>>
      /\ announcements' = announcements \ {p}
      /\ node' = [mac |-> p.mac, ip |-> p.ip, channel |-> rows[p.mac].channel]
  BY DEF ReceiveAnnouncement, LoadNode, history, copies
<1>2. p.mac \in Macs /\ p.ip \in Ips /\ p.ip \in IpsOf[p.mac]
  BY DEF TypeOK, AddressesStayOwn
<1>3. TypeOK'
  <2>1. node' \in NodeCopy
    BY <1>1, <1>2 DEF TypeOK, NodeCopy
  <2> QED
    BY <1>1, <2>1 DEF TypeOK
<1>4. TxnsAreUnique' /\ AddressIsNewest' /\ CopiesHaveNewest' /\ ClientChangeStays'
  BY <1>1 DEF TxnsAreUnique, AddressIsNewest, CopiesHaveNewest, ClientChangeStays
<1>5. CopiesHaveChannel'
  <2>1. MayBeWritten(p.mac, rows[p.mac].channel)
    BY <1>2 DEF ClientChangeStays, MayBeWritten
  <2> QED
    BY <1>1, <2>1 DEF CopiesHaveChannel, MayBeWritten
<1>6. AddressesStayOwn'
  BY <1>1, <1>2 DEF AddressesStayOwn
<1>7. AnswersAreOwn' /\ AdoptedNodeAccepted'
  BY <1>1 DEF AnswersAreOwn, AdoptedNodeAccepted
<1>8. ClientCopiesAreMarked'
  BY <1>1 DEF ClientCopiesAreMarked, MayBeWritten
<1> QED
  BY <1>3, <1>4, <1>5, <1>6, <1>7, <1>8

\* processNodeAnnouncement stores the node; whatever waits for it is superseded
\* now, and what may join the list is the copy that was just stored.
LEMMA StoreAndAdoptPreserves ==
  ASSUME AdoptionInvariant, StoreAndAdopt
  PROVE  AdoptionInvariant'
<1> USE DEF AdoptionInvariant
<1>1. /\ node \in NodeCopy /\ node # NoNode
      /\ node.mac \in Macs /\ node.ip \in Ips /\ node.channel \in Channels
  BY DEF StoreAndAdopt, TypeOK, NodeCopy
<1>2. /\ rows' = UpdateNode(rows, node, FALSE)
      /\ node' = NoNode
      /\ newest' = [newest EXCEPT ![node.mac] = node.ip]
      /\ superseded' = superseded \cup ({e.txn : e \in PendingOf(node.mac)} \cup ClientsOf(node.mac))
      /\ rewound' = rewound \ {node.mac}
      /\ reverted' = IF NoNode \in outdated THEN reverted \cup {node.mac} ELSE reverted
      /\ UNCHANGED <<client, announcements, acks, device, accepted, configured>>
  BY DEF StoreAndAdopt
<1>3. /\ node.ip \in IpsOf[node.mac]
      /\ \A m \in Macs : newest'[m] = IF m = node.mac THEN node.ip ELSE newest[m]
      /\ newest' \in [Macs -> Ips \cup {NoIp}]
  BY <1>1, <1>2 DEF TypeOK, NodeCopy, AddressesStayOwn
<1>4. AddressIsNewest'
  <2>1. /\ rows'[node.mac].ip = node.ip
        /\ \A m \in Macs \ {node.mac} : rows'[m] = rows[m]
    BY <1>1, <1>2, UpdateNodeFacts
  <2> QED
    BY <1>2, <1>3, <2>1 DEF AddressIsNewest
<1>5. ClientChangeStays'
  <2>1. MayBeWritten(node.mac, node.channel) \/ node.mac \in reverted'
    BY <1>1, <1>2 DEF CopiesHaveChannel
  <2>2. reverted \subseteq reverted'
    BY <1>2
  <2> QED
    BY <1>1, <1>2, <2>1, <2>2, UpdateKeepsChannel
<1>6. AdoptedNodeAccepted'
  BY <1>1, <1>2, UpdateNodeFacts DEF AdoptedNodeAccepted
<1>7. \A e \in pendingAdoptions :
        e.txn \notin superseded' => e.node.mac # node.mac /\ e.node.ip = newest'[e.node.mac]
  BY <1>2, <1>3 DEF PendingOf, CopiesHaveNewest, TypeOK, Adoption, NodeCopy
<1>8. \A m \in Macs : \A c : MayBeWritten(m, c) => MayBeWritten(m, c)'
  BY <1>2 DEF MayBeWritten
<1>9. ASSUME \A c \in Clients : c \notin outdated' => c \notin outdated
       PROVE  ClientCopiesAreMarked'
  <2> SUFFICES ASSUME NEW c \in Clients, client[c] # NoNode
               PROVE  /\ c \notin superseded' => client[c].ip = newest'[client[c].mac]
                      /\ c \notin outdated' => MayBeWritten(client[c].mac, client[c].channel)'
                      /\ client[c].adopted => client[c].mac \in accepted
    BY <1>2 DEF ClientCopiesAreMarked, MayBeWritten
  <2>1. client[c] \in ClientCopy
    BY DEF TypeOK
  <2>2. client[c].mac \in Macs
    BY <2>1 DEF ClientCopy
  <2>3. c \notin superseded' => c \notin superseded /\ client[c].mac # node.mac
    BY <1>2 DEF ClientsOf
  <2> QED
    BY <1>2, <1>3, <1>8, <1>9, <2>2, <2>3 DEF ClientCopiesAreMarked
<1>10. CASE UNCHANGED <<adoptions, pendingAdoptions>> /\ outdated' = outdated \ {NoNode}
  <2>1. TypeOK'
    BY <1>1, <1>2, <1>3, <1>10, UpdateNodeFacts DEF TypeOK
  <2>2. TxnsAreUnique' /\ CopiesHaveNewest' /\ AnswersAreOwn'
    BY <1>2, <1>7, <1>10 DEF TxnsAreUnique, CopiesHaveNewest, AnswersAreOwn
  <2>3. CopiesHaveChannel'
    <3>1. \A e \in pendingAdoptions : e.txn # NoNode /\ e.node.mac \in Macs
      BY CopiesAreApart DEF TypeOK, Adoption, NodeCopy
    <3> QED
      BY <1>2, <1>8, <1>10, <3>1 DEF CopiesHaveChannel
  <2>4. AddressesStayOwn'
    BY <1>2, <1>10 DEF AddressesStayOwn
  <2>5. ClientCopiesAreMarked'
    BY <1>10, <1>9, CopiesAreApart
  <2> QED
    BY <1>4, <1>5, <1>6, <2>1, <2>2, <2>3, <2>4, <2>5
<1>11. ASSUME NEW t \in Txns, IsUnused(t),
              adoptions' = adoptions \cup {[txn |-> t, ip |-> node.ip]},
              pendingAdoptions' = pendingAdoptions \cup {[txn |-> t, node |-> node]},
              outdated' = IF NoNode \in outdated
                          THEN (outdated \ {NoNode}) \cup {t} ELSE outdated
       PROVE  AdoptionInvariant'
  <2>1. t \notin acks /\ (\A a \in adoptions : a.txn # t) /\ (\A e \in pendingAdoptions : e.txn # t)
    BY <1>11 DEF IsUnused
  <2>2. TypeOK'
    <3>1. [txn |-> t, node |-> node] \in Adoption /\ [txn |-> t, ip |-> node.ip] \in [txn : Txns, ip : Ips]
      BY <1>1, <1>3 DEF Adoption
    <3> QED
      BY <1>1, <1>2, <1>3, <1>11, <3>1, UpdateNodeFacts DEF TypeOK
  <2>3. TxnsAreUnique'
    BY <1>11, <2>1 DEF TxnsAreUnique
  <2>4. CopiesHaveNewest'
    BY <1>1, <1>3, <1>7, <1>11 DEF CopiesHaveNewest
  <2>5. CopiesHaveChannel'
    <3>1. \A e \in pendingAdoptions : e.txn # NoNode /\ e.node.mac \in Macs
      BY CopiesAreApart DEF TypeOK, Adoption, NodeCopy
    <3>2. \A e \in pendingAdoptions :
            e.txn \notin outdated' => MayBeWritten(e.node.mac, e.node.channel)'
      BY <1>8, <1>11, <3>1 DEF CopiesHaveChannel
    <3>3. t \notin outdated' => MayBeWritten(node.mac, node.channel)
      BY <1>1, <1>11 DEF CopiesHaveChannel
    <3>4. t \notin outdated' => (node.channel = NoChannel \/ node.channel = configured'[node.mac]
                                   \/ node.mac \in reverted')
      BY <1>2, <3>3 DEF MayBeWritten
    <3> QED
      BY <1>2, <1>11, <3>2, <3>4 DEF CopiesHaveChannel, MayBeWritten
  <2>6. AddressesStayOwn'
    BY <1>2, <1>3, <1>11 DEF AddressesStayOwn
  <2>7. AnswersAreOwn'
    BY <1>2, <1>11, <2>1 DEF AnswersAreOwn
  <2>8. ClientCopiesAreMarked'
    BY <1>11, <1>9, CopiesAreApart
  <2> QED
    BY <1>4, <1>5, <1>6, <2>2, <2>3, <2>4, <2>5, <2>6, <2>7, <2>8
<1> QED
  BY <1>10, <1>11 DEF StoreAndAdopt

\* handlePacket writes the copy back.  It is the newest unless it is marked as
\* superseded, its channel may be written unless it is marked as outdated, and
\* its node has accepted.
LEMMA WriteBackPreserves ==
  ASSUME AdoptionInvariant, NEW e \in pendingAdoptions, e.txn \in acks,
         WriteBack(e), acks' \subseteq acks,
         UNCHANGED <<node, client, announcements, adoptions, device, accepted, newest, configured>>
  PROVE  AdoptionInvariant'
<1> USE DEF AdoptionInvariant
<1>1. /\ rows' = UpdateNode(rows, e.node, TRUE)
      /\ pendingAdoptions' = pendingAdoptions \ {e}
      /\ superseded' = superseded \ {e.txn}
      /\ outdated' = outdated \ {e.txn}
      /\ rewound' = IF e.txn \in superseded THEN rewound \cup {e.node.mac}
                                            ELSE rewound \ {e.node.mac}
      /\ reverted' = IF e.txn \in outdated THEN reverted \cup {e.node.mac} ELSE reverted
  BY DEF WriteBack, CopyWritten
<1>2. /\ e.txn \in Txns
      /\ e.node.mac \in Macs /\ e.node.ip \in Ips /\ e.node.channel \in Channels
  BY DEF TypeOK, Adoption, NodeCopy
<1>3. /\ rows' \in [Macs -> [ip : Ips \cup {NoIp}, adopted : BOOLEAN, channel : Channels]]
      /\ rows'[e.node.mac].ip = e.node.ip
      /\ \A m \in Macs \ {e.node.mac} : rows'[m] = rows[m]
  BY <1>1, <1>2, UpdateNodeFacts
<1>4. TypeOK'
  BY <1>1, <1>3 DEF TypeOK
<1>5. AddressIsNewest'
  <2>1. e.txn \notin superseded => e.node.ip = newest[e.node.mac]
    BY DEF CopiesHaveNewest
  <2> QED
    BY <1>1, <1>3, <2>1 DEF AddressIsNewest
<1>6. ClientChangeStays'
  <2>1. MayBeWritten(e.node.mac, e.node.channel) \/ e.node.mac \in reverted'
    BY <1>1 DEF CopiesHaveChannel
  <2>2. reverted \subseteq reverted'
    BY <1>1
  <2> QED
    BY <1>1, <1>2, <2>1, <2>2, UpdateKeepsChannel
<1>7. AdoptedNodeAccepted'
  <2>1. e.node.mac \in accepted
    BY DEF AnswersAreOwn
  <2> QED
    BY <1>3, <2>1 DEF AdoptedNodeAccepted
<1>8. \A f \in pendingAdoptions' : f \in pendingAdoptions /\ f.txn # e.txn
  BY <1>1 DEF TxnsAreUnique
<1>9. TxnsAreUnique' /\ CopiesHaveNewest' /\ AnswersAreOwn' /\ AddressesStayOwn'
  BY <1>1, <1>8 DEF TxnsAreUnique, CopiesHaveNewest, AnswersAreOwn, AddressesStayOwn
<1>10. CopiesHaveChannel'
  <2>1. e.txn # NoNode
    BY <1>2, CopiesAreApart
  <2> QED
    BY <1>1, <1>8, <2>1 DEF CopiesHaveChannel, MayBeWritten
<1>11. ClientCopiesAreMarked'
  <2>1. \A c \in Clients : c # e.txn
    BY <1>2, CopiesAreApart
  <2> QED
    BY <1>1, <2>1 DEF ClientCopiesAreMarked, MayBeWritten
<1> QED
  BY <1>4, <1>5, <1>6, <1>7, <1>9, <1>10, <1>11

LEMMA ReceiveAckPreserves ==
  ASSUME AdoptionInvariant, NEW t \in Txns, ReceiveAck(t)
  PROVE  AdoptionInvariant'
<1>1. /\ t \in acks /\ acks' = acks \ {t}
      /\ UNCHANGED <<node, client, announcements, adoptions, device, accepted, newest, configured>>
  BY DEF ReceiveAck
<1>2. CASE UNCHANGED <<rows, pendingAdoptions, copies>>
  <2>1. TypeOK'
    BY <1>1, <1>2 DEF AdoptionInvariant, TypeOK
  <2>2. /\ \A m \in Macs : device'[m].ip \in IpsOf[m]
        /\ \A p \in announcements' : p.ip \in IpsOf[p.mac]
        /\ \A e \in pendingAdoptions : e.txn \in acks' => e.node.mac \in accepted'
    BY <1>1 DEF AdoptionInvariant, AddressesStayOwn, AnswersAreOwn
  <2>3. UNCHANGED <<server, newest, configured, copies, accepted, adoptions>>
    BY <1>1, <1>2 DEF server
  <2> QED
    BY <2>1, <2>2, <2>3, OutsidePreserves
<1>3. ASSUME NEW e \in pendingAdoptions, e.txn = t, WriteBack(e)
      PROVE  AdoptionInvariant'
  BY <1>1, <1>3, WriteBackPreserves
<1> QED
  BY <1>2, <1>3 DEF ReceiveAck

\* A client stores a channel: every copy that was loaded with a channel of this
\* node is marked as outdated at the same moment.
LEMMA StoreChannelPreserves ==
  ASSUME AdoptionInvariant, NEW m \in Macs, NEW c \in ConfigsOf[m], StoreChannel(m, c)
  PROVE  AdoptionInvariant'
<1> USE DEF AdoptionInvariant
<1>1. /\ rows' = [rows EXCEPT ![m].channel = c]
      /\ configured' = [configured EXCEPT ![m] = c]
      /\ outdated' = outdated \cup CopiesWithChannel(m)
      /\ reverted' = reverted \ {m}
      /\ UNCHANGED <<pendingAdoptions, node, client, announcements, adoptions, acks, device,
                     accepted, newest, superseded, rewound>>
  BY DEF StoreChannel, network
<1>2. c \in Channels
  BY DEF Channels
<1>3. /\ \A n \in Macs : rows'[n].ip = rows[n].ip /\ rows'[n].adopted = rows[n].adopted
      /\ \A n \in Macs : rows'[n].channel = IF n = m THEN c ELSE rows[n].channel
      /\ \A n \in Macs : configured'[n] = IF n = m THEN c ELSE configured[n]
  BY <1>1 DEF TypeOK
<1>4. TypeOK'
  BY <1>1, <1>2 DEF TypeOK
<1>5. AddressIsNewest' /\ CopiesHaveNewest' /\ TxnsAreUnique'
  BY <1>1, <1>3 DEF AddressIsNewest, CopiesHaveNewest, TxnsAreUnique
<1>6. ClientChangeStays'
  BY <1>1, <1>3 DEF ClientChangeStays
<1>7. CopiesHaveChannel'
  <2>1. ASSUME NEW e \in pendingAdoptions, e.txn \notin outdated'
        PROVE  MayBeWritten(e.node.mac, e.node.channel)'
    <3>1. MayBeWritten(e.node.mac, e.node.channel) /\ e.node.mac \in Macs
      BY <1>1, <2>1 DEF CopiesHaveChannel, TypeOK, Adoption, NodeCopy
    <3>2. e.node.mac = m => e.node.channel = NoChannel
      BY <1>1, <2>1 DEF CopiesWithChannel, PendingOf
    <3> QED
      BY <1>1, <1>3, <3>1, <3>2 DEF MayBeWritten
  <2>2. ASSUME node # NoNode, NoNode \notin outdated'
        PROVE  MayBeWritten(node.mac, node.channel)'
    <3>1. MayBeWritten(node.mac, node.channel) /\ node.mac \in Macs
      BY <1>1, <2>2 DEF CopiesHaveChannel, TypeOK, NodeCopy
    <3>2. node.mac = m => node.channel = NoChannel
      BY <1>1, <2>2 DEF CopiesWithChannel
    <3> QED
      BY <1>1, <1>3, <3>1, <3>2 DEF MayBeWritten
  <2> QED
    BY <1>1, <2>1, <2>2 DEF CopiesHaveChannel
<1>8. AddressesStayOwn' /\ AnswersAreOwn' /\ AdoptedNodeAccepted'
  BY <1>1, <1>3 DEF AddressesStayOwn, AnswersAreOwn, AdoptedNodeAccepted
<1>9. ClientCopiesAreMarked'
  <2> SUFFICES ASSUME NEW k \in Clients, client[k] # NoNode
               PROVE  /\ k \notin superseded => client[k].ip = newest[client[k].mac]
                      /\ k \notin outdated' => MayBeWritten(client[k].mac, client[k].channel)'
                      /\ client[k].adopted => client[k].mac \in accepted
    BY <1>1 DEF ClientCopiesAreMarked, MayBeWritten
  <2>1. client[k] \in ClientCopy
    BY DEF TypeOK
  <2>2. client[k].mac \in Macs
    BY <2>1 DEF ClientCopy
  <2>3. k \notin outdated' => (client[k].mac = m => client[k].channel = NoChannel)
    BY <1>1 DEF CopiesWithChannel, ClientsOf
  <2> QED
    BY <1>1, <1>3, <2>2, <2>3 DEF ClientCopiesAreMarked, MayBeWritten
<1> QED
  BY <1>4, <1>5, <1>6, <1>7, <1>8, <1>9

\* A client loads a node: its copy is the newest unless the row is rewound, and
\* its channel may be written while nobody changes it.
LEMMA LoadNodePreserves ==
  ASSUME AdoptionInvariant, NEW c \in Clients, NEW m \in Macs, LoadNodeForClient(c, m)
  PROVE  AdoptionInvariant'
<1> USE DEF AdoptionInvariant
<1> DEFINE copy == [mac |-> m, ip |-> rows[m].ip, adopted |-> rows[m].adopted,
                    channel |-> rows[m].channel]
<1>1. /\ client' = [client EXCEPT ![c] = copy]
      /\ superseded' = IF m \in rewound THEN superseded \cup {c} ELSE superseded
      /\ rows[m].ip # NoIp
      /\ UNCHANGED <<rows, pendingAdoptions, node, announcements, adoptions, acks, device,
                     accepted, newest, configured, outdated, rewound, reverted>>
  BY DEF LoadNodeForClient, network
<1>2. copy \in ClientCopy
  BY <1>1 DEF TypeOK, ClientCopy
<1>3. copy.mac = m /\ copy.ip = rows[m].ip /\ copy.adopted = rows[m].adopted
        /\ copy.channel = rows[m].channel
  OBVIOUS
<1> HIDE DEF copy
<1>4. TypeOK'
  BY <1>1, <1>2 DEF TypeOK
<1>5. ClientCopiesAreMarked'
  <2>1. \A k \in Clients : client'[k] = IF k = c THEN copy ELSE client[k]
    BY <1>1 DEF TypeOK
  <2>2. /\ m \notin rewound => copy.ip = newest[m]
        /\ MayBeWritten(m, copy.channel)
        /\ copy.adopted => m \in accepted
    BY <1>3 DEF AddressIsNewest, ClientChangeStays, AdoptedNodeAccepted, MayBeWritten
  <2> QED
    BY <1>1, <1>3, <2>1, <2>2 DEF ClientCopiesAreMarked, MayBeWritten
<1>6. /\ TxnsAreUnique' /\ AddressIsNewest' /\ CopiesHaveNewest'
      /\ ClientChangeStays' /\ CopiesHaveChannel'
  BY <1>1 DEF TxnsAreUnique, AddressIsNewest, CopiesHaveNewest, ClientChangeStays,
              CopiesHaveChannel, MayBeWritten
<1>7. AddressesStayOwn' /\ AnswersAreOwn' /\ AdoptedNodeAccepted'
  BY <1>1 DEF AddressesStayOwn, AnswersAreOwn, AdoptedNodeAccepted
<1> QED
  BY <1>4, <1>5, <1>6, <1>7

\* A client writes its copy back, address, mark and channel: as WriteBack does,
\* but with the mark it has loaded.
LEMMA SaveNodePreserves ==
  ASSUME AdoptionInvariant, NEW c \in Clients, SaveNodeOfClient(c)
  PROVE  AdoptionInvariant'
<1> USE DEF AdoptionInvariant
<1> DEFINE n == client[c]
<1>1. /\ n # NoNode
      /\ rows' = UpdateNode(rows, n, n.adopted)
      /\ superseded' = superseded \ {c}
      /\ outdated' = outdated \ {c}
      /\ rewound' = IF c \in superseded THEN rewound \cup {n.mac} ELSE rewound \ {n.mac}
      /\ reverted' = IF c \in outdated THEN reverted \cup {n.mac} ELSE reverted
      /\ client' = [client EXCEPT ![c] = NoNode]
      /\ UNCHANGED <<pendingAdoptions, node, announcements, adoptions, acks, device, accepted,
                     newest, configured>>
  BY DEF SaveNodeOfClient, CopyWritten, network
<1>2. n \in ClientCopy
  BY <1>1 DEF TypeOK
<1>3. n.mac \in Macs /\ n.ip \in Ips /\ n.channel \in Channels /\ n.adopted \in BOOLEAN
  BY <1>2 DEF ClientCopy
<1>4. /\ c \notin superseded => n.ip = newest[n.mac]
      /\ c \notin outdated => MayBeWritten(n.mac, n.channel)
      /\ n.adopted => n.mac \in accepted
  BY <1>1 DEF ClientCopiesAreMarked
<1>5. /\ rows' \in [Macs -> [ip : Ips \cup {NoIp}, adopted : BOOLEAN, channel : Channels]]
      /\ rows'[n.mac].ip = n.ip /\ rows'[n.mac].adopted = n.adopted
      /\ \A m \in Macs \ {n.mac} : rows'[m] = rows[m]
  BY <1>1, <1>3, UpdateNodeFacts
<1>6. TypeOK'
  BY <1>1, <1>5 DEF TypeOK
<1>7. ClientChangeStays'
  <2>1. MayBeWritten(n.mac, n.channel) \/ n.mac \in reverted'
    BY <1>1, <1>4
  <2>2. reverted \subseteq reverted'
    BY <1>1
  <2> HIDE DEF n
  <2> QED
    BY <1>1, <1>3, <2>1, <2>2, UpdateKeepsChannel
<1> HIDE DEF n
<1>8. AddressIsNewest' /\ AdoptedNodeAccepted'
  BY <1>1, <1>4, <1>5 DEF AddressIsNewest, AdoptedNodeAccepted
<1>9. \A e \in pendingAdoptions : e.txn # c
  BY CopiesAreApart DEF TypeOK, Adoption
<1>10. /\ TxnsAreUnique' /\ CopiesHaveNewest' /\ CopiesHaveChannel'
       /\ AddressesStayOwn' /\ AnswersAreOwn'
  <2>1. NoNode # c
    BY CopiesAreApart
  <2> QED
    BY <1>1, <1>9, <2>1 DEF TxnsAreUnique, CopiesHaveNewest, CopiesHaveChannel, MayBeWritten,
                            AddressesStayOwn, AnswersAreOwn
<1>11. ClientCopiesAreMarked'
  <2>1. \A k \in Clients : client'[k] = IF k = c THEN NoNode ELSE client[k]
    BY <1>1 DEF TypeOK
  <2> QED
    BY <1>1, <2>1 DEF ClientCopiesAreMarked, MayBeWritten
<1> QED
  BY <1>6, <1>7, <1>8, <1>10, <1>11

LEMMA AdoptionStep == AdoptionInvariant /\ [Next]_vars => AdoptionInvariant'
<1> SUFFICES ASSUME AdoptionInvariant, [Next]_vars
             PROVE  AdoptionInvariant'
  OBVIOUS
<1>1. CASE \E m \in Macs : Announce(m)
  BY <1>1, AnnouncePreserves
<1>2. CASE \E m \in Macs, ip \in Ips : Restart(m, ip)
  BY <1>2, RestartPreserves
<1>3. CASE \E a \in adoptions, m \in Macs : ReceiveAdoption(a, m)
  BY <1>3, ReceiveAdoptionPreserves
<1>4. CASE LosePacket
  BY <1>4, LosePacketPreserves
<1>5. CASE \E p \in announcements : ReceiveAnnouncement(p)
  BY <1>5, ReceiveAnnouncementPreserves
<1>6. CASE StoreAndAdopt
  BY <1>6, StoreAndAdoptPreserves
<1>7. CASE \E t \in Txns : ReceiveAck(t)
  BY <1>7, ReceiveAckPreserves
<1>8. CASE \E m \in Macs : \E c \in ConfigsOf[m] : NewChannel(m, c) \/ UpdateChannel(m, c)
  BY <1>8, StoreChannelPreserves DEF NewChannel, UpdateChannel
<1>9. CASE \E c \in Clients, m \in Macs : LoadNodeForClient(c, m)
  BY <1>9, LoadNodePreserves
<1>10. CASE \E c \in Clients : SaveNodeOfClient(c)
  BY <1>10, SaveNodePreserves
<1>11. CASE UNCHANGED vars
  <2>1. UNCHANGED <<server, newest, configured, copies, accepted, adoptions, acks,
                    device, announcements>>
    BY <1>11 DEF vars, network, history
  <2>2. TypeOK'
    BY <2>1 DEF AdoptionInvariant, TypeOK, server
  <2>3. /\ \A m \in Macs : device'[m].ip \in IpsOf[m]
        /\ \A p \in announcements' : p.ip \in IpsOf[p.mac]
        /\ \A e \in pendingAdoptions : e.txn \in acks' => e.node.mac \in accepted'
    BY <2>1 DEF AdoptionInvariant, AddressesStayOwn, AnswersAreOwn
  <2> QED
    BY <2>1, <2>2, <2>3, OutsidePreserves
<1> QED
  BY <1>1, <1>2, <1>3, <1>4, <1>5, <1>6, <1>7, <1>8, <1>9, <1>10, <1>11 DEF Next

---------------------------------------------------------------------------
\* Whatever the network loses or reorders, however many adoptions wait and
\* however many clients send UpdateNode requests, a row has the address its node
\* announced last, unless the last write to it was that of a copy with an older
\* one: of an adoption a later announcement had superseded (handlePacket), or of
\* a clientRequestUpdateNode that had loaded the row too early or rewound.
THEOREM AddressStaysNewest == Spec => []AddressIsNewest
<1>1. AdoptionInvariant => AddressIsNewest
  BY DEF AdoptionInvariant
<1> QED
  BY <1>1, AdoptionInit, AdoptionStep, PTL DEF Spec

\* What a client stored for a channel stays through any announcements and
\* acknowledgements, unless a copy loaded before the change is written back after
\* it (DataStore::update(DbNode *)).
THEOREM ChannelStaysConfigured == Spec => []ClientChangeStays
<1>1. AdoptionInvariant => ClientChangeStays
  BY DEF AdoptionInvariant
<1> QED
  BY <1>1, AdoptionInit, AdoptionStep, PTL DEF Spec

\* Only a node that has accepted an adoption is marked as adopted, though acks
\* come late, twice or for adoptions that were superseded: as long as no two
\* nodes share an address, the transaction number is enough for handlePacket to
\* find the node that answered.
THEOREM OnlyAcceptedNodesAreAdopted == Spec => []AdoptedNodeAccepted
<1>1. AdoptionInvariant => AdoptedNodeAccepted
  BY DEF AdoptionInvariant
<1> QED
  BY <1>1, AdoptionInit, AdoptionStep, PTL DEF Spec

---------------------------------------------------------------------------
(***************************************************************************)
(* PacketCodec.                                                            *)
(***************************************************************************)

\* The parts of a packet.
PacketParts == {"opcode", "flags", "txn", "payload", "length", "magic", "net", "checksum"}

\* The fields of the packet m that are in network byte order on the wire, and
\* the data its checksum is computed over.
NetOrder(m) == HeaderFields \cup (IF m.payload = "struct" THEN Multibyte[m.opcode] ELSE {})

DataOf(m) ==
  {<<m.opcode, m.flags, m.txn, m.payload, m.length,
     NetOrder(m) \ {"magic", "version", "checksum"}>>}

\* Whatever is on its way has a header in network byte order, and nothing is
\* acted on before it has arrived.
PacketIsWhole ==
  packet # NoPacket =>
    /\ packet = [x \in PacketParts |-> packet[x]]
    /\ packet.opcode \in Opcodes
    /\ HeaderFields \subseteq packet.net
    /\ handled = NoPacket

\* A datagram of some other program is never taken for a packet.
StrayHasNoMagic == packet # NoPacket /\ meant = NoPacket => to # "node" /\ ~packet.magic

\* The datagram on its way is what its sender meant, up to the damage, and its
\* checksum is the one the sender computed.
PacketIsMeant ==
  packet # NoPacket /\ meant # NoPacket =>
    /\ packet.opcode = meant.opcode
    /\ packet.length = meant.length
    /\ packet.net = NetOrder(meant)
    /\ meant.payload = "none" => packet.payload = "none"
    /\ "flag" \notin damage => packet.flags = meant.flags
    /\ "checksummed" \in meant.flags => packet.checksum = DataOf(meant)
    /\ damage = {} => packet.txn = meant.txn /\ packet.payload = meant.payload /\ packet.magic

\* What the senders send, by where it goes.
SendersMean ==
  meant # NoPacket =>
    \/ to = "node" /\ \E opcode \in {"nodeAdoption", "framebufferData"}, txn \in TxnNumbers :
                        meant = PopulateHeader(opcode, txn)
    \/ to = "multicast" /\ meant.opcode = "nodeAnnouncement"
                        /\ meant.payload = "struct" /\ meant.length = WholeStruct
    \/ to = "server" /\ \/ meant.payload = "none"
                        \/ meant.payload = "text" /\ "nack" \in meant.flags
                        \/ meant.payload = "struct" /\ meant.opcode = "nodeStatusReq"

\* The inductive invariant: validatePacket is a test of the packet alone, so
\* what it shows about the sender needs the relation between the datagram,
\* what was meant and the damage.
CodecInvariant ==
  /\ ~aborted
  /\ PacketIsWhole /\ StrayHasNoMagic /\ PacketIsMeant /\ SendersMean
  /\ HandledAsMeant /\ SwapStaysInPacket

---------------------------------------------------------------------------
LEMMA OpcodesAre ==
  Opcodes = {"nodeAnnouncement", "serverAnnouncement", "nodeAdoption", "nodeStatusReq",
             "framebufferData", "syncOutput", "nodeReconfig", "other"}
BY DEF Opcodes, Multibyte

\* No field behind the header has the name of one in it, so that swapping the
\* one leaves the other alone.
LEMMA FieldsAreApart ==
  ASSUME NEW opcode \in Opcodes
  PROVE  Multibyte[opcode] \cap HeaderFields = {} /\ SwappedFields(opcode) \cap HeaderFields = {}
<1>1. Multibyte[opcode] \cap HeaderFields = {}
  <2>1. CASE opcode = "nodeAnnouncement"
    BY <2>1 DEF Multibyte, HeaderFields
  <2>2. CASE opcode = "serverAnnouncement"
    BY <2>2 DEF Multibyte, HeaderFields
  <2>3. CASE opcode = "nodeAdoption"
    BY <2>3 DEF Multibyte, HeaderFields
  <2>4. CASE opcode = "nodeStatusReq"
    BY <2>4 DEF Multibyte, HeaderFields
  <2>5. CASE opcode \in {"framebufferData", "syncOutput", "nodeReconfig", "other"}
    BY <2>5 DEF Multibyte, HeaderFields
  <2> QED
    BY <2>1, <2>2, <2>3, <2>4, <2>5, OpcodesAre
<1> QED
  BY <1>1 DEF SwappedFields

LEMMA SwappedIsMultibyte ==
  ASSUME NEW opcode, opcode \notin {"serverAnnouncement", "nodeReconfig"}
  PROVE  SwappedFields(opcode) = Multibyte[opcode]
BY DEF SwappedFields

LEMMA HeaderHas ==
  /\ {"opcode", "flags", "checksum", "magic"} \subseteq HeaderFields
  /\ "numChannels" \notin HeaderFields
BY DEF HeaderFields

\* What swapping the fields of a whole packet leaves alone.
LEMMA SwapLeaves ==
  ASSUME NEW p, p = [x \in PacketParts |-> p[x]], NEW fields
  PROVE  LET q == Swap(p, fields) IN
         /\ q = [x \in PacketParts |-> q[x]]
         /\ q.net = (p.net \ fields) \cup (fields \ p.net)
         /\ \A x \in PacketParts \ {"net"} : q[x] = p[x]
BY DEF Swap, PacketParts

\* convertPacketByteOrder brings the header of a packet off the wire into the
\* order of the host, and leaves everything but the byte order alone.
LEMMA HeaderIsConverted ==
  ASSUME NEW p, p = [x \in PacketParts |-> p[x]],
         p.opcode \in Opcodes, HeaderFields \subseteq p.net
  PROVE  LET q == ConvertPacketByteOrder(p, TRUE).packet IN
         /\ q.net \cap HeaderFields = {}
         /\ OpcodeOf(q) = p.opcode
         /\ q.txn = p.txn /\ q.payload = p.payload
<1> DEFINE header == Swap(p, HeaderFields)
           swapped == Swap(header, SwappedFields(p.opcode))
           converted == ConvertPacketByteOrder(p, TRUE)
<1>1. /\ header = [x \in PacketParts |-> header[x]]
      /\ header.net = p.net \ HeaderFields
      /\ \A x \in PacketParts \ {"net"} : header[x] = p[x]
  <2> HIDE DEF header
  <2>1. header.net = (p.net \ HeaderFields) \cup (HeaderFields \ p.net)
    BY SwapLeaves DEF header
  <2> QED
    BY <2>1, SwapLeaves DEF header
<1>2. OpcodeOf(header) = p.opcode
  BY <1>1, HeaderHas DEF OpcodeOf, PacketParts
<1>3. /\ swapped = [x \in PacketParts |-> swapped[x]]
      /\ swapped.net \cap HeaderFields = {}
      /\ \A x \in PacketParts \ {"net"} : swapped[x] = p[x]
  <2> HIDE DEF header
  <2>1. swapped.net = (header.net \ SwappedFields(p.opcode)) \cup (SwappedFields(p.opcode) \ header.net)
    BY <1>1, SwapLeaves
  <2>2. swapped.net \cap HeaderFields = {}
    <3> HIDE DEF swapped
    <3> QED
      BY <1>1, <2>1, FieldsAreApart
  <2> QED
    BY <1>1, <2>2, SwapLeaves
<1>4. converted.packet \in {header, swapped}
  <2> HIDE DEF header
  <2> QED
    BY <1>2 DEF ConvertPacketByteOrder, header
<1> HIDE DEF header, swapped, converted
<1>5. ASSUME NEW q \in {header, swapped}
      PROVE  /\ q.net \cap HeaderFields = {}
             /\ OpcodeOf(q) = p.opcode
             /\ q.txn = p.txn /\ q.payload = p.payload
  <2>1. q.net \cap HeaderFields = {} /\ \A x \in PacketParts \ {"net"} : q[x] = p[x]
    BY <1>1, <1>3
  <2> QED
    BY <2>1, HeaderHas DEF OpcodeOf, PacketParts
<1> QED
  BY <1>4, <1>5 DEF converted

\* The loop over the channels leaves a packet off the wire only if the packet
\* is an adoption and what it has for a payload is a text, or lacks the number
\* of channels in network byte order.
LEMMA OverrunOffTheWire ==
  ASSUME NEW p, p = [x \in PacketParts |-> p[x]],
         p.opcode \in Opcodes, HeaderFields \subseteq p.net,
         ConvertPacketByteOrder(p, TRUE).overrun
  PROVE  p.opcode = "nodeAdoption" /\ p.payload # "none"
<1> DEFINE header == Swap(p, HeaderFields)
<1>1. /\ header.net = (p.net \ HeaderFields) \cup (HeaderFields \ p.net)
      /\ \A x \in PacketParts \ {"net"} : header[x] = p[x]
  BY SwapLeaves
<1>2. OpcodeOf(header) = p.opcode
  <2> HIDE DEF header
  <2> QED
    BY <1>1, HeaderHas DEF OpcodeOf, PacketParts
<1> QED
  BY <1>2 DEF ConvertPacketByteOrder

\* handleMulticastPacket: an announcement is read in the order of the host.
LEMMA AnnouncementIsConverted ==
  ASSUME NEW p, p = [x \in PacketParts |-> p[x]],
         p.opcode = "nodeAnnouncement", p.payload = "struct", p.length = WholeStruct,
         p.net = HeaderFields \cup Multibyte["nodeAnnouncement"]
  PROVE  ConvertPacketByteOrder(p, TRUE).packet.net = {}
<1> DEFINE header == Swap(p, HeaderFields)
           swapped == Swap(header, Multibyte["nodeAnnouncement"])
<1>0. Multibyte["nodeAnnouncement"] \cap HeaderFields = {}
  BY OpcodesAre, FieldsAreApart
<1>1. /\ header = [x \in PacketParts |-> header[x]]
      /\ header.net = (p.net \ HeaderFields) \cup (HeaderFields \ p.net)
      /\ \A x \in PacketParts \ {"net"} : header[x] = p[x]
  BY SwapLeaves
<1>2. header.net = Multibyte["nodeAnnouncement"]
  <2> HIDE DEF header
  <2> QED
    BY <1>0, <1>1
<1>3. OpcodeOf(header) = "nodeAnnouncement"
  <2> HIDE DEF header
  <2> QED
    BY <1>1 DEF OpcodeOf, PacketParts
<1>4. swapped.net = {}
  <2>1. swapped.net = (header.net \ Multibyte["nodeAnnouncement"])
                         \cup (Multibyte["nodeAnnouncement"] \ header.net)
    <3> HIDE DEF header
    <3> QED
      BY <1>1, SwapLeaves
  <2> HIDE DEF header, swapped
  <2> QED
    BY <1>2, <2>1
<1>5. SwappedFields("nodeAnnouncement") = Multibyte["nodeAnnouncement"]
  BY SwappedIsMultibyte
<1>6. ConvertPacketByteOrder(p, TRUE).packet = swapped
  <2> HIDE DEF header
  <2> QED
    BY <1>3, <1>5 DEF ConvertPacketByteOrder, header, WholeStruct
<1> QED
  BY <1>4, <1>6

\* adoptNode and sendDataToNode: what they fill in is put on the wire whole,
\* and the loop over the channels counts them before they are swapped.
LEMMA ServerEncodes ==
  ASSUME NEW opcode \in {"nodeAdoption", "framebufferData"}, NEW txn \in TxnNumbers
  PROVE  LET p == PopulateHeader(opcode, txn)
             e == Encode(p)
         IN /\ e.err = 0 /\ e.overrun = FALSE
            /\ e.packet = [x \in PacketParts |-> e.packet[x]]
            /\ e.packet.net = NetOrder(p)
            /\ e.packet.checksum = DataOf(p)
            /\ \A x \in PacketParts \ {"net", "checksum"} : e.packet[x] = p[x]
<1> DEFINE p == PopulateHeader(opcode, txn)
           e == Encode(p)
           header == Swap(p, HeaderFields)
           swapped == Swap(header, Multibyte[opcode])
           converted == ConvertPacketByteOrder(p, FALSE)
<1>0. Multibyte[opcode] \cap HeaderFields = {}
  BY OpcodesAre, FieldsAreApart
<1>1. /\ p = [x \in PacketParts |-> p[x]]
      /\ p.net = {} /\ p.opcode = opcode /\ p.payload = "struct" /\ p.length = WholeStruct
  BY DEF PopulateHeader, PacketParts
<1> HIDE DEF p
<1>2. /\ header = [x \in PacketParts |-> header[x]]
      /\ header.net = (p.net \ HeaderFields) \cup (HeaderFields \ p.net)
      /\ \A x \in PacketParts \ {"net"} : header[x] = p[x]
  BY <1>1, SwapLeaves
<1> HIDE DEF header
<1>3. /\ swapped = [x \in PacketParts |-> swapped[x]]
      /\ swapped.net = (header.net \ Multibyte[opcode]) \cup (Multibyte[opcode] \ header.net)
      /\ \A x \in PacketParts \ {"net"} : swapped[x] = header[x]
  BY <1>2, SwapLeaves
<1> HIDE DEF swapped
<1>4. swapped.net = HeaderFields \cup Multibyte[opcode]
  BY <1>0, <1>1, <1>2, <1>3
<1>5. OpcodeOf(p) = opcode
  BY <1>1 DEF OpcodeOf
<1>6. SwappedFields(opcode) = Multibyte[opcode]
  BY SwappedIsMultibyte
<1>7. converted = [packet |-> swapped, err |-> 0, overrun |-> FALSE]
  <2> DEFINE counts == opcode = "nodeAdoption" /\ (p.payload = "text" \/ "numChannels" \in p.net)
  <2>1. counts = FALSE
    BY <1>1
  <2>2. ~(p.length < WholeStruct)
    BY <1>1 DEF WholeStruct
  <2>3. converted = [packet |-> swapped, err |-> 0, overrun |-> counts]
    BY <1>1, <1>5, <1>6, <2>2, Zenon DEF ConvertPacketByteOrder, header, swapped
  <2> HIDE DEF converted, counts
  <2> QED
    BY <2>1, <2>3
<1>8. e = [packet |-> ApplyChecksum(swapped), err |-> 0, overrun |-> FALSE]
  <2> HIDE DEF converted
  <2>1. e = [converted EXCEPT !.packet = ApplyChecksum(converted.packet)]
    BY DEF Encode, converted
  <2> HIDE DEF e
  <2> QED
    BY <1>7, <2>1
<1> DEFINE q == ApplyChecksum(swapped)
<1>9. /\ q = [x \in PacketParts |-> q[x]]
      /\ q.net = swapped.net \cup {"checksum"}
      /\ q.checksum = ChecksummedData(swapped)
      /\ \A x \in PacketParts \ {"net", "checksum"} : q[x] = swapped[x]
  BY <1>3 DEF ApplyChecksum, PacketParts
<1> HIDE DEF q
<1>10. q.net = NetOrder(p)
  BY <1>1, <1>4, <1>9, HeaderHas DEF NetOrder
<1>11. q.checksum = DataOf(p)
  <2>1. swapped.net = NetOrder(p)
    BY <1>1, <1>4 DEF NetOrder
  <2>2. \A x \in PacketParts \ {"net"} : swapped[x] = p[x]
    BY <1>2, <1>3
  <2>3. ChecksummedData(swapped) = DataOf(p)
    BY <2>1, <2>2 DEF ChecksummedData, DataOf, PacketParts
  <2> QED
    BY <1>9, <2>3
<1>12. \A x \in PacketParts \ {"net", "checksum"} : q[x] = p[x]
  BY <1>2, <1>3, <1>9
<1>13. e.packet = q /\ e.err = 0 /\ e.overrun = FALSE
  BY <1>8 DEF q
<1> HIDE DEF e
<1> QED
  BY <1>9, <1>10, <1>11, <1>12, <1>13 DEF p, e

\* The packet p says what a node has put into it: it is in network byte order,
\* and has the checksum of what it says if it says so.
IsNodePacket(p, opcode, flags, payload, length) ==
  /\ p = [x \in PacketParts |-> p[x]]
  /\ p.opcode = opcode /\ p.flags = flags /\ p.payload = payload
  /\ p.length = length /\ p.magic = TRUE
  /\ p.net = NetOrder(p)
  /\ "checksummed" \in flags => p.checksum = DataOf(p)

LEMMA NodePackets ==
  ASSUME NEW opcode \in Opcodes, NEW flags, NEW txn, NEW payload, NEW length
  PROVE  IsNodePacket(NodePacket(opcode, flags, txn, payload, length),
                      opcode, flags, payload, length)
<1> DEFINE net == HeaderFields \cup (IF payload = "struct" THEN Multibyte[opcode] ELSE {})
           bare == [opcode |-> opcode, flags |-> flags, txn |-> txn, payload |-> payload,
                    length |-> length, magic |-> TRUE, checksum |-> {}, net |-> net]
           p == NodePacket(opcode, flags, txn, payload, length)
<1>1. net \cup {"checksum"} = net
  BY HeaderHas
<1>2. p = IF "checksummed" \in flags THEN ApplyChecksum(bare) ELSE bare
  BY DEF NodePacket
<1> HIDE DEF net, p
<1>3. CASE "checksummed" \in flags
  <2>1. p = [bare EXCEPT !.checksum = ChecksummedData(bare), !.net = net]
    BY <1>1, <1>2, <1>3 DEF ApplyChecksum
  <2>2. /\ p = [x \in PacketParts |-> p[x]]
        /\ p.opcode = opcode /\ p.flags = flags /\ p.payload = payload
        /\ p.length = length /\ p.magic = TRUE /\ p.net = net /\ p.txn = txn
        /\ p.checksum = ChecksummedData(bare)
    BY <2>1 DEF PacketParts
  <2>3. NetOrder(p) = net
    BY <2>2 DEF NetOrder, net
  <2>4. ChecksummedData(bare) = DataOf(p)
    BY <2>2, <2>3 DEF ChecksummedData, DataOf
  <2> QED
    BY <2>2, <2>3, <2>4 DEF IsNodePacket, p
<1>4. CASE "checksummed" \notin flags
  <2>1. /\ p = [x \in PacketParts |-> p[x]]
        /\ p.opcode = opcode /\ p.flags = flags /\ p.payload = payload
        /\ p.length = length /\ p.magic = TRUE /\ p.net = net
    BY <1>2, <1>4 DEF PacketParts
  <2>2. NetOrder(p) = net
    BY <2>1 DEF NetOrder, net
  <2> QED
    BY <1>4, <2>1, <2>2 DEF IsNodePacket, p
<1> QED
  BY <1>3, <1>4

\* validatePacket: a packet that passes is one of ours, and unless the damage
\* cannot be noticed it says what its sender meant.
LEMMA ValidIsMeant ==
  ASSUME CodecInvariant, packet # NoPacket, ValidatePacket(packet) = "kNoError"
  PROVE  /\ meant # NoPacket
         /\ ~Unnoticed => packet.txn = meant.txn /\ packet.payload = meant.payload
<1>1. {"flags", "checksum"} \subseteq packet.net
  BY HeaderHas DEF CodecInvariant, PacketIsWhole
<1>2. /\ packet.magic
      /\ "checksummed" \in packet.flags => packet.checksum = ChecksummedData(packet)
  BY <1>1 DEF ValidatePacket
<1>3. meant # NoPacket
  BY <1>2 DEF CodecInvariant, StrayHasNoMagic
<1>4. PacketIsMeant
  BY DEF CodecInvariant
<1>5. ASSUME ~Unnoticed
      PROVE  packet.txn = meant.txn /\ packet.payload = meant.payload
  <2>1. CASE damage = {}
    BY <1>3, <1>4, <2>1 DEF PacketIsMeant
  <2>2. CASE damage # {}
    <3>1. "checksummed" \in meant.flags /\ "flag" \notin damage
      BY <1>5, <2>2 DEF Unnoticed
    <3>2. ChecksummedData(packet) = DataOf(meant)
      BY <1>2, <1>3, <1>4, <3>1 DEF PacketIsMeant
    <3>3. <<packet.opcode, packet.flags, packet.txn, packet.payload, packet.length,
            packet.net \ {"magic", "version", "checksum"}>>
          = <<meant.opcode, meant.flags, meant.txn, meant.payload, meant.length,
              NetOrder(meant) \ {"magic", "version", "checksum"}>>
      BY <3>2, Zenon DEF ChecksummedData, DataOf
    <3> QED
      BY <3>3
  <2> QED
    BY <2>1, <2>2
<1> QED
  BY <1>3, <1>5

---------------------------------------------------------------------------
LEMMA CodecInitially == CodecInit => CodecInvariant
BY DEF CodecInit, CodecInvariant, PacketIsWhole, StrayHasNoMagic, PacketIsMeant, SendersMean,
       HandledAsMeant, SwapStaysInPacket

LEMMA ServerSendsPreserves ==
  ASSUME CodecInvariant,
         NEW opcode \in {"nodeAdoption", "framebufferData"}, NEW txn \in TxnNumbers,
         ServerSends(opcode, txn)
  PROVE  CodecInvariant' /\ ~aborted'
<1> DEFINE p == PopulateHeader(opcode, txn)
           e == Encode(p)
<1>1. /\ e.err = 0 /\ e.overrun = FALSE
      /\ e.packet = [x \in PacketParts |-> e.packet[x]]
      /\ e.packet.net = NetOrder(p)
      /\ e.packet.checksum = DataOf(p)
      /\ \A x \in PacketParts \ {"net", "checksum"} : e.packet[x] = p[x]
  BY ServerEncodes
<1>2. /\ packet' = e.packet /\ to' = "node" /\ handled' = NoPacket
      /\ meant' = p /\ damage' = {} /\ ~aborted' /\ ~overrun'
  BY <1>1 DEF ServerSends, Put, CodecInvariant
<1>3. p # NoPacket /\ p.opcode = opcode /\ opcode \in Opcodes /\ p.magic = TRUE
  BY OpcodesAre, NoPacketIsNone DEF PopulateHeader
<1>4. SendersMean'
  BY <1>2 DEF SendersMean
<1> HIDE DEF p, e
<1>5. PacketIsWhole'
  BY <1>1, <1>2, <1>3 DEF PacketIsWhole, NetOrder, PacketParts
<1>6. PacketIsMeant'
  BY <1>1, <1>2, <1>3 DEF PacketIsMeant, PacketParts
<1>7. StrayHasNoMagic' /\ HandledAsMeant' /\ SwapStaysInPacket'
  BY <1>2, <1>3 DEF StrayHasNoMagic, HandledAsMeant, SwapStaysInPacket
<1> QED
  BY <1>2, <1>4, <1>5, <1>6, <1>7 DEF CodecInvariant

\* Each packet of a node, by where it goes and what it holds.
LEMMA NodeSendsPreserves ==
  ASSUME CodecInvariant, ~overrun,
         NEW opcode \in Opcodes, NEW flags, NEW txn, NEW payload, NEW length, NEW destination,
         NodeSends(NodePacket(opcode, flags, txn, payload, length), destination),
         \/ destination = "multicast" /\ opcode = "nodeAnnouncement"
              /\ payload = "struct" /\ length = WholeStruct
         \/ destination = "server" /\ \/ payload = "none"
                                      \/ payload = "text" /\ "nack" \in flags
                                      \/ payload = "struct" /\ opcode = "nodeStatusReq"
  PROVE  CodecInvariant'
<1> DEFINE p == NodePacket(opcode, flags, txn, payload, length)
<1>1. IsNodePacket(p, opcode, flags, payload, length)
  BY NodePackets, Zenon
<1>2. /\ packet' = p /\ to' = destination /\ handled' = NoPacket
      /\ meant' = p /\ damage' = {} /\ ~aborted' /\ ~overrun'
  BY DEF NodeSends, Put, CodecInvariant
<1> HIDE DEF p
<1>3. SendersMean'
  BY <1>1, <1>2 DEF IsNodePacket, SendersMean
<1>4. PacketIsWhole'
  BY <1>1, <1>2 DEF IsNodePacket, PacketIsWhole, NetOrder
<1>5. PacketIsMeant'
  BY <1>1, <1>2 DEF IsNodePacket, PacketIsMeant
<1>6. StrayHasNoMagic' /\ HandledAsMeant' /\ SwapStaysInPacket'
  BY <1>2 DEF StrayHasNoMagic, HandledAsMeant, SwapStaysInPacket
<1> QED
  BY <1>2, <1>3, <1>4, <1>5, <1>6 DEF CodecInvariant

LEMMA StrayPreserves ==
  ASSUME CodecInvariant, ~overrun,
         NEW opcode \in Opcodes, NEW flags, NEW length,
         NEW destination \in {"server", "multicast"},
         StrayArrives(opcode, flags, length, destination)
  PROVE  CodecInvariant'
<1> DEFINE p == NodePacket(opcode, flags, CHOOSE t \in TxnNumbers : TRUE, "text", length)
           q == [p EXCEPT !.magic = FALSE, !.checksum = {}]
<1>0. IsNodePacket(p, opcode, flags, "text", length)
  BY NodePackets, Zenon
<1>1. /\ p = [x \in PacketParts |-> p[x]]
      /\ p.opcode = opcode /\ p.net = NetOrder(p)
  <2> HIDE DEF p
  <2> QED
    BY <1>0 DEF IsNodePacket
<1>2. /\ packet' = q /\ to' = destination /\ handled' = NoPacket
      /\ meant' = NoPacket /\ ~aborted' /\ ~overrun'
  BY DEF StrayArrives, Put, CodecInvariant
<1> HIDE DEF p
<1>3. /\ q = [x \in PacketParts |-> q[x]]
      /\ q.opcode = opcode /\ q.net = NetOrder(p) /\ q.magic = FALSE
  BY <1>1 DEF PacketParts
<1> HIDE DEF q
<1>4. PacketIsWhole'
  BY <1>2, <1>3 DEF PacketIsWhole, NetOrder
<1>5. StrayHasNoMagic' /\ PacketIsMeant' /\ SendersMean'
  BY <1>2, <1>3 DEF StrayHasNoMagic, PacketIsMeant, SendersMean
<1>6. HandledAsMeant' /\ SwapStaysInPacket'
  BY <1>2 DEF HandledAsMeant, SwapStaysInPacket
<1> QED
  BY <1>2, <1>4, <1>5, <1>6 DEF CodecInvariant

LEMMA DamagePreserves ==
  ASSUME CodecInvariant, ~overrun,
         NEW what \in {"magic", "flag", "payload", "txn"}, Damage(what)
  PROVE  CodecInvariant'
<1>1. /\ packet # NoPacket /\ meant # NoPacket
      /\ damage' = damage \cup {what} /\ damage' # {}
      /\ UNCHANGED <<to, handled, aborted, overrun, meant, trusted>>
  BY DEF Damage
<1>2. /\ packet = [x \in PacketParts |-> packet[x]]
      /\ packet.opcode \in Opcodes /\ HeaderFields \subseteq packet.net /\ handled = NoPacket
  BY <1>1 DEF CodecInvariant, PacketIsWhole
<1>3. /\ packet' = [x \in PacketParts |-> packet'[x]]
      /\ packet'.opcode = packet.opcode /\ packet'.length = packet.length
      /\ packet'.net = packet.net /\ packet'.checksum = packet.checksum
      /\ packet.payload = "none" => packet'.payload = "none"
      /\ what # "flag" => packet'.flags = packet.flags
  <2>1. CASE what = "magic"
    BY <1>2, <2>1 DEF Damage, PacketParts
  <2>2. CASE what = "flag"
    BY <1>2, <2>2 DEF Damage, PacketParts
  <2>3. CASE what = "payload"
    BY <1>2, <2>3 DEF Damage, PacketParts
  <2>4. CASE what = "txn"
    <3>1. PICK txn : packet' = [packet EXCEPT !.txn = txn]
      BY <2>4 DEF Damage
    <3> QED
      BY <1>2, <3>1 DEF PacketParts
  <2> QED
    BY <2>1, <2>2, <2>3, <2>4
<1>4. PacketIsWhole'
  BY <1>1, <1>2, <1>3 DEF PacketIsWhole
<1>5. PacketIsMeant'
  BY <1>1, <1>3 DEF PacketIsMeant, CodecInvariant
<1>6. StrayHasNoMagic' /\ SendersMean'
  BY <1>1 DEF StrayHasNoMagic, SendersMean, CodecInvariant
<1>7. HandledAsMeant' /\ SwapStaysInPacket'
  BY <1>1, <1>2 DEF HandledAsMeant, SwapStaysInPacket
<1> QED
  BY <1>1, <1>4, <1>5, <1>6, <1>7 DEF CodecInvariant

\* What is left of the invariant when the datagram is gone.
LEMMA GonePreserves ==
  ASSUME CodecInvariant, packet' = NoPacket, ~aborted', to' = to, meant' = meant,
         HandledAsMeant', SwapStaysInPacket'
  PROVE  CodecInvariant'
BY DEF CodecInvariant, PacketIsWhole, StrayHasNoMagic, PacketIsMeant, SendersMean

LEMMA LosePreserves ==
  ASSUME CodecInvariant, ~overrun, Lose
  PROVE  CodecInvariant'
<1>1. /\ packet' = NoPacket
      /\ UNCHANGED <<to, handled, aborted, overrun, meant, damage, trusted>>
  BY DEF Lose
<1>2. ~aborted' /\ HandledAsMeant' /\ SwapStaysInPacket'
  BY <1>1 DEF HandledAsMeant, SwapStaysInPacket, Unnoticed, CodecInvariant
<1> QED
  BY <1>1, <1>2, GonePreserves

LEMMA NodeReceivesPreserves ==
  ASSUME CodecInvariant, ~overrun, NodeReceives
  PROVE  CodecInvariant'
<1>1. /\ packet # NoPacket /\ to = "node" /\ packet' = NoPacket
      /\ UNCHANGED <<to, aborted, overrun, meant, damage, trusted>>
  BY DEF NodeReceives
<1>2. CASE ValidatePacket(packet) # "kNoError"
  <2>1. handled' = NoPacket
    BY <1>2 DEF NodeReceives
  <2>2. ~aborted' /\ HandledAsMeant' /\ SwapStaysInPacket'
    BY <1>1, <2>1 DEF HandledAsMeant, SwapStaysInPacket, CodecInvariant
  <2> QED
    BY <1>1, <2>2, GonePreserves
<1>3. CASE ValidatePacket(packet) = "kNoError"
  <2>1. /\ handled'.opcode = packet.opcode /\ handled'.txn = packet.txn
        /\ handled'.payload = packet.payload
        /\ handled'.wrongOrder = (HeaderFields \cup Multibyte[packet.opcode]) \ packet.net
    BY <1>3 DEF NodeReceives
  <2>2. /\ meant # NoPacket
        /\ ~Unnoticed => packet.txn = meant.txn /\ packet.payload = meant.payload
    BY <1>1, <1>3, ValidIsMeant
  <2>3. packet.opcode = meant.opcode /\ packet.net = NetOrder(meant)
    BY <1>1, <2>2 DEF CodecInvariant, PacketIsMeant
  <2>4. meant.payload = "struct"
    BY <1>1, <2>2 DEF CodecInvariant, SendersMean, PopulateHeader
  <2>5. handled'.wrongOrder = {}
    BY <2>1, <2>3, <2>4 DEF NetOrder
  <2>6. ~aborted' /\ HandledAsMeant' /\ SwapStaysInPacket'
    BY <1>1, <2>1, <2>2, <2>3, <2>5
       DEF HandledAsMeant, SwapStaysInPacket, Unnoticed, CodecInvariant
  <2> QED
    BY <1>1, <2>6, GonePreserves
<1> QED
  BY <1>2, <1>3

LEMMA MulticastPreserves ==
  ASSUME CodecInvariant, ~overrun, ServerReceivesMulticast
  PROVE  CodecInvariant'
<1> DEFINE converted == ConvertPacketByteOrder(packet, TRUE)
           p == converted.packet
<1>1. /\ packet # NoPacket /\ to = "multicast" /\ packet' = NoPacket
      /\ UNCHANGED <<to, aborted, meant, damage, trusted>>
      /\ overrun' = (ValidatePacket(packet) = "kNoError" /\ converted.overrun)
  BY DEF ServerReceivesMulticast
<1>2. /\ packet = [x \in PacketParts |-> packet[x]]
      /\ packet.opcode \in Opcodes /\ HeaderFields \subseteq packet.net
  BY <1>1 DEF CodecInvariant, PacketIsWhole
<1>3. CASE ValidatePacket(packet) # "kNoError"
  <2>1. handled' = NoPacket
    BY <1>3 DEF ServerReceivesMulticast
  <2>2. ~aborted' /\ HandledAsMeant' /\ SwapStaysInPacket'
    BY <1>1, <1>3, <2>1 DEF HandledAsMeant, SwapStaysInPacket, CodecInvariant
  <2> QED
    BY <1>1, <2>2, GonePreserves
<1>4. CASE ValidatePacket(packet) = "kNoError"
  <2>1. /\ meant # NoPacket
        /\ ~Unnoticed => packet.txn = meant.txn /\ packet.payload = meant.payload
    BY <1>1, <1>4, ValidIsMeant
  <2>2. meant.opcode = "nodeAnnouncement" /\ meant.payload = "struct" /\ meant.length = WholeStruct
    BY <1>1, <2>1 DEF CodecInvariant, SendersMean
  <2>3. /\ packet.opcode = "nodeAnnouncement" /\ packet.length = WholeStruct
        /\ packet.net = HeaderFields \cup Multibyte["nodeAnnouncement"]
    BY <1>1, <2>1, <2>2 DEF CodecInvariant, PacketIsMeant, NetOrder
  <2>4. ~overrun'
    BY <1>1, <1>2, <2>3, OverrunOffTheWire
  <2>5. OpcodeOf(p) = packet.opcode /\ p.txn = packet.txn /\ p.payload = packet.payload
    BY <1>2, HeaderIsConverted
  <2>6. /\ handled'.opcode = packet.opcode /\ handled'.txn = packet.txn
        /\ handled'.payload = packet.payload
        /\ handled'.wrongOrder = (HeaderFields \cup Multibyte["nodeAnnouncement"]) \cap p.net
    <3>1. handled' = Read(p, HeaderFields \cup Multibyte["nodeAnnouncement"])
      BY <1>4, <2>3, <2>5 DEF ServerReceivesMulticast
    <3> HIDE DEF p
    <3> QED
      BY <2>5, <3>1 DEF Read
  <2>7. ~Unnoticed => p.net = {}
    BY <1>2, <2>1, <2>2, <2>3, AnnouncementIsConverted
  <2> HIDE DEF p, converted
  <2>8. HandledAsMeant'
    BY <1>1, <2>1, <2>2, <2>3, <2>6, <2>7 DEF HandledAsMeant, Unnoticed
  <2>9. ~aborted' /\ SwapStaysInPacket'
    BY <1>1, <2>4 DEF SwapStaysInPacket, CodecInvariant
  <2> QED
    BY <1>1, <2>8, <2>9, GonePreserves
<1> QED
  BY <1>3, <1>4

LEMMA ServerReceivesPreserves ==
  ASSUME CodecInvariant, ~overrun, NEW errIsZero \in BOOLEAN, ServerReceives(errIsZero)
  PROVE  CodecInvariant'
<1> DEFINE converted == ConvertPacketByteOrder(packet, TRUE)
           p == converted.packet
<1>1. /\ packet # NoPacket /\ to = "server" /\ packet' = NoPacket
      /\ UNCHANGED <<to, aborted, meant, damage>>
      /\ overrun' = (errIsZero /\ converted.overrun)
      /\ trusted' = (errIsZero /\ ValidatePacket(packet) # "kNoError")
      /\ handled' # NoPacket => errIsZero /\ handled' = Read(p, HeaderFields)
  BY DEF ServerReceives
<1>2. /\ packet = [x \in PacketParts |-> packet[x]]
      /\ packet.opcode \in Opcodes /\ HeaderFields \subseteq packet.net
  BY <1>1 DEF CodecInvariant, PacketIsWhole
<1>3. /\ OpcodeOf(p) = packet.opcode /\ p.txn = packet.txn /\ p.payload = packet.payload
      /\ p.net \cap HeaderFields = {}
  BY <1>2, HeaderIsConverted
<1>4. converted.overrun => packet.opcode = "nodeAdoption" /\ packet.payload # "none"
  BY <1>2, OverrunOffTheWire
<1> HIDE DEF p, converted
<1>5. HandledAsMeant'
  <2> SUFFICES ASSUME handled' # NoPacket, ~trusted'
               PROVE  /\ meant' # NoPacket
                      /\ ~Unnoticed' => /\ handled'.opcode = meant'.opcode
                                        /\ handled'.txn = meant'.txn
                                        /\ handled'.payload = meant'.payload
                                        /\ handled'.wrongOrder = {}
    BY DEF HandledAsMeant
  <2>1. ValidatePacket(packet) = "kNoError"
    BY <1>1
  <2>2. /\ meant # NoPacket
        /\ ~Unnoticed => packet.txn = meant.txn /\ packet.payload = meant.payload
    BY <1>1, <2>1, ValidIsMeant
  <2>3. packet.opcode = meant.opcode
    BY <1>1, <2>2 DEF CodecInvariant, PacketIsMeant
  <2>4. /\ handled'.opcode = packet.opcode /\ handled'.txn = packet.txn
        /\ handled'.payload = packet.payload /\ handled'.wrongOrder = {}
    BY <1>1, <1>3 DEF Read
  <2>5. Unnoticed' <=> Unnoticed
    BY <1>1 DEF Unnoticed
  <2> QED
    BY <1>1, <2>2, <2>3, <2>4, <2>5
<1>6. SwapStaysInPacket'
  <2> SUFFICES ASSUME overrun', ~trusted'
               PROVE  "nack" \in meant'.flags /\ meant'.opcode = "nodeAdoption"
    BY DEF SwapStaysInPacket
  <2>1. errIsZero /\ converted.overrun /\ ValidatePacket(packet) = "kNoError"
    BY <1>1
  <2>2. meant # NoPacket
    BY <1>1, <2>1, ValidIsMeant
  <2>3. meant.opcode = "nodeAdoption" /\ meant.payload # "none"
    BY <1>1, <1>4, <2>1, <2>2 DEF CodecInvariant, PacketIsMeant
  <2> QED
    BY <1>1, <2>2, <2>3 DEF CodecInvariant, SendersMean
<1> QED
  BY <1>1, <1>5, <1>6, GonePreserves DEF CodecInvariant

LEMMA CodecStep == CodecInvariant /\ [CodecNext]_codecVars => CodecInvariant'
<1> SUFFICES ASSUME CodecInvariant, [CodecNext]_codecVars
             PROVE  CodecInvariant'
  OBVIOUS
<1>1. ASSUME ~overrun, NEW txn \in TxnNumbers, Sends(txn)
      PROVE  CodecInvariant'
  <2>1. ASSUME NEW opcode \in {"nodeAdoption", "framebufferData"}, ServerSends(opcode, txn)
        PROVE  CodecInvariant'
    BY <2>1, ServerSendsPreserves
  <2>2. ASSUME NEW c \in Checksums, NodeAnnounces(txn, c)
        PROVE  CodecInvariant'
    BY <1>1, <2>2, OpcodesAre, NodeSendsPreserves DEF NodeAnnounces
  <2>3. ASSUME NEW c \in Checksums, NodeReports(txn, c)
        PROVE  CodecInvariant'
    BY <1>1, <2>3, OpcodesAre, NodeSendsPreserves DEF NodeReports
  <2>4. ASSUME NEW c \in Checksums, NEW opcode \in Opcodes, NodeAcks(opcode, txn, c)
        PROVE  CodecInvariant'
    BY <1>1, <2>4, NodeSendsPreserves DEF NodeAcks
  <2>5. ASSUME NEW c \in Checksums, NEW opcode \in Opcodes,
               NEW length \in {HeaderOnly, WholeStruct}, NodeNAcks(opcode, txn, c, length)
        PROVE  CodecInvariant'
    BY <1>1, <2>5, NodeSendsPreserves DEF NodeNAcks
  <2> QED
    BY <1>1, <2>1, <2>2, <2>3, <2>4, <2>5 DEF Sends
<1>2. ASSUME ~overrun, Stray
      PROVE  CodecInvariant'
  BY <1>2, StrayPreserves DEF Stray
<1>3. ASSUME ~overrun, Receive
      PROVE  CodecInvariant'
  BY <1>3, NodeReceivesPreserves, MulticastPreserves, ServerReceivesPreserves DEF Receive
<1>4. CASE UNCHANGED codecVars
  BY <1>4 DEF codecVars, CodecInvariant, PacketIsWhole, StrayHasNoMagic, PacketIsMeant,
              SendersMean, HandledAsMeant, SwapStaysInPacket, Unnoticed
<1> QED
  BY <1>1, <1>2, <1>3, <1>4, DamagePreserves, LosePreserves DEF CodecNext, Ended

\* validatePacket takes what the server sends for valid.
LEMMA SentIsValid == CodecInvariant => WireIsValid
<1> SUFFICES ASSUME CodecInvariant, packet # NoPacket, to = "node", damage = {}
             PROVE  /\ ValidatePacket(packet) = "kNoError"
                    /\ HeaderFields \cup Multibyte[packet.opcode] \subseteq packet.net
  BY DEF WireIsValid, CodecInvariant
<1>1. meant # NoPacket
  BY DEF CodecInvariant, StrayHasNoMagic
<1>2. PICK opcode \in {"nodeAdoption", "framebufferData"}, txn \in TxnNumbers :
        meant = PopulateHeader(opcode, txn)
  BY <1>1 DEF CodecInvariant, SendersMean
<1>3. /\ meant.payload = "struct" /\ meant.length = WholeStruct
      /\ "checksummed" \in meant.flags
  BY <1>2 DEF PopulateHeader
<1>4. /\ packet.opcode = meant.opcode /\ packet.length = meant.length
      /\ packet.flags = meant.flags /\ packet.txn = meant.txn
      /\ packet.payload = meant.payload /\ packet.magic
      /\ packet.net = NetOrder(meant) /\ packet.checksum = DataOf(meant)
  BY <1>1, <1>3 DEF CodecInvariant, PacketIsMeant
<1>5. packet.checksum = ChecksummedData(packet)
  BY <1>4 DEF ChecksummedData, DataOf
<1>6. HeaderFields \cup Multibyte[packet.opcode] \subseteq packet.net
  BY <1>3, <1>4 DEF NetOrder
<1>7. {"flags", "checksum", "magic"} \subseteq packet.net
  BY <1>6, HeaderHas
<1>8. packet.length # TooSmall
  BY <1>3, <1>4 DEF WholeStruct, TooSmall
<1>9. ValidatePacket(packet) = "kNoError"
  BY <1>4, <1>5, <1>7, <1>8 DEF ValidatePacket
<1> QED
  BY <1>6, <1>9

LEMMA CodecIsInvariant == CodecSpec => []CodecInvariant
BY CodecInitially, CodecStep, PTL DEF CodecSpec

\* convertToNetworkByteOrder and applyChecksum, called in this order by
\* adoptNode and sendDataToNode, never fail, and put on the wire what
\* validatePacket accepts, with every multibyte field swapped.
THEOREM WireStaysValid == CodecSpec => []WireIsValid
BY CodecIsInvariant, SentIsValid, PTL

\* What a node, handleMulticastPacket or handlePacket acts on is what its
\* sender meant, in the reader's byte order, whatever the network damages, up
\* to what validatePacket cannot see and what handlePacket does not look at.
THEOREM PacketsAreHandledAsMeant == CodecSpec => []HandledAsMeant
<1>1. CodecInvariant => HandledAsMeant
  BY DEF CodecInvariant
<1> QED
  BY <1>1, CodecIsInvariant, PTL

\* The loop over pixelsPerChannel in convertPacketByteOrder leaves the packet
\* only for the refusal of an adoption, or for what is no valid packet.
THEOREM SwapsStayInPackets == CodecSpec => []SwapStaysInPacket
<1>1. CodecInvariant => SwapStaysInPacket
  BY DEF CodecInvariant
<1> QED
  BY <1>1, CodecIsInvariant, PTL
=============================================================================
