---------------------------- MODULE NodeAdoption ----------------------------
(***************************************************************************)
(* Discovery and adoption of nodes: NodeDiscovery.cpp, the adoption half   *)
(* of ProtocolHandler.cpp and the node and channel rows it writes.         *)
(*                                                                         *)
(* A DbNode object is a copy of its row and of its channels' rows, taken   *)
(* when the announcement arrived.  It waits in pendingAdoptions until the  *)
(* ack of its adoption comes, and DataStore::update then writes the whole  *)
(* copy back.  Command clients change channel rows at any time, and a      *)
(* client's UpdateNode request loads a node and writes all of it back.     *)
(*                                                                         *)
(* The datagram network loses and reorders packets.  A node has at most    *)
(* one channel (idx_channels_node is unique).  The node itself is external *)
(* and does what "Lichtenstein Protocol.md" asks: it announces itself      *)
(* until it is adopted, and accepts an adoption only when it is not.       *)
(***************************************************************************)
EXTENDS Integers

CONSTANTS
  Macs,        \* the nodes
  IpsOf,       \* the addresses each node may be given
  NoIp,        \* no address: a node the datastore does not know
  ConfigsOf,   \* the configurations (fbOffset, nodeIndex, size) that clients
               \* give the channel of each node
  NoChannel,   \* the node has no channel row
  Txns,        \* transaction numbers; also bounds pendingAdoptions, which
               \* never drops an adoption that is not acknowledged
  NoNode,      \* no DbNode: the worker handles no announcement, a client
               \* thread no UpdateNode request
  Clients,     \* the threads of command clients that send such requests
  MaxAnnouncements   \* bounds the announcements that are sent

ASSUME IpsOfIsAFunction == IpsOf \in [Macs -> SUBSET UNION {IpsOf[m] : m \in Macs}]
ASSUME CopiesAreApart ==
  /\ NoNode \notin Txns \cup Clients
  /\ Clients \cap Txns = {}

\* The network gives no two nodes the same address.
ASSUME AddressesAreOwn == \A m, n \in Macs : m # n => IpsOf[m] \cap IpsOf[n] = {}

VARIABLES
  rows,               \* nodes and channels tables
  pendingAdoptions,   \* a set: it is searched by transaction number
  node,               \* the DbNode processNodeAnnouncement works on
  client,             \* the DbNode of each client in clientRequestUpdateNode
  device,             \* the nodes themselves
  announcements, adoptions, acks,   \* packets on their way
  sent,               \* the announcements that were sent
  accepted,           \* history: the nodes that have accepted an adoption
  newest,             \* history: the address in the last announcement of each
                      \* node that was stored
  configured,         \* history: the channel a client stored last
  superseded,         \* history: copies with another address than their node
                      \* has announced since, by transaction number or client
  outdated,           \* history: copies with a channel a client has changed
                      \* since (NoNode: the one the worker works on)
  rewound, reverted   \* history: nodes whose row, and whose channel, such a
                      \* copy was written to last

server == <<rows, pendingAdoptions, node, client>>
network == <<announcements, adoptions, acks, sent>>
copies == <<superseded, outdated, rewound, reverted>>
history == <<accepted, newest, configured, copies>>
vars == <<server, network, device, history>>

Ips == UNION {IpsOf[m] : m \in Macs}

Init ==
  /\ rows = [m \in Macs |-> [ip |-> NoIp, adopted |-> FALSE, channel |-> NoChannel]]
  /\ pendingAdoptions = {}
  /\ node = NoNode
  /\ client = [c \in Clients |-> NoNode]
  /\ device \in [Macs -> [ip : Ips, adopted : {FALSE}]]
  /\ \A m \in Macs : device[m].ip \in IpsOf[m]
  /\ announcements = {} /\ adoptions = {} /\ acks = {}
  /\ sent = 0
  /\ accepted = {}
  /\ newest = [m \in Macs |-> NoIp]
  /\ configured = [m \in Macs |-> NoChannel]
  /\ superseded = {} /\ outdated = {}
  /\ rewound = {} /\ reverted = {}

---------------------------------------------------------------------------
(***************************************************************************)
(* The nodes and the network.                                              *)
(***************************************************************************)

\* A node that is not adopted multicasts its announcement.
Announce(m) ==
  /\ ~device[m].adopted
  /\ sent < MaxAnnouncements
  /\ sent' = sent + 1
  /\ announcements' = announcements \cup {[mac |-> m, ip |-> device[m].ip]}
  /\ UNCHANGED <<server, adoptions, acks, device, history>>

\* A node restarts, perhaps with another address.
Restart(m, ip) ==
  /\ ip \in IpsOf[m]
  /\ device' = [device EXCEPT ![m] = [ip |-> ip, adopted |-> FALSE]]
  /\ UNCHANGED <<server, network, history>>

\* An adoption reaches the node that has the address now.
ReceiveAdoption(a, m) ==
  /\ a \in adoptions
  /\ device[m].ip = a.ip
  /\ adoptions' = adoptions \ {a}
  /\ device' = [device EXCEPT ![m].adopted = TRUE]
  /\ acks' = IF device[m].adopted THEN acks ELSE acks \cup {a.txn}
  /\ accepted' = accepted \cup {m}
  /\ UNCHANGED <<sent, server, announcements, newest, configured, copies>>

LosePacket ==
  /\ \/ \E p \in announcements : announcements' = announcements \ {p} /\ UNCHANGED <<adoptions, acks>>
     \/ \E p \in adoptions : adoptions' = adoptions \ {p} /\ UNCHANGED <<announcements, acks>>
     \/ \E p \in acks : acks' = acks \ {p} /\ UNCHANGED <<announcements, adoptions>>
  /\ UNCHANGED <<sent, server, device, history>>

---------------------------------------------------------------------------
(***************************************************************************)
(* The protocol worker.                                                    *)
(***************************************************************************)

\* What findNodeWithMac loads for the sender of p, with the announced facts
\* filled in; a node that is not known starts without a channel.
LoadNode(p) == [mac |-> p.mac, ip |-> p.ip, channel |-> rows[p.mac].channel]

\* handleMulticastPacket, processNodeAnnouncement up to the update: the row
\* and its channel are copied.
ReceiveAnnouncement(p) ==
  /\ node = NoNode
  /\ p \in announcements
  /\ announcements' = announcements \ {p}
  /\ node' = LoadNode(p)
  /\ UNCHANGED <<sent, rows, pendingAdoptions, client, adoptions, acks, device, history>>

\* Mutant of UpdateNode: the WHERE clause is missing.
UpdateEveryNode(r, n, isAdopted) ==
  [m \in Macs |-> [ip |-> n.ip, adopted |-> isAdopted, channel |-> r[m].channel]]

\* Mutant of UpdateNode: a node loaded without a channel loses the one it has.
UpdateNodeAndChannel(r, n, isAdopted) ==
  [r EXCEPT ![n.mac] = [ip |-> n.ip, adopted |-> isAdopted, channel |-> n.channel]]

\* DataStore::update(DbNode *): the node's row, and the row of each channel
\* the object was loaded with.
UpdateNode(r, n, isAdopted) ==
  [r EXCEPT ![n.mac] =
     [ip      |-> n.ip,
      adopted |-> isAdopted,
      channel |-> IF n.channel = NoChannel THEN @.channel ELSE n.channel]]

IsUnused(t) ==
  /\ t \notin acks
  /\ \A a \in adoptions \cup pendingAdoptions : a.txn # t

\* The adoptions of m that wait for an answer, and the clients with a copy of
\* it.
PendingOf(m) == {e \in pendingAdoptions : e.node.mac = m}
ClientsOf(m) == {c \in Clients : client[c] # NoNode /\ client[c].mac = m}

\* The rest of processNodeAnnouncement: store the node as not adopted, then
\* adoptNode sends the request and remembers it if sendto succeeds.
StoreAndAdopt ==
  LET older == {e.txn : e \in PendingOf(node.mac)} \cup ClientsOf(node.mac)
  IN /\ node # NoNode
     /\ rows' = UpdateNode(rows, node, FALSE)
     /\ \/ \E t \in Txns :
             /\ IsUnused(t)
             /\ adoptions' = adoptions \cup {[txn |-> t, ip |-> node.ip]}
             /\ pendingAdoptions' = pendingAdoptions \cup {[txn |-> t, node |-> node]}
             /\ outdated' = IF NoNode \in outdated
                          THEN (outdated \ {NoNode}) \cup {t} ELSE outdated
        \/ /\ UNCHANGED <<adoptions, pendingAdoptions>>
           /\ outdated' = outdated \ {NoNode}
     /\ node' = NoNode
     /\ newest' = [newest EXCEPT ![node.mac] = node.ip]
     /\ superseded' = superseded \cup older
     /\ rewound' = rewound \ {node.mac}
     /\ reverted' = IF NoNode \in outdated THEN reverted \cup {node.mac} ELSE reverted
     /\ UNCHANGED <<sent, client, announcements, acks, device, accepted, configured>>

\* What becomes of the histories when a copy of m, known as k, is written back.
CopyWritten(k, m) ==
  /\ superseded' = superseded \ {k}
  /\ outdated' = outdated \ {k}
  /\ rewound' = IF k \in superseded THEN rewound \cup {m} ELSE rewound \ {m}
  /\ reverted' = IF k \in outdated THEN reverted \cup {m} ELSE reverted

\* node->adopted = 1, the update and the erase from the list.
WriteBack(e) ==
  /\ rows' = UpdateNode(rows, e.node, TRUE)
  /\ pendingAdoptions' = pendingAdoptions \ {e}
  /\ CopyWritten(e.txn, e.node.mac)

\* Mutant of ReceiveAck: any adoption that waits is taken for the one meant.
ReceiveAnyAck(t) ==
  /\ node = NoNode
  /\ t \in acks
  /\ acks' = acks \ {t}
  /\ \E e \in pendingAdoptions : WriteBack(e)
  /\ UNCHANGED <<sent, node, client, announcements, adoptions, device, accepted, newest, configured>>

\* handlePacket on the ack of an adoption: the remembered copy is written back
\* as adopted.  An ack whose transaction is not pending is ignored.
ReceiveAck(t) ==
  LET matching == {e \in pendingAdoptions : e.txn = t}
  IN /\ node = NoNode
     /\ t \in acks
     /\ acks' = acks \ {t}
     /\ \/ matching = {} /\ UNCHANGED <<rows, pendingAdoptions, copies>>
        \/ \E e \in matching : WriteBack(e)
     /\ UNCHANGED <<sent, node, client, announcements, adoptions, device, accepted, newest, configured>>

---------------------------------------------------------------------------
(***************************************************************************)
(* Command clients: clientRequestUpdateNode, clientRequesNewChannel and    *)
(* clientRequesUpdateChannel.                                              *)
(***************************************************************************)

\* findNodeWithId: the client has a copy of the row and its channel, stale
\* already if a stale copy was stored there last.
LoadNodeForClient(c, m) ==
  /\ client[c] = NoNode
  /\ rows[m].ip # NoIp
  /\ client' = [client EXCEPT ![c] = [mac |-> m, ip |-> rows[m].ip, adopted |-> rows[m].adopted,
                                      channel |-> rows[m].channel]]
  /\ superseded' = IF m \in rewound THEN superseded \cup {c} ELSE superseded
  /\ UNCHANGED <<rows, pendingAdoptions, node, network, device, accepted, newest, configured,
                 outdated, rewound, reverted>>

\* store->update(node): no key can be set yet, so the copy is saved as it was.
SaveNodeOfClient(c) ==
  /\ client[c] # NoNode
  /\ rows' = UpdateNode(rows, client[c], client[c].adopted)
  /\ CopyWritten(c, client[c].mac)
  /\ client' = [client EXCEPT ![c] = NoNode]
  /\ UNCHANGED <<pendingAdoptions, node, network, device, accepted, newest, configured>>

\* The copies of m that were loaded with a channel.
CopiesWithChannel(m) ==
  {e.txn : e \in {p \in PendingOf(m) : p.node.channel # NoChannel}}
    \cup {c \in ClientsOf(m) : client[c].channel # NoChannel}
    \cup IF node # NoNode /\ node.mac = m /\ node.channel # NoChannel THEN {NoNode} ELSE {}

StoreChannel(m, c) ==
  /\ rows' = [rows EXCEPT ![m].channel = c]
  /\ configured' = [configured EXCEPT ![m] = c]
  /\ outdated' = outdated \cup CopiesWithChannel(m)
  /\ reverted' = reverted \ {m}
  /\ UNCHANGED <<pendingAdoptions, node, client, network, device, accepted, newest,
                 superseded, rewound>>

NewChannel(m, c) == rows[m].ip # NoIp /\ rows[m].channel = NoChannel /\ StoreChannel(m, c)

UpdateChannel(m, c) == rows[m].channel # NoChannel /\ StoreChannel(m, c)

Next ==
  \* the nodes and the network
  \/ \E m \in Macs : Announce(m)
  \/ \E m \in Macs, ip \in Ips : Restart(m, ip)
  \/ \E a \in adoptions, m \in Macs : ReceiveAdoption(a, m)
  \/ LosePacket
  \* the protocol worker
  \/ \E p \in announcements : ReceiveAnnouncement(p)
  \/ StoreAndAdopt
  \/ \E t \in Txns : ReceiveAck(t)
  \* command clients
  \/ \E c \in Clients, m \in Macs : LoadNodeForClient(c, m)
  \/ \E c \in Clients : SaveNodeOfClient(c)
  \/ \E m \in Macs : \E ch \in ConfigsOf[m] : NewChannel(m, ch) \/ UpdateChannel(m, ch)

Spec == Init /\ [][Next]_vars

---------------------------------------------------------------------------
\* A row holds the address its node announced last, unless a copy with an
\* older one was written back since: by the ack of an adoption that a later
\* announcement has superseded (handlePacket finds adoptions by transaction
\* number and keeps every one that was never answered), or by an UpdateNode
\* request that loaded the row before that announcement was stored, or while
\* it held such an address.
AddressIsNewest == \A m \in Macs \ rewound : rows[m].ip = newest[m]

\* What a client stored for a channel stays, whatever the nodes announce and
\* acknowledge meanwhile, unless a copy of the node that was loaded with the
\* channel before the change is written back after it, by the worker or an
\* UpdateNode request (DataStore::update writes the node's channels too).
ClientChangeStays == \A m \in Macs \ reverted : rows[m].channel = configured[m]

\* A node is only marked adopted when it has accepted an adoption itself: no
\* late ack, ack of an earlier adoption or ack of another node does it
\* (pendingAdoptions keeps every adoption that was never answered), and neither
\* does a client that writes the mark back as it loaded it.
AdoptedNodeAccepted == \A m \in Macs : rows[m].adopted => m \in accepted
===========================================================================
