-------------------------- MODULE NetworkCollector --------------------------
(***************************************************************************)
(* The network collector (collectors/network.py, netparse.py): one pass     *)
(* reads Sentinel's own socket inodes, then the IPv4 and the IPv6 table,    *)
(* each at its own moment, and diffs the sockets it tracks into open and    *)
(* close events.  The poll loop around it is Pipeline's Collector.          *)
(*                                                                          *)
(* A socket is known by its inode; an inode is never used twice.  Addresses *)
(* are reduced to the local port.                                           *)
(***************************************************************************)
EXTENDS Naturals, FiniteSets

CONSTANTS
  Ports,
  SocketLimits,  \* the values of max_sockets to try
  MaxOpened,     \* bound: sockets ever opened
  MaxActivity    \* bound: sockets opened and changes of whether a table can be read

Table == {"tcp", "tcp6"}
Inode == 1..MaxOpened
NoSocket == [table |-> "tcp", port |-> 0, state |-> "closed", own |-> FALSE]

VARIABLES
  socks,        \* inode -> socket
  opened, turns,
  readable,     \* the tables that can be read
  maxSockets, tracked,   \* max_sockets, _tracked_states
  netPc,        \* the table the pass reads next, or "idle"
  own,          \* the inodes found in /proc/self/fd
  rows,         \* the rows read so far
  found,        \* the tables read in the last pass
  netBaseline, netSeeded,
  netEvents,    \* the events of the last pass
  netTold,      \* the sockets open according to the events so far
  netCut,       \* whether the last pass was cut at max_sockets
  netQuiet      \* whether nothing happened since the last pass began

netHost == <<socks, opened, turns, readable, maxSockets, tracked>>
netDiff == <<netBaseline, netSeeded, netEvents, netTold, netCut>>
netVars == <<netHost, netPc, own, rows, found, netDiff, netQuiet>>
-----------------------------------------------------------------------------
(* The host, Sentinel's own API, database and webhook sockets included. *)

NetStep ==
  /\ netQuiet' = FALSE
  /\ UNCHANGED <<maxSockets, tracked, netPc, own, rows, found, netDiff>>

OpenSocket ==
  /\ opened < MaxOpened /\ opened + turns < MaxActivity
  /\ opened' = opened + 1
  /\ \E t \in Table, p \in Ports, s \in {"LISTEN", "ESTABLISHED"}, o \in BOOLEAN :
       socks' = [socks EXCEPT ![opened + 1] =
                   [table |-> t, port |-> p, state |-> s, own |-> o]]
  /\ UNCHANGED <<turns, readable>>
  /\ NetStep

\* A connection begins to close: still in the table, in a state not tracked.
BeginClose(i) ==
  /\ socks[i].state = "ESTABLISHED"
  /\ socks' = [socks EXCEPT ![i].state = "CLOSE_WAIT"]
  /\ UNCHANGED <<opened, turns, readable>>
  /\ NetStep

CloseSocket(i) ==
  /\ socks[i].state # "closed"
  /\ socks' = [socks EXCEPT ![i] = NoSocket]
  /\ UNCHANGED <<opened, turns, readable>>
  /\ NetStep

TableChanges(t) ==
  /\ opened + turns < MaxActivity
  /\ turns' = turns + 1
  /\ readable' = IF t \in readable THEN readable \ {t} ELSE readable \cup {t}
  /\ UNCHANGED <<socks, opened>>
  /\ NetStep
-----------------------------------------------------------------------------
(* One pass. *)

Init ==
  /\ socks = [i \in Inode |-> NoSocket] /\ opened = 0 /\ turns = 0
  /\ readable = Table
  /\ maxSockets \in SocketLimits
  /\ tracked \in {{"LISTEN"}, {"LISTEN", "ESTABLISHED"}}
  /\ netPc = "idle" /\ own = {} /\ rows = {} /\ found = {}
  /\ netBaseline = {} /\ netSeeded = FALSE /\ netEvents = {} /\ netTold = {}
  /\ netCut = FALSE /\ netQuiet = FALSE

InodesOf(S) == {i \in Inode : socks[i].state # "closed" /\ socks[i].own \in S}

\* _own_socket_inodes; a directory that cannot be listed gives none.
ReadOwn ==
  /\ netPc = "idle"
  /\ netPc' = "tcp"
  /\ \/ own' = InodesOf({TRUE}) /\ netQuiet' = TRUE
     \/ own' = {} /\ netQuiet' = FALSE
  /\ found' = {} /\ netEvents' = {}
  /\ UNCHANGED <<netHost, rows, netBaseline, netSeeded, netTold, netCut>>

\* parse_net_line on the rows of a table.
TableRows(t) ==
  {[table |-> t, port |-> socks[i].port, state |-> socks[i].state, inode |-> i] :
     i \in {i \in InodesOf(BOOLEAN) : socks[i].table = t}}

\* Faulty variant: own sockets are told by their port.
OwnRow_ByPort(row) == row.port \in {socks[i].port : i \in own}

OwnRow(row) == row.inode \in own

\* The rows of a table the pass takes; of one that cannot be read, none.
Taken(t) ==
  {row \in IF t \in readable THEN TableRows(t) ELSE {} : row.state \in tracked /\ ~OwnRow(row)}

ReadTcp ==
  /\ netPc = "tcp"
  /\ netPc' = "tcp6"
  /\ rows' = Taken("tcp")
  /\ found' = readable \cap {"tcp"}
  /\ UNCHANGED <<netHost, own, netDiff, netQuiet>>

\* Faulty variant: the tables in turn, listeners and connections alike.
Before_TableFirst(r, s) ==
  IF r.table # s.table THEN r.table = "tcp" ELSE r.inode < s.inode

\* Listeners first, from every table; within a table as the kernel lists them.
Before(r, s) ==
  IF r.state # s.state THEN r.state = "LISTEN"
  ELSE IF r.table # s.table THEN r.table = "tcp" ELSE r.inode < s.inode

\* The first max_sockets of the rows read.
Ahead(S, r) == {s \in S : Before(s, r)}
Kept(S) == {r \in S : Cardinality(Ahead(S, r)) < maxSockets}

\* Socket.key
SocketKey(row) == [table |-> row.table, port |-> row.port, inode |-> row.inode]
Keys(S) == {SocketKey(row) : row \in S}

Event(action, row) == [action |-> action, row |-> row]

\* _diff
Diff(old, new) ==
  {Event("opened", row) : row \in {row \in new : SocketKey(row) \notin Keys(old)}}
  \cup {Event("closed", row) : row \in {row \in old : SocketKey(row) \notin Keys(new)}}

\* The second table completes the pass: keep max_sockets rows and diff them; the
\* first snapshot is the baseline.
ReadTcp6 ==
  /\ netPc = "tcp6"
  /\ netPc' = "idle"
  /\ LET all == rows \cup Taken("tcp6")
         snapshot == Kept(all)
     IN  /\ netBaseline' = snapshot
         /\ netEvents' = IF netSeeded THEN Diff(netBaseline, snapshot) ELSE {}
         /\ netTold' = IF netSeeded
              THEN {row \in netTold : Event("closed", row) \notin netEvents'}
                   \cup {e.row : e \in {e \in netEvents' : e.action = "opened"}}
              ELSE snapshot
         /\ netCut' = (Cardinality(all) > maxSockets)
  /\ netSeeded' = TRUE
  /\ found' = found \cup (readable \cap {"tcp6"})
  /\ own' = {} /\ rows' = {}
  /\ UNCHANGED <<netHost, netQuiet>>

Scan == ReadOwn \/ ReadTcp \/ ReadTcp6

Next ==
  \/ OpenSocket
  \/ \E i \in Inode : BeginClose(i) \/ CloseSocket(i)
  \/ \E t \in Table : TableChanges(t)
  \/ Scan

Spec == Init /\ [][Next]_netVars
-----------------------------------------------------------------------------
\* The sockets a pass is to report: tracked, in a readable table, not Sentinel's.
Visible == {row \in UNION {TableRows(t) : t \in readable} :
              row.state \in tracked /\ ~socks[row.inode].own}

Listeners == {row \in Visible : row.state = "LISTEN"}

\* After a pass during which nothing happened the events describe the sockets: a
\* service restarted on its port between two polls is another socket, Sentinel's
\* own are not among them, and a flood of connections past max_sockets hides
\* connections but never a listener, whichever table it is in.
QuietPassKnowsSockets ==
  (netPc = "idle" /\ netQuiet) =>
    /\ netTold \subseteq Visible
    /\ Cardinality(Listeners) <= maxSockets => Listeners \subseteq netTold
    /\ Cardinality(Visible) <= maxSockets => netTold = Visible

\* A socket is reported closed only once it left its tracked state, or the report
\* is explained: it is Sentinel's own after all, its table could not be read, or
\* the pass was cut at max_sockets.
ClosedMeansGone ==
  [][netPc = "tcp6" /\ netPc' = "idle" =>
       \A e \in netEvents' : e.action = "closed" =>
         LET sock == socks[e.row.inode] IN
         sock.state \notin tracked \/ sock.own \/ sock.table \notin found' \/ netCut']_netVars
=============================================================================
