-------------------------- MODULE ProcTablesHistory --------------------------
(***************************************************************************)
(* The search for the process of a connection with two history variables,  *)
(* which the code does not keep: who has held an open socket with the key  *)
(* all through the search, and who ever held which socket.                 *)
(***************************************************************************)
EXTENDS NAProcTables

VARIABLES
  through,   \* who has held which socket with the key since the search began
  ever       \* who ever held which socket

Holders == UNION {socket[i].holders \X {i} : i \in DOMAIN socket}
KeySockets == {i \in DOMAIN socket : RowKey(socket[i].header) = key}
KeyHolders == {h \in Holders : h[2] \in KeySockets}

InitSeen == Init /\ through = {} /\ ever = {}

NextSeen ==
  /\ Next
  /\ ever' = ever \cup Holders'
  /\ through' = IF key' = NULL THEN {}
                ELSE IF key = NULL THEN KeyHolders'
                ELSE through \cap KeyHolders'

SpecSeen == InitSeen /\ [][NextSeen]_<<vars, through, ever>>

Finding == pc = "inode" /\ pc' = "idle"

\* The comment of na_process_find_from_connection() (na-process.c): "Finds
\* corresponding process and adds the connection".  When a process has the socket
\* open from the lookup of its key to the end of the search, it is found, or
\* another one that has held that socket, whatever else goes on in /proc.
OpenSocketIsFound ==
  [][Finding => \A h \in through : <<result', h[2]>> \in ever]_<<vars, through, ever>>

\* The same comment, for sockets closed in the meantime too: a process found is one
\* that has held a socket with the end points of the connection, or with another
\* local address in their place, as the workaround in addtoconninode() wants.
OwnsKey(p) ==
  \E i \in DOMAIN socket : key \in RowKeys(socket[i].header) /\ <<p, i>> \in ever
FoundOwner ==
  [][Finding /\ result' # 0 => OwnsKey(result')]_<<vars, through, ever>>

\* The same comment: "If the connection doesn't belong to any known process, the
\* process list is updated and a new process is made."  A connection whose socket
\* the process found has open is added to a row with the name of that process.
RightName ==
  [][Finding /\ (\E h \in through : h[1] = result')
       => processes'[result'] = program[result']]_<<vars, through, ever>>

=============================================================================
