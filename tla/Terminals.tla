----------------------------- MODULE Terminals -----------------------------
(***************************************************************************)
(* Terminals in the browser: the sessions of TerminalSessionsService and   *)
(* the connections of ContainerTerminalGateway that use them.  A client    *)
(* creates a session, connects a socket with its token, and is given a     *)
(* shell in the workspace once the socket has stayed open for a moment.    *)
(* A session may be connected again until a shell has been opened for it,  *)
(* and never after.                                                        *)
(*                                                                         *)
(* handleConnection of a connection awaits three times: the moment in      *)
(* which early closes are detected, the opening of the shell, and its      *)
(* first resize.  Its cleanup awaits the end of the shell.  Events of the  *)
(* socket, timers and other connections come in between.                   *)
(***************************************************************************)
EXTENDS Naturals

CONSTANTS
  Sessions,
  Connections,
  Session,     \* the session whose identifier and token a connection gives
  Faults       \* calls that may fail: "open" and "close" of a shell

ASSUME TerminalsAssumption ==
  /\ Session \in [Connections -> Sessions]
  /\ Faults \subseteq {"open", "close"}

VARIABLES
  record,    \* TerminalSessionRecord.state, or "gone" when it is deleted
  worn,      \* the limits a session has reached: "idle", "old"
  socket,    \* WebSocket.readyState of a connection
  at,        \* the await handleConnection is in
  closed,    \* closed: its cleanup has begun
  connected, \* sessionMarkedConnected
  shell      \* the exec of a connection

sessionVars == <<record, worn>>
terminalVars == <<sessionVars, socket, at, closed, connected, shell>>

Stored(s) == record[s] \in {"pending", "connected"}

(* A session has limits while it exists, and a connection counts as its    *)
(* client only once it has a shell (markSessionConnected after the exec).  *)
TerminalsTypeOK ==
  /\ record \in [Sessions -> {"none", "pending", "connected", "gone"}]
  /\ worn \in [Sessions -> SUBSET {"idle", "old"}]
  /\ socket \in [Connections -> {"none", "open", "closing", "closed"}]
  /\ at \in [Connections -> {"no", "detecting", "opening", "resizing", "serving", "over"}]
  /\ closed \in [Connections -> BOOLEAN]
  /\ connected \in [Connections -> BOOLEAN]
  /\ shell \in [Connections -> {"none", "opening", "open", "ending", "ended", "lost"}]
  /\ \A k \in Connections :
       /\ at[k] \in {"no", "detecting"} => shell[k] = "none"
       /\ shell[k] = "opening" <=> at[k] = "opening"
       /\ connected[k] => shell[k] \notin {"none", "opening"}
  /\ \A s \in Sessions : ~Stored(s) => worn[s] = {}

TerminalsInit ==
  /\ record = [s \in Sessions |-> "none"]
  /\ worn = [s \in Sessions |-> {}]
  /\ socket = [k \in Connections |-> "none"]
  /\ at = [k \in Connections |-> "no"]
  /\ closed = [k \in Connections |-> FALSE]
  /\ connected = [k \in Connections |-> FALSE]
  /\ shell = [k \in Connections |-> "none"]

-----------------------------------------------------------------------------
(* Sessions.  Time is abstract: a session reaches a limit at any moment    *)
(* after its creation or, for the idle limit, after its last use.          *)

Delete(s) ==
  /\ record' = [record EXCEPT ![s] = IF Stored(s) THEN "gone" ELSE @]
  /\ worn' = [worn EXCEPT ![s] = {}]

Touch(s) ==
  /\ worn' = [worn EXCEPT ![s] = @ \ {"idle"}]
  /\ UNCHANGED record

CreateSession(s) ==
  /\ record[s] = "none"
  /\ record' = [record EXCEPT ![s] = "pending"]
  /\ UNCHANGED <<worn, socket, at, closed, connected, shell>>

ReachLimit(s, limit) ==
  /\ Stored(s) /\ limit \notin worn[s]
  /\ worn' = [worn EXCEPT ![s] = @ \union {limit}]
  /\ UNCHANGED <<record, socket, at, closed, connected, shell>>

Valid(s) == Stored(s) /\ worn[s] = {}

Prune ==
  /\ \E s \in Sessions : worn[s] # {}
  /\ record' = [s \in Sessions |-> IF worn[s] # {} THEN "gone" ELSE record[s]]
  /\ worn' = [s \in Sessions |-> {}]
  /\ UNCHANGED <<socket, at, closed, connected, shell>>

(* Mutant: a session that is connected already may be connected again. *)
Connectable_Existing(s) == Stored(s)

Connectable(s) == record[s] = "pending"

-----------------------------------------------------------------------------
(* cleanup                                                                 *)

CloseSocket(k) ==
  socket' = [socket EXCEPT ![k] = IF @ = "open" THEN "closing" ELSE @]

(* Mutant: the session is closed with whatever connection used it. *)
Cleanup_ClosesSession(k) ==
  /\ ~closed[k]
  /\ closed' = [closed EXCEPT ![k] = TRUE]
  /\ IF shell[k] = "open"
       THEN shell' = [shell EXCEPT ![k] = "ending"] /\ UNCHANGED <<sessionVars, socket>>
       ELSE Delete(Session[k]) /\ CloseSocket(k) /\ UNCHANGED shell

(* With a shell, its end is awaited first; without one nothing is, and the *)
(* session is kept for another attempt.                                    *)
Cleanup(k) ==
  /\ ~closed[k]
  /\ closed' = [closed EXCEPT ![k] = TRUE]
  /\ IF shell[k] = "open"
       THEN shell' = [shell EXCEPT ![k] = "ending"] /\ UNCHANGED <<sessionVars, socket>>
       ELSE Touch(Session[k]) /\ CloseSocket(k) /\ UNCHANGED shell

(* Mutant: the socket is left to the client. *)
CleanupEnds_LeavesSocket(k) ==
  /\ shell[k] = "ending"
  /\ \/ shell' = [shell EXCEPT ![k] = "ended"]
     \/ "close" \in Faults /\ shell' = [shell EXCEPT ![k] = "lost"]
  /\ Delete(Session[k])
  /\ UNCHANGED <<socket, at, closed, connected>>

CleanupEnds(k) ==
  /\ shell[k] = "ending"
  /\ \/ shell' = [shell EXCEPT ![k] = "ended"]
     \/ "close" \in Faults /\ shell' = [shell EXCEPT ![k] = "lost"]
  /\ Delete(Session[k])
  /\ CloseSocket(k)
  /\ UNCHANGED <<at, closed, connected>>

-----------------------------------------------------------------------------
(* handleConnection                                                        *)

Connect(k) ==
  /\ at[k] = "no" /\ record[Session[k]] # "none"
  /\ at' = [at EXCEPT ![k] = "detecting"]
  /\ socket' = [socket EXCEPT ![k] = "open"]
  /\ UNCHANGED <<sessionVars, closed, connected, shell>>

(* The wait for early closes is over, and the socket is no longer open.    *)
AbortEarly(k) ==
  /\ at[k] = "detecting" /\ (closed[k] \/ socket[k] # "open")
  /\ at' = [at EXCEPT ![k] = "over"]
  /\ Cleanup(k) \/ (closed[k] /\ UNCHANGED <<sessionVars, socket, closed, shell>>)
  /\ UNCHANGED connected

(* An expired session is deleted when it is looked at. *)
Refuse(k) ==
  /\ at[k] = "detecting" /\ ~closed[k] /\ socket[k] = "open"
  /\ ~Valid(Session[k])
  /\ Delete(Session[k])
  /\ closed' = [closed EXCEPT ![k] = TRUE]
  /\ CloseSocket(k)
  /\ at' = [at EXCEPT ![k] = "over"]
  /\ UNCHANGED <<connected, shell>>

(* Mutant: the session is marked as connected before its shell is open. *)
StartShell_Marks(k) ==
  /\ at[k] = "detecting" /\ ~closed[k] /\ socket[k] = "open"
  /\ Valid(Session[k]) /\ Connectable(Session[k])
  /\ at' = [at EXCEPT ![k] = "opening"]
  /\ shell' = [shell EXCEPT ![k] = "opening"]
  /\ record' = [record EXCEPT ![Session[k]] = "connected"]
  /\ connected' = [connected EXCEPT ![k] = TRUE]
  /\ UNCHANGED <<worn, socket, closed>>

StartShell(k) ==
  /\ at[k] = "detecting" /\ ~closed[k] /\ socket[k] = "open"
  /\ Valid(Session[k])
  /\ at' = [at EXCEPT ![k] = "opening"]
  /\ shell' = [shell EXCEPT ![k] = "opening"]
  /\ UNCHANGED <<sessionVars, socket, closed, connected>>

(* The session is marked as connected only now, so that a client that      *)
(* loses its socket before may come again.                                 *)
ShellOpens(k) ==
  /\ at[k] = "opening" /\ ~closed[k] /\ socket[k] = "open"
  /\ Connectable(Session[k])
  /\ record' = [record EXCEPT ![Session[k]] = "connected"]
  /\ worn' = [worn EXCEPT ![Session[k]] = @ \ {"idle"}]
  /\ connected' = [connected EXCEPT ![k] = TRUE]
  /\ shell' = [shell EXCEPT ![k] = "open"]
  /\ at' = [at EXCEPT ![k] = "resizing"]
  /\ UNCHANGED <<socket, closed>>

(* The shell is not wanted any more: its socket is closing, or the session *)
(* is gone or another connection's.  Its cleanup closes the session, also  *)
(* when it is the other one's.                                             *)
ShellOpensInVain(k) ==
  /\ at[k] = "opening" /\ ~closed[k]
  /\ socket[k] # "open" \/ ~Connectable(Session[k])
  /\ shell' = [shell EXCEPT ![k] = "ending"]
  /\ closed' = [closed EXCEPT ![k] = TRUE]
  /\ at' = [at EXCEPT ![k] = "over"]
  /\ UNCHANGED <<sessionVars, socket, connected>>

(* The cleanup has run while the shell was being opened, and nothing       *)
(* closes the shell that it has not seen.                                  *)
ShellOpensLate(k) ==
  /\ at[k] = "opening" /\ closed[k]
  /\ shell' = [shell EXCEPT ![k] = "open"]
  /\ at' = [at EXCEPT ![k] = "over"]
  /\ UNCHANGED <<sessionVars, socket, closed, connected>>

ShellFails(k) ==
  /\ "open" \in Faults
  /\ at[k] = "opening"
  /\ at' = [at EXCEPT ![k] = "over"]
  /\ shell' = [shell EXCEPT ![k] = "none"]
  /\ closed' = [closed EXCEPT ![k] = TRUE]
  /\ IF closed[k] THEN UNCHANGED <<sessionVars, socket>>
                  ELSE Touch(Session[k]) /\ CloseSocket(k)
  /\ UNCHANGED connected

Resized(k) ==
  /\ at[k] = "resizing"
  /\ at' = [at EXCEPT ![k] = "serving"]
  /\ UNCHANGED <<sessionVars, socket, closed, connected, shell>>

(* The steps a connection takes without anybody's help. *)
ConnectionStep(k) ==
  \/ AbortEarly(k) \/ Refuse(k) \/ StartShell(k)
  \/ ShellOpens(k) \/ ShellOpensInVain(k) \/ ShellOpensLate(k) \/ ShellFails(k)
  \/ Resized(k) \/ CleanupEnds(k)

-----------------------------------------------------------------------------
(* Events                                                                  *)

(* Input and output of a terminal are use of its session; a write may be   *)
(* acknowledged after the cleanup has begun.                               *)
Activity(k) ==
  /\ at[k] = "serving"
  /\ Touch(Session[k])
  /\ UNCHANGED <<socket, at, closed, connected, shell>>

(* The shell ends, or the client asks for its end. *)
StreamEnds(k) ==
  /\ at[k] = "serving"
  /\ Cleanup(k)
  /\ UNCHANGED <<at, connected>>

(* The timers for idleness and for the duration of the session. *)
TimerFires(k) ==
  /\ at[k] \in {"opening", "resizing", "serving"}
  /\ Cleanup(k)
  /\ UNCHANGED <<at, connected>>

(* The peer has begun to close the socket; no event is raised yet. *)
SocketCloses(k) ==
  /\ socket[k] = "open"
  /\ socket' = [socket EXCEPT ![k] = "closing"]
  /\ UNCHANGED <<sessionVars, at, closed, connected, shell>>

SocketClosed(k) ==
  /\ socket[k] \in {"open", "closing"}
  /\ socket' = [socket EXCEPT ![k] = "closed"]
  /\ closed' = [closed EXCEPT ![k] = TRUE]
  /\ IF closed[k] THEN UNCHANGED <<sessionVars, shell>>
     ELSE IF shell[k] = "open"
       THEN shell' = [shell EXCEPT ![k] = "ending"] /\ UNCHANGED sessionVars
       ELSE Touch(Session[k]) /\ UNCHANGED shell
  /\ UNCHANGED <<at, connected>>

SocketFails(k) ==
  /\ socket[k] # "none"
  /\ Cleanup(k)
  /\ UNCHANGED <<at, connected>>

TerminalsNext ==
  \/ \E s \in Sessions : CreateSession(s) \/ \E limit \in {"idle", "old"} : ReachLimit(s, limit)
  \/ Prune
  \/ \E k \in Connections :
       \/ Connect(k) \/ ConnectionStep(k)
       \/ Activity(k) \/ StreamEnds(k) \/ TimerFires(k)
       \/ SocketCloses(k) \/ SocketClosed(k) \/ SocketFails(k)

TerminalsSpec == TerminalsInit /\ [][TerminalsNext]_terminalVars

(* Calls return, timers fire, and a socket that is closing closes. *)
TerminalsFairSpec ==
  /\ TerminalsSpec
  /\ \A k \in Connections :
       /\ WF_terminalVars(ConnectionStep(k)) /\ WF_terminalVars(TimerFires(k))
       /\ WF_terminalVars(socket[k] = "closing" /\ SocketClosed(k))

-----------------------------------------------------------------------------
(* At most one connection is ever given the shell of a session             *)
(* (markConnected after the await of openInteractiveExec).                 *)
OneTerminal ==
  \A j, k \in Connections : connected[j] /\ connected[k] /\ Session[j] = Session[k] => j = k

(* A session that counts as connected, and so refuses its client, has a    *)
(* terminal that still runs or is being closed: none is stuck (cleanup).   *)
ConnectedServed ==
  \A s \in Sessions : record[s] = "connected" =>
    \E k \in Connections : Session[k] = s /\ connected[k] /\ shell[k] \in {"open", "ending"}

SessionsServed == OneTerminal /\ ConnectedServed

(* "allows reconnecting after early close before exec start": a pending    *)
(* session is lost only by reaching a limit, or to a connection for which  *)
(* a shell was opened in vain.                                             *)
ReconnectPossible ==
  [][\A s \in Sessions :
       record[s] = "pending" /\ record'[s] = "gone" =>
         \/ worn[s] # {}
         \/ \E k \in Connections : Session[k] = s /\ shell[k] = "ending"]_terminalVars

(* Every connection ends: its socket is closed and its shell, but one that *)
(* was opened after the end.                                               *)
TerminalsEnd ==
  \A k \in Connections :
    at[k] = "detecting" ~>
      /\ at[k] \in {"serving", "over"} /\ socket[k] = "closed"
      /\ shell[k] \in {"none", "ended", "lost"} \/ (shell[k] = "open" /\ ~connected[k])
=============================================================================
