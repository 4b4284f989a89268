------------------------------ MODULE Admission ------------------------------
(***************************************************************************)
(* What Server::HandleClient promises of connections and clients: each     *)
(* connection gets at most one verdict, a client belongs to at most one    *)
(* admitted connection at a time, and another one that claims the client   *)
(* meanwhile is refused.  Server.tla, with its accept thread, its pool and *)
(* its shutdown, is shown to implement it.                                 *)
(***************************************************************************)
CONSTANTS
  Clients,      \* identifiers
  Connections,
  None          \* no connection

VARIABLES
  owner,    \* the connection a client belongs to, or None
  verdict   \* of a connection: none, admitted or refused

AInit ==
  /\ owner = [k \in Clients |-> None]
  /\ verdict = [c \in Connections |-> "none"]

Admit(c, k) ==
  /\ verdict[c] = "none" /\ owner[k] = None
  /\ owner' = [owner EXCEPT ![k] = c]
  /\ verdict' = [verdict EXCEPT ![c] = "admitted"]

Refuse(c, k) ==
  /\ verdict[c] = "none" /\ owner[k] # None
  /\ verdict' = [verdict EXCEPT ![c] = "refused"]
  /\ UNCHANGED owner

(* The connection the client belonged to is given up.                      *)
Release(k) ==
  /\ owner[k] # None
  /\ owner' = [owner EXCEPT ![k] = None]
  /\ UNCHANGED verdict

ANext ==
  \E k \in Clients :
    \/ \E c \in Connections : Admit(c, k) \/ Refuse(c, k)
    \/ Release(k)

ASpec == AInit /\ [][ANext]_<<owner, verdict>>
=============================================================================
