----------------------------- MODULE SingleConn -----------------------------
(***************************************************************************)
(* What a channel of the client, direct or mesh, promises the streams it   *)
(* hands out, whatever dials, drops, watchers and outages do underneath:   *)
(* there is one connection at a time; a stream starts on the one that is   *)
(* current and alive, and stays with it to its end; the next connection is *)
(* installed only when nothing of the one before is left open.             *)
(* DirectPath and MeshChannel are shown to implement it.                   *)
(***************************************************************************)
CONSTANTS Conns,   \* identities of connections
          Riders,  \* handlers of local TCP connections
          None     \* no connection

VARIABLES
  current,  \* the connection streams are opened on, or None
  alive,    \* the connections that are open and can carry streams
  ride      \* the connection of each rider's stream, or None

vars == <<current, alive, ride>>

Init == current = None /\ alive = {} /\ ride = [r \in Riders |-> None]

Mounts(r, c) == ride[r] = None /\ ride' = [ride EXCEPT ![r] = c]

\* A new connection, perhaps at once with the stream it was dialled for.
Install(c) ==
  /\ current = None /\ alive = {}
  /\ current' = c /\ alive' = {c}
  /\ UNCHANGED ride \/ \E r \in Riders : Mounts(r, c)

\* The connection dies, or is closed and forgotten.
End == alive' = {} /\ current' \in {current, None} /\ UNCHANGED ride

\* A connection that has ended is forgotten.
Forget == current \notin alive /\ current' = None /\ UNCHANGED <<alive, ride>>

Ride(r) == current \in alive /\ Mounts(r, current) /\ UNCHANGED <<current, alive>>

Leave(r) == ride' = [ride EXCEPT ![r] = None] /\ UNCHANGED <<current, alive>>

Next == \/ \E c \in Conns : Install(c)
        \/ End \/ Forget
        \/ \E r \in Riders : Ride(r) \/ Leave(r)

Spec == Init /\ [][Next]_vars
=============================================================================
