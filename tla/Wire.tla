-------------------------------- MODULE Wire --------------------------------
(***************************************************************************)
(* The TCP connection between a client (module Client) and its session in  *)
(* the broker (module Session): two ordered streams that hold a bounded    *)
(* number of frames and break together.  A request on the wire is its      *)
(* number in req; a response frame says which request it answers, which    *)
(* the real frame does not.                                                *)
(***************************************************************************)
EXTENDS Integers, Sequences, FiniteSets

CONSTANTS
    Callers,   \* goroutines that use the client
    Setups,    \* environments, see SetupType
    SockCap,   \* frames each direction of the socket buffers
    MaxReqs    \* bound: requests issued

Kinds == {"pub", "dup", "bad", "garbled", "sub", "ack", "nack", "ctl", "create", "info"}

SetupType ==
    [callers : SUBSET Callers,
     kinds   : SUBSET Kinds,         \* requests the callers make
     reqs    : 0..MaxReqs,
     msgs    : Nat,                  \* messages there are to deliver
     events  : SUBSET {"fail",       \* the broker refuses a command, the handshake fails
                       "cancel",     \* a caller's context ends while it waits
                       "break",      \* the connection breaks
                       "close",      \* the application closes the client
                       "shutdown",   \* the server's context is cancelled
                       "consume"}]   \* the application receives from deliveryCh

ASSUME WireAssumption ==
    /\ SockCap \in Nat \ {0}
    /\ MaxReqs \in Nat
    /\ Setups \subseteq SetupType

VARIABLES
    setup,   \* chosen from Setups before the client dials
    link,    \* "up" or "down"
    up,      \* requests on their way to the broker
    down,    \* frames on their way to the client
    req      \* the requests issued so far: kind and caller

wireVars == <<link, up, down>>

Reqs == 1..MaxReqs

Frame == [kind : {"OK", "DUP", "ERR", "INFO", "MSG"}, answers : 0..MaxReqs]

Prefixes(s) == {SubSeq(s, 1, i) : i \in 0..Len(s)}

\* Either end closes the socket, or the network does: of what is under way each
\* side may still read a prefix.
Cut ==
    /\ link' = "down"
    /\ up' \in Prefixes(up)
    /\ down' \in Prefixes(down)

=============================================================================
