------------------------------ MODULE Connections ----------------------------
(***************************************************************************)
(* What the networked rounds do with TCP (TSS/network/connection, the same *)
(* code twice). A participant opens a listener, accepts a number of        *)
(* connections and closes it; it opens another one in a later phase. A     *)
(* connection that is made and not accepted waits in the listener's        *)
(* backlog and is reset when the listener is closed. Nothing is lost or    *)
(* reordered on an accepted connection, but it is a stream: what was sent  *)
(* in pieces can be received at once, and what was sent at once in pieces. *)
(***************************************************************************)
EXTENDS Integers, SequencesExt

CONSTANTS
    Parties,
    Conns       \* <<client, phase, server>>

VARIABLES
    listening,  \* has the party a listener?
    backlog,    \* the connections that its listener has not accepted yet
    conn        \* a connection's state and its two streams

netVars == <<listening, backlog, conn>>

Client(c) == c[1]
Phase(c) == c[2]
Server(c) == c[3]

NetInit ==
    /\ listening = [q \in Parties |-> FALSE]
    /\ backlog = [q \in Parties |-> <<>>]
    /\ conn = [c \in Conns |-> [state |-> "none", up |-> <<>>, down |-> <<>>]]

\* socket to listen.
OpenListener(q) ==
    /\ listening' = [listening EXCEPT ![q] = TRUE]
    /\ UNCHANGED <<backlog, conn>>

\* connect succeeds. It fails, and is tried again, while there is no listener.
Connect(c) ==
    /\ listening[Server(c)]
    /\ backlog' = [backlog EXCEPT ![Server(c)] = Append(@, c)]
    /\ conn' = [conn EXCEPT ![c].state = "waiting"]
    /\ UNCHANGED listening

\* accept and the exchange of ids, of which the client's waits in the stream.
AcceptFirst(q) ==
    /\ backlog[q] # <<>>
    /\ conn' = [conn EXCEPT ![Head(backlog[q])].state = "open"]
    /\ backlog' = [backlog EXCEPT ![q] = Tail(@)]
    /\ UNCHANGED listening

\* close(server_fd).
CloseListener(q) ==
    /\ listening' = [listening EXCEPT ![q] = FALSE]
    /\ conn' = [c \in Conns |-> IF c \in ToSet(backlog[q]) THEN [conn[c] EXCEPT !.state = "reset"] ELSE conn[c]]
    /\ backlog' = [backlog EXCEPT ![q] = <<>>]

\* send, on the stream to the server ("up") or to the client ("down").
Put(c, way, units) ==
    /\ conn' = [conn EXCEPT ![c][way] = @ \o units]
    /\ UNCHANGED <<listening, backlog>>

\* recv: what one call may return, at most limit units.
Receivable(c, way, limit) ==
    {SubSeq(conn[c][way], 1, n) : n \in 1..(IF Len(conn[c][way]) < limit THEN Len(conn[c][way]) ELSE limit)}

Take(c, way, units) ==
    /\ conn' = [conn EXCEPT ![c][way] = SubSeq(@, Len(units) + 1, Len(@))]
    /\ UNCHANGED <<listening, backlog>>

\* recv, send the answer, in one step.
TakeAndPut(c, taken, way, units, answer) ==
    /\ conn' = [conn EXCEPT ![c][taken] = SubSeq(@, Len(units) + 1, Len(@)), ![c][way] = @ \o answer]
    /\ UNCHANGED <<listening, backlog>>
==============================================================================
