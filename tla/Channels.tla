------------------------------ MODULE Channels ------------------------------
(***************************************************************************)
(* What libjmy promises, for one direction of its TCP connections, to the  *)
(* code above it: on each connection the messages accepted from the sender *)
(* reach the receiver in order, each at most once, none that was never     *)
(* sent, and none after the connection has been reported as ended (the     *)
(* DISCONNECT event).  Connections are independent: a step may move        *)
(* several.  TcpServer implements this for both directions, although it    *)
(* reuses connection objects and buffers from one connection to the next.  *)
(***************************************************************************)
EXTENDS Sequences, Naturals

CONSTANTS Id,         \* connections
          Msg         \* messages that may be sent

VARIABLES status,     \* per connection: "new", "open" or "ended"
          sent,       \* per connection: the messages accepted from the sender
          got         \* per connection: the messages handed to the receiver

chans == <<status, sent, got>>

Init ==
    /\ status = [i \in Id |-> "new"]
    /\ sent = [i \in Id |-> <<>>]
    /\ got = [i \in Id |-> <<>>]

Stay(i, f) == f'[i] = f[i]

\* A new connection may be refused: it ends in the step that opens it.
Open(i) == status[i] = "new" /\ status'[i] \in {"open", "ended"} /\ Stay(i, sent) /\ Stay(i, got)

End(i) == status[i] = "open" /\ status'[i] = "ended" /\ Stay(i, sent) /\ Stay(i, got)

\* A sender need not know that the receiver has ended the connection.
Send(i) ==
    /\ status[i] \in {"open", "ended"}
    /\ \E m \in Msg : sent'[i] = Append(sent[i], m)
    /\ Stay(i, status) /\ Stay(i, got)

\* The receiver may reject the message it is given and end the connection.
Deliver(i) ==
    /\ status[i] = "open"
    /\ Len(got[i]) < Len(sent[i])
    /\ got'[i] = Append(got[i], sent[i][Len(got[i]) + 1])
    /\ status'[i] \in {"open", "ended"}
    /\ Stay(i, sent)

Idle(i) == Stay(i, status) /\ Stay(i, sent) /\ Stay(i, got)

Next == \A i \in Id : Open(i) \/ End(i) \/ Send(i) \/ Deliver(i) \/ Idle(i)

Spec == Init /\ [][Next]_chans
=============================================================================
