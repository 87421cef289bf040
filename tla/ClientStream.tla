---------------------------- MODULE ClientStream ----------------------------
(***************************************************************************)
(* What a TCP server promises the clients it broadcasts to, without tasks, *)
(* queues or files: each hears a header first, if there is one, and then   *)
(* every message from the first it was there for to the one at which it is *)
(* cut off.  A broadcast that disconnects a client is interrupted, and     *)
(* goes on later with those that are still due the message.  ServerSender  *)
(* (tcp_server_sender.py) and Streaming (controller.py) implement this     *)
(* module, each with what it knows of a client.                            *)
(***************************************************************************)
EXTENDS Integers, Sequences

CONSTANTS
    Clients,
    WithHeader  \* every client is sent a header on connecting; else it may be

VARIABLES
    sent,   \* the number of the message broadcast last
    open,   \* the clients ready for broadcasts
    due,    \* those still to be given message `sent`
    heard   \* what each was given: 0 for a header, and numbers of messages

streamVars == <<sent, open, due, heard>>

StreamInit ==
    sent = 0 /\ open = {} /\ due = {} /\ heard = [c \in Clients |-> <<>>]

\* Client c connects.  One that comes back under its old address during a
\* broadcast may be found by it.
Join(c) ==
    /\ c \notin open /\ heard[c] = <<>>
    /\ open' = open \cup {c}
    /\ \/ heard' = [heard EXCEPT ![c] = <<0>>]
       \/ ~WithHeader /\ UNCHANGED heard
    /\ due' = due \/ (sent > 0 /\ due' = due \cup {c})
    /\ UNCHANGED sent

\* Some of the clients in `to` are given message n; who is not is given it later,
\* or is cut off.
Deliver(to, n) ==
    \E served \in SUBSET to :
       /\ heard' = [c \in Clients |-> IF c \in served THEN Append(heard[c], n) ELSE heard[c]]
       /\ due' \subseteq to \ served
       /\ open' \subseteq open
       /\ to \cap open' \subseteq served \cup due'

Publish == due = {} /\ sent' = sent + 1 /\ Deliver(open, sent')

Resume == due # {} /\ UNCHANGED sent /\ Deliver(due, sent)

\* Client c is cut off; it may yet be given the message of a broadcast under way.
Leave(c) ==
    /\ open' = open \ {c}
    /\ due' = due \/ due' = due \ {c}
    /\ UNCHANGED <<sent, heard>>

\* The state of a client that was cut off is dropped.
Forget(c) ==
    /\ c \notin open
    /\ heard' = [heard EXCEPT ![c] = <<>>] /\ due' = due \ {c}
    /\ UNCHANGED <<sent, open>>

StreamNext ==
    \/ Publish \/ Resume
    \/ \E c \in Clients : Join(c) \/ Leave(c) \/ Forget(c)

StreamSpec == StreamInit /\ [][StreamNext]_streamVars

-----------------------------------------------------------------------------
\* A client that was not cut off has heard the newest message, unless that is
\* still due to it or it came later, and every client a run of consecutive ones
\* after its header: no gap, no repetition, no reordering.
Contiguous ==
    \A c \in Clients :
       LET s == heard[c]
       IN /\ WithHeader /\ s # <<>> => s[1] = 0
          /\ \A n \in 2..Len(s) : s[n] = s[n - 1] + 1 \/ (s[n - 1] = 0 /\ s[n] > 0)
          /\ c \in open \ due /\ s # <<>> => s[Len(s)] \in {0, sent}

=============================================================================
