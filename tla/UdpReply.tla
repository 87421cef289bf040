------------------------------ MODULE UdpReply ------------------------------
(***************************************************************************)
(* UDP without connections: the server sender                              *)
(* (src/tcp_sim/transport/udp_server_sender.py) replies to whoever sent it *)
(* a datagram, out of a cache with a cap, least-recently-heard eviction    *)
(* and a time to live; a client receiver                                   *)
(* (src/tcp_sim/transport/udp_client_receiver.py) stays in that cache by   *)
(* sending hellos over a network that loses some.  Time is counted in      *)
(* ticks, and the server keeps of time.monotonic() only the age of what it *)
(* heard.  Multicast sends do not look at the cache and are left out.      *)
(***************************************************************************)
EXTENDS Integers, SequencesExt

CONSTANTS
    App,         \* the address of the client receiver
    Senders,     \* other addresses that send datagrams, whenever they like
    MaxEntries,  \* recipient_cache_max_entries
    Ttl,         \* recipient_cache_ttl_seconds, in ticks
    Hello,       \* hello_interval_seconds, in ticks
    Late,        \* ticks by which the sleep of the hello loop may end late
    Transit,     \* ticks a hello may be under way before the server registers it
    MaxLost      \* hellos the network loses in a row, at most

Addresses == Senders \cup {App}

\* What the choice of an interval has to heed: the time to live covers the hellos
\* that may be lost and the one that is not, each with its late wake-up, and the way
\* of the last.  Nothing in the code checks it.  A hello gets there, or is lost,
\* before the next is sent.
ASSUME IntervalAssumption ==
    /\ MaxEntries \in Nat /\ Ttl \in Nat /\ MaxLost \in Nat
    /\ Hello \in Nat \ {0} /\ Late \in Nat /\ Transit \in Nat /\ Transit < Hello
    /\ (MaxLost + 1) * (Hello + Late) + Transit =< Ttl

VARIABLES
    server,   \* off, up, or in stop() waiting for the cleanup task
    cache,    \* _recipient_cache: addresses, the one heard longest ago first
    age,      \* ticks since an address was heard, Ttl + 1 for longer or never
    recency,  \* history: all addresses heard since the start, in that order
    to,       \* history: the recipients of the newest message
    app,      \* off, up, or in stop() waiting for the hello task
    helloIn,  \* ticks the hello task has still to sleep, below 0 when it wakes late
    hello,    \* a hello of the client is under way
    lost,     \* hellos lost since one arrived
    met       \* history: a hello arrived since both are up

vars == <<server, cache, age, recency, to, app, helloIn, hello, lost, met>>

serverVars == <<server, cache, age, recency, to>>
appVars == <<app, helloIn, hello, lost, met>>

Init ==
    /\ server = "off" /\ cache = <<>> /\ recency = <<>> /\ to = {}
    /\ age = [a \in Addresses |-> Ttl + 1]
    /\ app = "off" /\ helloIn = Hello /\ hello = FALSE /\ lost = 0 /\ met = FALSE

\* The socket is open, also while stop() waits.
Open == server \in {"up", "stopping"}

\* The members of s that are in K, in their order: a SelectSeq, written out because
\* the prover has no definition of that one.
Only(s, K) ==
    LET only[n \in 0..Len(s)] ==
            IF n = 0 THEN << >>
            ELSE IF s[n] \in K THEN Append(only[n - 1], s[n]) ELSE only[n - 1]
    IN only[Len(s)]

\* s with a moved, or added, to its end.
ToEnd(s, a) == Append(Only(s, Addresses \ {a}), a)

Newest(s) == SubSeq(s, IF Len(s) > MaxEntries THEN Len(s) - MaxEntries + 1 ELSE 1, Len(s))

-----------------------------------------------------------------------------
RegisterInPlace(a) ==  \* mutant: an address heard again keeps its place
    /\ cache' = (IF Contains(cache, a) THEN cache ELSE Newest(Append(cache, a)))
    /\ recency' = ToEnd(recency, a)
    /\ age' = [age EXCEPT ![a] = 0]

\* register_sender: to the end of the order, and evict from its front.
RegisterSender(a) ==
    /\ cache' = Newest(ToEnd(cache, a))
    /\ recency' = ToEnd(recency, a)
    /\ age' = [age EXCEPT ![a] = 0]

\* What cleanup_expired leaves of the cache.
Unexpired == Only(cache, {a \in Addresses : age[a] =< Ttl})

\* create_datagram_endpoint has bound the port and the cleanup task exists.
ServerStart ==
    /\ server = "off" /\ server' = "up"
    /\ UNCHANGED <<cache, age, recency, to, appVars>>

\* stop() cancels the cleanup task and waits for it.
ServerStop ==
    /\ server = "up" /\ server' = "stopping"
    /\ UNCHANGED <<cache, age, recency, to, appVars>>

\* The rest of stop(): the socket is closed and the cache forgotten.
ServerStopped ==
    /\ server = "stopping" /\ server' = "off"
    /\ cache' = <<>> /\ recency' = <<>> /\ met' = FALSE
    /\ age' = [a \in Addresses |-> Ttl + 1]
    /\ UNCHANGED <<to, app, helloIn, hello, lost>>

\* A turn of _cleanup_loop.
Cleanup ==
    /\ server = "up" /\ cache' = Unexpired
    /\ UNCHANGED <<server, age, recency, to, appVars>>

\* send() to every recipient that has not expired; it raises when not started.
Send ==
    /\ Open /\ cache' = Unexpired /\ to' = ToSet(cache')
    /\ UNCHANGED <<server, age, recency, appVars>>

\* A datagram of somebody else.
Heard(a) ==
    /\ Open /\ RegisterSender(a)
    /\ UNCHANGED <<server, to, appVars>>

\* The receiver starts: it binds its address, says hello and begins the loop.
AppStart ==
    /\ app = "off"
    /\ app' = "up" /\ hello' = TRUE /\ helloIn' = Hello /\ lost' = 0
    /\ UNCHANGED <<serverVars, met>>

\* stop(): no more hellos; then the hello task is joined and the socket closed.
AppStop ==
    /\ app = "up" /\ app' = "stopping" /\ met' = FALSE
    /\ UNCHANGED <<serverVars, helloIn, hello, lost>>

AppStopped ==
    /\ app = "stopping" /\ app' = "off"
    /\ UNCHANGED <<serverVars, helloIn, hello, lost, met>>

HelloOnce ==  \* mutant: the loop sends only when the receiver is fresh from a start
    /\ app = "up" /\ helloIn =< 0 /\ ~hello
    /\ hello' = ~met /\ helloIn' = Hello
    /\ UNCHANGED <<serverVars, app, lost, met>>

\* The sleep of _hello_loop is over.
HelloWakes ==
    /\ app = "up" /\ helloIn =< 0 /\ ~hello
    /\ hello' = TRUE /\ helloIn' = Hello
    /\ UNCHANGED <<serverVars, app, lost, met>>

HelloArrives ==
    /\ hello /\ Open /\ RegisterSender(App)
    /\ hello' = FALSE /\ lost' = 0
    /\ met' = (server = "up" /\ app = "up")
    /\ UNCHANGED <<server, to, app, helloIn>>

\* Nobody listens, or the network loses it, not too often in a row.
HelloLost ==
    /\ hello /\ hello' = FALSE
    /\ \/ ~met /\ UNCHANGED lost
       \/ met /\ lost < MaxLost /\ lost' = lost + 1
    /\ UNCHANGED <<serverVars, app, helloIn, met>>

\* Time passes: a sleep ends at most Late ticks late, and a hello of a receiver that
\* is up has been under way for Hello - helloIn ticks, at most Transit.
Tick ==
    /\ app = "up" => helloIn > -Late /\ (hello => Hello - helloIn < Transit)
    /\ age' = [a \in Addresses |-> IF age[a] > Ttl THEN age[a] ELSE age[a] + 1]
    /\ helloIn' = (IF app = "up" THEN helloIn - 1 ELSE helloIn)
    /\ UNCHANGED <<server, cache, recency, to, app, hello, lost, met>>

Next ==
    \/ ServerStart \/ ServerStop \/ ServerStopped
    \/ Cleanup \/ Send
    \/ \E a \in Senders : Heard(a)
    \/ AppStart \/ AppStop \/ AppStopped
    \/ HelloWakes \/ HelloArrives \/ HelloLost
    \/ Tick

\* The sleep of the hello loop ends, a hello arrives or does not, time passes.
Fairness ==
    /\ WF_vars(HelloWakes) /\ WF_vars(HelloArrives \/ HelloLost) /\ WF_vars(Tick)
    /\ SF_vars(HelloArrives)

Spec == Init /\ [][Next]_vars
FairSpec == Spec /\ Fairness

-----------------------------------------------------------------------------
TypeOK ==
    /\ server \in {"off", "up", "stopping"} /\ app \in {"off", "up", "stopping"}
    /\ cache \in Seq(Addresses) /\ recency \in Seq(Addresses)
    /\ age \in [Addresses -> 0..(Ttl + 1)] /\ to \subseteq Addresses
    /\ helloIn \in (-Late)..Hello /\ lost \in 0..MaxLost /\ hello \in BOOLEAN /\ met \in BOOLEAN

\* The addresses a message is due to: of the MaxEntries heard most recently, those
\* heard within the time to live.
Due == {a \in ToSet(Newest(recency)) : age[a] =< Ttl}

\* A message goes to exactly those it is due to, through any mixture of sweeps,
\* evictions, addresses heard again and restarts: nobody who was heard lately makes
\* way for somebody heard before, nobody past the time to live is served however
\* long ago the cleanup loop ran, and nobody the server knew before it stopped.
SentToTheDue == [][Send => to' = Due]_vars

\* A receiver with a hello loop never gets past its time to live, whatever MaxLost
\* hellos in a row are lost, however late each sleep of the loop ends and however long
\* a hello takes, within Late and Transit: only MaxEntries others heard since its last
\* hello can take it out of the cache.
HelloKeepsFresh == met => age[App] =< Ttl

\* A server that was restarted, or a receiver that was evicted, gets together
\* again: while both stay up the receiver is in the cache again and again.
Reregisters ==
    <>[](server = "up" /\ app = "up") => []<>Contains(cache, App)

=============================================================================
