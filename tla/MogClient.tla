----------------------------- MODULE MogClient -----------------------------
(***************************************************************************)
(* A get of the client library and the way of its request: caller, one of  *)
(* the process's REQ sockets, the server's ROUTER, the proxy, the DEALER,  *)
(* a worker's REP socket, and back.  The server may die and be started     *)
(* again, and so may the process of the client.  A message is one value    *)
(* with its envelope: the identity the ROUTER gave to the connection.      *)
(***************************************************************************)
EXTENDS Naturals, Sequences, FiniteSets

CONSTANTS
    Callers,        \* threads of the client's process that call get
    SOCKETNUM,      \* REQ sockets of that process
    WORKERS,        \* worker threads of the server
    Files,
    Asks,           \* the files each caller may ask for
    MaxDeaths,      \* bound of the model, for both processes together
    None

ASSUME ClientAssumption ==
    /\ SOCKETNUM \in Nat \ {0}
    /\ WORKERS \in Nat \ {0}
    /\ MaxDeaths \in Nat
    /\ Asks \in [Callers -> SUBSET Files]
    /\ None \notin Files

Sockets == 0 .. SOCKETNUM - 1
Workers == 0 .. WORKERS - 1
\* One identity for each connection of a socket of an incarnation of the client.
Identities == Sockets \X (0 .. MaxDeaths)
Messages == [id : Identities, file : Files]

ASSUME MessageAssumption == None \notin Messages

VARIABLES
    pc,               \* callers: where they are in get
    i,                \* callers: the loop's socket
    want,             \* callers: file_name
    data,             \* callers: what the reply was
    a_lock_pool,      \* sockets: flag set?
    receiving_reply,  \* sockets: state of REQ
    request_pipe,     \* sockets: requests not yet taken by the connection
    reply_pipe,       \* sockets: replies not yet received
    router_in,        \* requests of a connection at the ROUTER
    current,          \* the worker whose pipe is next at the DEALER
    worker_in,        \* requests in a worker's pipe
    worker_out,       \* replies in a worker's pipe
    serving,          \* workers: the request between recv and send
    server_deaths, client_deaths,
    up                \* is there a server?

caller == <<pc, i, want, data>>
socket == <<a_lock_pool, receiving_reply, request_pipe, reply_pipe>>
server == <<router_in, current, worker_in, worker_out, serving>>
faults == <<server_deaths, client_deaths, up>>
vars == <<caller, socket, server, faults>>

\* The identity of the connection of socket s, as a ROUTER has it.
Identity(s) == <<s, client_deaths>>

Init ==
    /\ pc = [c \in Callers |-> "idle"]
    /\ i = [c \in Callers |-> 0]
    /\ want = [c \in Callers |-> None]
    /\ data = [c \in Callers |-> None]
    /\ a_lock_pool = [s \in Sockets |-> FALSE]
    /\ receiving_reply = [s \in Sockets |-> FALSE]
    /\ request_pipe = [s \in Sockets |-> <<>>]
    /\ reply_pipe = [s \in Sockets |-> <<>>]
    /\ router_in = [d \in Identities |-> <<>>]
    /\ current = 0
    /\ worker_in = [w \in Workers |-> <<>>]
    /\ worker_out = [w \in Workers |-> <<>>]
    /\ serving = [w \in Workers |-> None]
    /\ server_deaths = 0 /\ client_deaths = 0
    /\ up = TRUE

At(c, here, there) == pc[c] = here /\ pc' = [pc EXCEPT ![c] = there]
-----------------------------------------------------------------------------
(***************************************************************************)
(* mog::get and the REQ socket                                             *)
(***************************************************************************)

Get(c) ==
    /\ At(c, "idle", "scan")
    /\ \E f \in Asks[c] : want' = [want EXCEPT ![c] = f]
    /\ UNCHANGED <<i, data, socket, server, faults>>

\* The flag of the loop's socket is tried; if it was set the next one is.
TestWithoutSet(c) ==
    /\ IF a_lock_pool[i[c]]
       THEN At(c, "scan", "scan") /\ i' = [i EXCEPT ![c] = (@ + 1) % SOCKETNUM]
       ELSE At(c, "scan", "send") /\ UNCHANGED i
    /\ UNCHANGED <<want, data, socket, server, faults>>
TestAndSet(c) ==
    /\ IF a_lock_pool[i[c]]
       THEN /\ At(c, "scan", "scan")
            /\ i' = [i EXCEPT ![c] = (@ + 1) % SOCKETNUM]
            /\ UNCHANGED a_lock_pool
       ELSE /\ At(c, "scan", "send")
            /\ a_lock_pool' = [a_lock_pool EXCEPT ![i[c]] = TRUE]
            /\ UNCHANGED i
    /\ UNCHANGED <<want, data, receiving_reply, request_pipe, reply_pipe, server, faults>>

\* REQ throws when it is sent a request before the last one was answered, or
\* asked for a reply before a request.
Throw(c, here) ==
    /\ At(c, here, "thrown")
    /\ UNCHANGED <<i, want, data, socket, server, faults>>

\* Replies that have come too late are dropped before a request is complete.
Send(c) ==
    LET s == i[c] IN
    IF receiving_reply[s] THEN Throw(c, "send")
    ELSE /\ At(c, "send", "recv")
         /\ receiving_reply' = [receiving_reply EXCEPT ![s] = TRUE]
         /\ reply_pipe' = [reply_pipe EXCEPT ![s] = <<>>]
         /\ request_pipe' = [request_pipe EXCEPT ![s] = Append(@, want[c])]
         /\ UNCHANGED <<i, want, data, a_lock_pool, server, faults>>

Recv(c) ==
    LET s == i[c] IN
    IF receiving_reply[s]
    THEN /\ reply_pipe[s] # <<>>
         /\ At(c, "recv", "clear")
         /\ data' = [data EXCEPT ![c] = Head(reply_pipe[s])]
         /\ reply_pipe' = [reply_pipe EXCEPT ![s] = Tail(@)]
         /\ receiving_reply' = [receiving_reply EXCEPT ![s] = FALSE]
         /\ UNCHANGED <<i, want, a_lock_pool, request_pipe, server, faults>>
    ELSE Throw(c, "recv")

\* The call returns, and with it its variables go.
Clear(c) ==
    /\ At(c, "clear", "idle")
    /\ a_lock_pool' = [a_lock_pool EXCEPT ![i[c]] = FALSE]
    /\ i' = [i EXCEPT ![c] = 0]
    /\ want' = [want EXCEPT ![c] = None]
    /\ data' = [data EXCEPT ![c] = None]
    /\ UNCHANGED <<receiving_reply, request_pipe, reply_pipe, server, faults>>
-----------------------------------------------------------------------------
(***************************************************************************)
(* The connection and the server                                           *)
(***************************************************************************)

\* The connection takes a request out of the socket's pipe to the ROUTER.
Transfer(s) ==
    /\ up /\ request_pipe[s] # <<>>
    /\ router_in' = [router_in EXCEPT ![Identity(s)] = Append(@, Head(request_pipe[s]))]
    /\ request_pipe' = [request_pipe EXCEPT ![s] = Tail(@)]
    /\ UNCHANGED <<caller, a_lock_pool, receiving_reply, reply_pipe,
                   current, worker_in, worker_out, serving, faults>>

\* The proxy gives a request, with the identity in front, to the workers in
\* turn, whether they are busy or not.
ForwardRequest(d) ==
    /\ router_in[d] # <<>>
    /\ router_in' = [router_in EXCEPT ![d] = Tail(@)]
    /\ worker_in' = [worker_in EXCEPT ![current] =
                        Append(@, [id |-> d, file |-> Head(router_in[d])])]
    /\ current' = (current + 1) % WORKERS
    /\ UNCHANGED <<caller, socket, worker_out, serving, faults>>

\* REP keeps the envelope of the request until the reply.
Receive(w) ==
    /\ serving[w] = None
    /\ worker_in[w] # <<>>
    /\ serving' = [serving EXCEPT ![w] = Head(worker_in[w])]
    /\ worker_in' = [worker_in EXCEPT ![w] = Tail(@)]
    /\ UNCHANGED <<caller, socket, router_in, current, worker_out, faults>>

\* The reply to a request, the file of that name, is sent.
ReplyForgotten(w) ==
    /\ serving[w] # None
    /\ serving' = [serving EXCEPT ![w] = None]
    /\ UNCHANGED <<caller, socket, router_in, current, worker_in, worker_out, faults>>
Reply(w) ==
    /\ serving[w] # None
    /\ worker_out' = [worker_out EXCEPT ![w] = Append(@, serving[w])]
    /\ serving' = [serving EXCEPT ![w] = None]
    /\ UNCHANGED <<caller, socket, router_in, current, worker_in, faults>>

\* The proxy gives a reply to the connection with the identity in front of it;
\* if there is none any more it is dropped.
ForwardToSocket(w) ==
    LET m == Head(worker_out[w]) IN
    /\ worker_out[w] # <<>>
    /\ worker_out' = [worker_out EXCEPT ![w] = Tail(@)]
    /\ reply_pipe' = [reply_pipe EXCEPT ![m.id[1]] = Append(@, m.file)]
    /\ UNCHANGED <<caller, a_lock_pool, receiving_reply, request_pipe,
                   router_in, current, worker_in, serving, faults>>
ForwardReply(w) ==
    LET m == Head(worker_out[w])
        s == m.id[1]
    IN /\ worker_out[w] # <<>>
       /\ worker_out' = [worker_out EXCEPT ![w] = Tail(@)]
       /\ reply_pipe' = IF m.id = Identity(s)
                        THEN [reply_pipe EXCEPT ![s] = Append(@, m.file)]
                        ELSE reply_pipe
       /\ UNCHANGED <<caller, a_lock_pool, receiving_reply, request_pipe,
                      router_in, current, worker_in, serving, faults>>
-----------------------------------------------------------------------------
(***************************************************************************)
(* Deaths                                                                  *)
(***************************************************************************)

\* With the server (LOG(FATAL), an exception, a kill) goes what it has of the
\* messages; requests that are still in the client wait for the next one.
ServerDies ==
    /\ up /\ server_deaths + client_deaths < MaxDeaths
    /\ up' = FALSE
    /\ server_deaths' = server_deaths + 1
    /\ router_in' = [d \in Identities |-> <<>>]
    /\ current' = 0
    /\ worker_in' = [w \in Workers |-> <<>>]
    /\ worker_out' = [w \in Workers |-> <<>>]
    /\ serving' = [w \in Workers |-> None]
    /\ UNCHANGED <<caller, socket, client_deaths>>

ServerStarts ==
    /\ ~up /\ up' = TRUE
    /\ UNCHANGED <<caller, socket, server, server_deaths, client_deaths>>

\* A new process has new sockets, whose connections get other identities.
ClientDies ==
    /\ server_deaths + client_deaths < MaxDeaths
    /\ client_deaths' = client_deaths + 1
    /\ pc' = [c \in Callers |-> "idle"]
    /\ i' = [c \in Callers |-> 0]
    /\ want' = [c \in Callers |-> None]
    /\ data' = [c \in Callers |-> None]
    /\ a_lock_pool' = [s \in Sockets |-> FALSE]
    /\ receiving_reply' = [s \in Sockets |-> FALSE]
    /\ request_pipe' = [s \in Sockets |-> <<>>]
    /\ reply_pipe' = [s \in Sockets |-> <<>>]
    /\ UNCHANGED <<server, server_deaths, up>>

Call(c) == TestAndSet(c) \/ Send(c) \/ Recv(c) \/ Clear(c)
Serve(w) == Receive(w) \/ Reply(w)

Next ==
    \/ \E c \in Callers : Get(c) \/ Call(c)
    \/ \E s \in Sockets : Transfer(s)
    \/ \E d \in Identities : ForwardRequest(d)
    \/ \E w \in Workers : Serve(w) \/ ForwardReply(w)
    \/ ServerDies \/ ServerStarts \/ ClientDies

Spec == Init /\ [][Next]_vars

\* Threads run, connections are made and both of the proxy's sides queue
\* fairly.  Nobody has to call get, and nothing has to die.
FairSpec ==
    /\ Spec
    /\ \A c \in Callers : WF_vars(Call(c))
    /\ \A s \in Sockets : WF_vars(Transfer(s))
    /\ \A d \in Identities : WF_vars(ForwardRequest(d))
    /\ \A w \in Workers : WF_vars(Serve(w)) /\ WF_vars(ForwardReply(w))
    /\ WF_vars(ServerStarts)
-----------------------------------------------------------------------------
(***************************************************************************)
(* Properties                                                              *)
(***************************************************************************)

\* Types of the variables.
TypeOK ==
    /\ pc \in [Callers -> {"idle", "scan", "send", "recv", "clear", "thrown"}]
    /\ i \in [Callers -> Sockets]
    /\ want \in [Callers -> Files \cup {None}]
    /\ data \in [Callers -> Files \cup {None}]
    /\ a_lock_pool \in [Sockets -> BOOLEAN]
    /\ receiving_reply \in [Sockets -> BOOLEAN]
    /\ request_pipe \in [Sockets -> Seq(Files)]
    /\ reply_pipe \in [Sockets -> Seq(Files)]
    /\ router_in \in [Identities -> Seq(Files)]
    /\ current \in Workers
    /\ worker_in \in [Workers -> Seq(Messages)]
    /\ worker_out \in [Workers -> Seq(Messages)]
    /\ serving \in [Workers -> Messages \cup {None}]
    /\ server_deaths \in Nat /\ client_deaths \in 0 .. MaxDeaths
    /\ up \in BOOLEAN

\* The atomic flags are all that keeps callers from each other's socket, which
\* is not thread-safe and refuses a second request: at most one caller uses a
\* socket, and no send or recv throws, also after deaths of the server.
SocketPrivate ==
    /\ \A c, d \in Callers :
        pc[c] \in {"send", "recv", "clear"} /\ pc[d] \in {"send", "recv", "clear"}
            /\ i[c] = i[d] => c = d
    /\ \A c \in Callers : pc[c] # "thrown"

\* What get returns is the file it was called for, although requests of several
\* callers are mixed on the way, are overtaken, and outlive their callers.
ReplyIsForRequest == \A c \in Callers : pc[c] = "clear" => data[c] = want[c]

\* A caller that has a socket returns and gives it back, unless a server has
\* died: REQ does not send again, and the caller then waits for ever.
SocketsComeFree ==
    \A s \in Sockets : a_lock_pool[s] ~> ~a_lock_pool[s] \/ server_deaths > 0
=============================================================================
