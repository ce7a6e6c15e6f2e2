--------------------------- MODULE MogClientProofs ---------------------------
(***************************************************************************)
(* Proofs about MogClient, for any number of callers, sockets, workers and *)
(* deaths: sockets have one user, and a get returns the file it asked for. *)
(***************************************************************************)
EXTENDS MogClient, TLAPS

\* Pipe p has a message of identity d; it has no two.
Has(p, d) == \E n \in DOMAIN p : p[n].id = d
Once(p, d) == \A m, n \in DOMAIN p : p[m].id = d /\ p[n].id = d => m = n
\* Its messages of identity d are requests for, or replies with, file f.
Only(p, d, f) == \A n \in DOMAIN p : p[n].id = d => p[n].file = f

Busy(w, d) == serving[w] # None /\ serving[w].id = d

\* The six places where a request of socket s, or its reply, can be.
InRequest(s) == request_pipe[s] # <<>>
InRouter(s)  == router_in[Identity(s)] # <<>>
InWorker(s)  == \E w \in Workers : Has(worker_in[w], Identity(s))
InServing(s) == \E w \in Workers : Busy(w, Identity(s))
InOut(s)     == \E w \in Workers : Has(worker_out[w], Identity(s))
InReply(s)   == reply_pipe[s] # <<>>

\* It is in one of them at most.
OnePlace(s) ==
    /\ InRequest(s) => ~(InRouter(s) \/ InWorker(s) \/ InServing(s) \/ InOut(s) \/ InReply(s))
    /\ InRouter(s)  => ~(InWorker(s) \/ InServing(s) \/ InOut(s) \/ InReply(s))
    /\ InWorker(s)  => ~(InServing(s) \/ InOut(s) \/ InReply(s))
    /\ InServing(s) => ~(InOut(s) \/ InReply(s))
    /\ InOut(s)     => ~InReply(s)

\* And there it is once.
OnceThere(s) ==
    /\ Len(request_pipe[s]) <= 1 /\ Len(router_in[Identity(s)]) <= 1 /\ Len(reply_pipe[s]) <= 1
    /\ \A w \in Workers : Once(worker_in[w], Identity(s)) /\ Once(worker_out[w], Identity(s))
    /\ \A v, w \in Workers : v # w =>
        /\ ~(Has(worker_in[v], Identity(s)) /\ Has(worker_in[w], Identity(s)))
        /\ ~(Busy(v, Identity(s)) /\ Busy(w, Identity(s)))
        /\ ~(Has(worker_out[v], Identity(s)) /\ Has(worker_out[w], Identity(s)))

\* Only a socket that waits for a reply has a message on the way.
Awaited(s) ==
    InRequest(s) \/ InRouter(s) \/ InWorker(s) \/ InServing(s) \/ InOut(s) \/ InReply(s)
        => receiving_reply[s]

\* The message of socket s names file f.
Names(s, f) ==
    /\ InRequest(s) => Head(request_pipe[s]) = f
    /\ InRouter(s) => Head(router_in[Identity(s)]) = f
    /\ \A w \in Workers :
        /\ Only(worker_in[w], Identity(s), f)
        /\ Busy(w, Identity(s)) => serving[w].file = f
        /\ Only(worker_out[w], Identity(s), f)
    /\ InReply(s) => Head(reply_pipe[s]) = f

Messaging == \A s \in Sockets : OnePlace(s) /\ OnceThere(s) /\ Awaited(s)
RightFile == \A c \in Callers : pc[c] = "recv" => Names(i[c], want[c])

\* Identities of incarnations to come are on no message.
Unborn ==
    \A d \in Identities : d[2] > client_deaths =>
        /\ router_in[d] = <<>>
        /\ \A w \in Workers : ~Has(worker_in[w], d) /\ ~Busy(w, d) /\ ~Has(worker_out[w], d)

\* What a caller that has a socket knows of it.
Held ==
    /\ \A c \in Callers :
        /\ pc[c] # "idle" => want[c] \in Files
        /\ pc[c] \in {"send", "recv", "clear"} => a_lock_pool[i[c]]
        /\ pc[c] \in {"send", "clear"} => ~receiving_reply[i[c]]
        /\ pc[c] = "recv" => receiving_reply[i[c]]
    /\ \A s \in Sockets : receiving_reply[s] => \E c \in Callers : pc[c] = "recv" /\ i[c] = s

IInv == TypeOK /\ SocketPrivate /\ Held /\ Messaging /\ Unborn /\ RightFile /\ ReplyIsForRequest
-----------------------------------------------------------------------------
(***************************************************************************)
(* Pipes                                                                   *)
(***************************************************************************)

\* A message is added at the end of a pipe.
LEMMA AppendFacts ==
    ASSUME NEW p \in Seq(Messages), NEW m \in Messages, NEW d
    PROVE  /\ Append(p, m) \in Seq(Messages)
           /\ Has(Append(p, m), d) <=> Has(p, d) \/ m.id = d
           /\ Once(p, d) /\ ~(Has(p, d) /\ m.id = d) => Once(Append(p, m), d)
           /\ \A f : Only(p, d, f) /\ (m.id = d => m.file = f) => Only(Append(p, m), d, f)
<1> DEFINE q == Append(p, m)
<1>1. /\ q \in Seq(Messages)
      /\ DOMAIN p = 1 .. Len(p) /\ DOMAIN q = 1 .. Len(p) + 1 /\ Len(p) \in Nat
      /\ \A n \in 1 .. Len(p) : q[n] = p[n]
      /\ q[Len(p) + 1] = m
  OBVIOUS
<1> HIDE DEF q
<1>2. Has(q, d) <=> Has(p, d) \/ m.id = d
  BY <1>1, SMT DEF Has
<1>3. Once(p, d) /\ ~(Has(p, d) /\ m.id = d) => Once(q, d)
  BY <1>1, SMT DEF Has, Once
<1>4. \A f : Only(p, d, f) /\ (m.id = d => m.file = f) => Only(q, d, f)
  BY <1>1, SMT DEF Only
<1> QED
  BY <1>1, <1>2, <1>3, <1>4 DEF q

\* A message is taken from its front.
LEMMA TailFacts ==
    ASSUME NEW p \in Seq(Messages), p # <<>>, NEW d
    PROVE  /\ Head(p) \in Messages /\ Tail(p) \in Seq(Messages)
           /\ Has(p, d) <=> Head(p).id = d \/ Has(Tail(p), d)
           /\ Once(p, d) => Once(Tail(p), d) /\ ~(Head(p).id = d /\ Has(Tail(p), d))
           /\ \A f : Only(p, d, f) => Only(Tail(p), d, f) /\ (Head(p).id = d => Head(p).file = f)
<1> DEFINE q == Tail(p)
           h == Head(p)
<1>1. /\ q \in Seq(Messages) /\ h \in Messages
      /\ Len(p) \in Nat \ {0} /\ DOMAIN p = 1 .. Len(p) /\ DOMAIN q = 1 .. Len(p) - 1
      /\ h = p[1]
      /\ \A n \in 1 .. Len(p) - 1 : q[n] = p[n + 1]
  OBVIOUS
<1> HIDE DEF q, h
<1>2. \A n \in DOMAIN p : n = 1 \/ (n - 1 \in DOMAIN q /\ q[n - 1] = p[n])
  BY <1>1, SMT
<1>3. \A n \in DOMAIN q : n + 1 \in DOMAIN p /\ n + 1 # 1 /\ p[n + 1] = q[n]
  BY <1>1, SMT
<1>4. 1 \in DOMAIN p /\ p[1] = h
  BY <1>1, SMT
<1>5. Has(p, d) <=> h.id = d \/ Has(q, d)
  <2>1. ASSUME NEW n \in DOMAIN p, p[n].id = d PROVE h.id = d \/ Has(q, d)
    BY <1>2, <1>4, <2>1 DEF Has
  <2>2. h.id = d => Has(p, d)
    BY <1>4 DEF Has
  <2>3. ASSUME NEW n \in DOMAIN q, q[n].id = d PROVE Has(p, d)
    BY <1>3, <2>3 DEF Has
  <2> QED
    BY <2>1, <2>2, <2>3 DEF Has
<1>6. Once(p, d) => ~(h.id = d /\ Has(q, d))
  BY <1>3, <1>4, Zenon DEF Has, Once
<1>7. Once(p, d) => Once(q, d)
  <2> SUFFICES ASSUME Once(p, d), NEW m \in DOMAIN q, NEW n \in DOMAIN q, q[m].id = d, q[n].id = d
               PROVE  m = n
    BY DEF Once
  <2>1. m + 1 = n + 1
    BY <1>3 DEF Once
  <2> QED
    BY <1>1, <2>1, SMT
<1>8. \A f : Only(p, d, f) => Only(q, d, f) /\ (h.id = d => h.file = f)
  BY <1>1, SMT DEF Only
<1> QED
  BY <1>1, <1>5, <1>6, <1>7, <1>8 DEF q, h

\* A pipe of one message has none when it is taken.
LEMMA OnlyOne ==
    ASSUME NEW S, NEW p \in Seq(S), p # <<>>
    PROVE  Head(p) \in S /\ Tail(p) \in Seq(S) /\ (Len(p) <= 1 => Tail(p) = <<>>)
OBVIOUS

\* The first message of a pipe.
LEMMA FirstOne ==
    ASSUME NEW S, NEW x \in S
    PROVE  Append(<<>>, x) = <<x>> /\ <<x>> # <<>> /\ Len(<<x>>) = 1 /\ Head(<<x>>) = x
           /\ <<x>> \in Seq(S)
OBVIOUS

\* Nothing is in an empty pipe.
LEMMA EmptyPipe ==
    ASSUME NEW d
    PROVE  ~Has(<<>>, d) /\ Once(<<>>, d) /\ (\A f : Only(<<>>, d, f)) /\ Len(<<>>) = 0
BY DEF Has, Once, Only

\* Of a pipe without messages of an identity all may be said.
LEMMA Absent == ASSUME NEW p, NEW d, ~Has(p, d) PROVE Once(p, d) /\ \A f : Only(p, d, f)
BY DEF Has, Once, Only

\* Identities.
LEMMA IdentityFacts ==
    ASSUME TypeOK, NEW s \in Sockets
    PROVE  /\ Identity(s) \in Identities /\ Identity(s)[1] = s /\ Identity(s)[2] = client_deaths
           /\ \A t \in Sockets : Identity(t) = Identity(s) => t = s
           /\ \A d \in Identities : d[2] = client_deaths /\ d[1] = s => d = Identity(s)
BY DEF Identity, Identities, TypeOK
-----------------------------------------------------------------------------
(***************************************************************************)
(* Types                                                                   *)
(***************************************************************************)

\* Circular counters.
LEMMA Circular == ASSUME NEW n \in Nat \ {0}, NEW a \in 0 .. n - 1 PROVE (a + 1) % n \in 0 .. n - 1
BY SMT

\* At the start.
LEMMA InitType == Init => TypeOK
<1> SUFFICES ASSUME Init PROVE TypeOK
  OBVIOUS
<1>1. 0 \in Sockets /\ 0 \in Workers /\ 0 \in 0 .. MaxDeaths /\ <<>> \in Seq(Files) /\ <<>> \in Seq(Messages)
  BY ClientAssumption DEF Sockets, Workers
<1> QED
  BY <1>1 DEF Init, TypeOK

\* A caller that sends or receives has REQ in the state for it: it does not throw.
LEMMA NotRefused ==
    ASSUME IInv, NEW c \in Callers
    PROVE  /\ Send(c) => pc[c] = "send" /\ ~receiving_reply[i[c]]
           /\ Recv(c) => pc[c] = "recv" /\ receiving_reply[i[c]]
<1>1. Send(c) => pc[c] = "send"
  BY DEF Send, Throw, At
<1>2. Recv(c) => pc[c] = "recv"
  BY DEF Recv, Throw, At
<1> QED
  BY <1>1, <1>2 DEF IInv, Held

\* Of callers.
LEMMA CallType ==
    ASSUME IInv, NEW c \in Callers, Get(c) \/ Call(c)
    PROVE  TypeOK'
<1> USE DEF IInv, TypeOK, At, caller, socket, server, faults
<1>1. CASE Get(c)
  <2>1. PICK f \in Asks[c] : want' = [want EXCEPT ![c] = f]
    BY <1>1 DEF Get
  <2>2. f \in Files
    BY ClientAssumption
  <2> QED
    BY <1>1, <2>1, <2>2 DEF Get
<1>2. CASE TestAndSet(c)
  <2>1. (i[c] + 1) % SOCKETNUM \in Sockets
    BY ClientAssumption, Circular DEF Sockets
  <2> QED
    BY <1>2, <2>1 DEF TestAndSet
<1>3. CASE Send(c)
  <2>1. pc[c] = "send" /\ ~receiving_reply[i[c]]
    BY <1>3, NotRefused
  <2>2. i[c] \in Sockets /\ <<>> \in Seq(Files) /\ Append(request_pipe[i[c]], want[c]) \in Seq(Files)
    BY <2>1 DEF Held
  <2> QED
    BY <1>3, <2>1, <2>2 DEF Send
<1>4. CASE Recv(c)
  <2>1. receiving_reply[i[c]]
    BY <1>4, NotRefused
  <2>2. i[c] \in Sockets /\ Head(reply_pipe[i[c]]) \in Files /\ Tail(reply_pipe[i[c]]) \in Seq(Files)
    BY <1>4, <2>1, OnlyOne DEF Recv
  <2> QED
    BY <1>4, <2>1, <2>2 DEF Recv
<1>5. CASE Clear(c)
  <2>1. 0 \in Sockets
    BY ClientAssumption DEF Sockets
  <2> QED
    BY <1>5, <2>1 DEF Clear
<1> QED
  BY <1>1, <1>2, <1>3, <1>4, <1>5 DEF Call


\* Of connections, workers and deaths.
LEMMA ServerType ==
    ASSUME IInv, \/ \E s \in Sockets : Transfer(s)
                 \/ \E d \in Identities : ForwardRequest(d)
                 \/ \E w \in Workers : Serve(w) \/ ForwardReply(w)
                 \/ ServerDies \/ ServerStarts \/ ClientDies
    PROVE  TypeOK'
<1> USE DEF IInv, TypeOK, caller, socket, server, faults
<1>1. ASSUME NEW s \in Sockets, Transfer(s) PROVE TypeOK'
  <2>1. Head(request_pipe[s]) \in Files /\ Tail(request_pipe[s]) \in Seq(Files)
    BY <1>1, OnlyOne DEF Transfer
  <2>2. /\ Identity(s) \in Identities
        /\ Append(router_in[Identity(s)], Head(request_pipe[s])) \in Seq(Files)
    BY <2>1, IdentityFacts
  <2> QED
    BY <1>1, <2>1, <2>2 DEF Transfer
<1>2. ASSUME NEW d \in Identities, ForwardRequest(d) PROVE TypeOK'
  <2>1. Head(router_in[d]) \in Files /\ Tail(router_in[d]) \in Seq(Files)
    BY <1>2, OnlyOne DEF ForwardRequest
  <2>2. Append(worker_in[current], [id |-> d, file |-> Head(router_in[d])]) \in Seq(Messages)
    <3>1. [id |-> d, file |-> Head(router_in[d])] \in Messages
      BY <2>1 DEF Messages
    <3> QED
      BY <3>1, AppendFacts
  <2>3. (current + 1) % WORKERS \in Workers
    BY ClientAssumption, Circular DEF Workers
  <2> QED
    BY <1>2, <2>1, <2>2, <2>3 DEF ForwardRequest
<1>3. ASSUME NEW w \in Workers, Receive(w) PROVE TypeOK'
  <2>1. Head(worker_in[w]) \in Messages /\ Tail(worker_in[w]) \in Seq(Messages)
    BY <1>3, TailFacts DEF Receive
  <2> QED
    BY <1>3, <2>1 DEF Receive
<1>4. ASSUME NEW w \in Workers, Reply(w) PROVE TypeOK'
  <2>1. Append(worker_out[w], serving[w]) \in Seq(Messages)
    BY <1>4, AppendFacts DEF Reply
  <2> QED
    BY <1>4, <2>1 DEF Reply
<1>5. ASSUME NEW w \in Workers, ForwardReply(w) PROVE TypeOK'
  <2> DEFINE m == Head(worker_out[w])
  <2>1. m \in Messages /\ Tail(worker_out[w]) \in Seq(Messages)
    BY <1>5, TailFacts DEF ForwardReply
  <2>2. m.id[1] \in Sockets /\ m.file \in Files
    BY <2>1 DEF Messages, Identities
  <2>3. Append(reply_pipe[m.id[1]], m.file) \in Seq(Files)
    BY <2>2
  <2> HIDE DEF m
  <2>4. reply_pipe' \in [Sockets -> Seq(Files)]
    BY <1>5, <2>2, <2>3 DEF ForwardReply, m
  <2> QED
    BY <1>5, <2>1, <2>4 DEF ForwardReply
<1>6. CASE ServerDies
  <2>1. 0 \in Workers /\ <<>> \in Seq(Files) /\ <<>> \in Seq(Messages)
    BY ClientAssumption DEF Workers
  <2>2. /\ router_in' \in [Identities -> Seq(Files)] /\ current' \in Workers
        /\ worker_in' \in [Workers -> Seq(Messages)] /\ worker_out' \in [Workers -> Seq(Messages)]
        /\ serving' \in [Workers -> Messages \cup {None}]
    BY <1>6, <2>1 DEF ServerDies
  <2>3. server_deaths' = server_deaths + 1 /\ up' = FALSE
    BY <1>6 DEF ServerDies
  <2>4. UNCHANGED <<caller, socket, client_deaths>>
    BY <1>6 DEF ServerDies
  <2>5. server_deaths' \in Nat
    BY <2>3
  <2> QED
    BY <2>2, <2>3, <2>4, <2>5
<1>7. CASE ServerStarts
  BY <1>7 DEF ServerStarts
<1>8. CASE ClientDies
  <2>1. 0 \in Sockets /\ <<>> \in Seq(Files)
    BY ClientAssumption DEF Sockets
  <2>2. client_deaths' \in 0 .. MaxDeaths
    BY <1>8, ClientAssumption, SMT DEF ClientDies
  <2>3. /\ pc' \in [Callers -> {"idle", "scan", "send", "recv", "clear", "thrown"}]
        /\ i' \in [Callers -> Sockets]
        /\ want' \in [Callers -> Files \cup {None}] /\ data' \in [Callers -> Files \cup {None}]
    BY <1>8, <2>1 DEF ClientDies
  <2>4. /\ a_lock_pool' \in [Sockets -> BOOLEAN] /\ receiving_reply' \in [Sockets -> BOOLEAN]
        /\ request_pipe' \in [Sockets -> Seq(Files)] /\ reply_pipe' \in [Sockets -> Seq(Files)]
    BY <1>8, <2>1 DEF ClientDies
  <2>5. UNCHANGED <<server, server_deaths, up>>
    BY <1>8 DEF ClientDies
  <2> QED
    BY <2>2, <2>3, <2>4, <2>5
<1> QED
  BY <1>1, <1>2, <1>3, <1>4, <1>5, <1>6, <1>7, <1>8 DEF Serve

-----------------------------------------------------------------------------
(***************************************************************************)
(* Callers and sockets                                                     *)
(***************************************************************************)

\* A caller's steps keep it alone with its socket, and no call is refused.
LEMMA CallPrivate ==
    ASSUME IInv, NEW c \in Callers, Get(c) \/ Call(c)
    PROVE  SocketPrivate' /\ Held' /\ ReplyIsForRequest'
<1> USE DEF IInv, TypeOK, SocketPrivate, Held, ReplyIsForRequest, At, caller, socket
<1>1. CASE Get(c)
  <2>1. PICK f \in Asks[c] : want' = [want EXCEPT ![c] = f]
    BY <1>1 DEF Get
  <2>2. f \in Files
    BY ClientAssumption
  <2> QED
    BY <1>1, <2>1, <2>2, SMT DEF Get
<1>2. CASE TestAndSet(c)
  <2>1. CASE a_lock_pool[i[c]]
    <3>1. /\ pc[c] = "scan" /\ pc' = [pc EXCEPT ![c] = "scan"]
          /\ i' = [i EXCEPT ![c] = (@ + 1) % SOCKETNUM]
          /\ UNCHANGED <<a_lock_pool, want, data, receiving_reply>>
      BY <1>2, <2>1 DEF TestAndSet
    <3>2. \A d \in Callers : pc'[d] = pc[d] /\ (d # c => i'[d] = i[d])
      BY <3>1
    <3>3. SocketPrivate'
      BY <3>1, <3>2
    <3>4. Held' /\ ReplyIsForRequest'
      BY <3>1, <3>2
    <3> QED
      BY <3>3, <3>4
  <2>2. CASE ~a_lock_pool[i[c]]
    <3>1. /\ pc[c] = "scan" /\ pc' = [pc EXCEPT ![c] = "send"]
          /\ a_lock_pool' = [a_lock_pool EXCEPT ![i[c]] = TRUE]
          /\ UNCHANGED <<i, want, data, receiving_reply>>
      BY <1>2, <2>2 DEF TestAndSet
    <3>2. ~receiving_reply[i[c]] /\ \A d \in Callers : pc[d] \in {"send", "recv", "clear"} => i[d] # i[c]
      BY <2>2
    <3>3. SocketPrivate'
      BY <3>1, <3>2
    <3>4. Held'
      BY <3>1, <3>2, SMT
    <3> QED
      BY <3>1, <3>3, <3>4
  <2> QED
    BY <2>1, <2>2
<1>3. CASE Send(c)
  <2>1. pc[c] = "send" /\ ~receiving_reply[i[c]]
    BY <1>3, NotRefused
  <2>2. /\ pc' = [pc EXCEPT ![c] = "recv"]
        /\ receiving_reply' = [receiving_reply EXCEPT ![i[c]] = TRUE]
        /\ UNCHANGED <<i, want, data, a_lock_pool>>
    BY <1>3, <2>1 DEF Send
  <2>3. SocketPrivate'
    BY <2>1, <2>2
  <2>4. Held'
    BY <2>1, <2>2, SMT
  <2> QED
    BY <2>1, <2>2, <2>3, <2>4
<1>4. CASE Recv(c)
  <2>1. pc[c] = "recv" /\ receiving_reply[i[c]]
    BY <1>4, NotRefused
  <2>2. Head(reply_pipe[i[c]]) = want[c]
    BY <1>4, <2>1 DEF Recv, RightFile, Names, InReply
  <2>3. /\ pc' = [pc EXCEPT ![c] = "clear"]
        /\ data' = [data EXCEPT ![c] = want[c]]
        /\ receiving_reply' = [receiving_reply EXCEPT ![i[c]] = FALSE]
        /\ UNCHANGED <<i, want, a_lock_pool>>
    BY <1>4, <2>1, <2>2 DEF Recv
  <2>4. SocketPrivate'
    BY <2>1, <2>3
  <2>5. Held'
    BY <2>1, <2>3, SMT
  <2>6. ReplyIsForRequest'
    BY <2>1, <2>3
  <2> QED
    BY <2>4, <2>5, <2>6
<1>5. CASE Clear(c)
  BY <1>5, SMT DEF Clear
<1> QED
  BY <1>1, <1>2, <1>3, <1>4, <1>5 DEF Call

\* The other steps leave callers and flags alone; a death of the client ends
\* them all.
LEMMA OtherPrivate ==
    ASSUME IInv, \/ UNCHANGED <<caller, a_lock_pool, receiving_reply>>
                 \/ ClientDies
    PROVE  SocketPrivate' /\ Held' /\ ReplyIsForRequest'
<1> USE DEF IInv, TypeOK, SocketPrivate, Held, ReplyIsForRequest, caller, socket
<1>1. CASE UNCHANGED <<caller, a_lock_pool, receiving_reply>>
  BY <1>1
<1>2. CASE ClientDies
  BY <1>2 DEF ClientDies
<1> QED
  BY <1>1, <1>2

-----------------------------------------------------------------------------
(***************************************************************************)
(* Messages                                                                *)
(***************************************************************************)

\* Steps of callers that send and receive nothing.
LEMMA QuietMessages ==
    ASSUME IInv, NEW c \in Callers, Get(c) \/ TestAndSet(c) \/ Clear(c)
    PROVE  Messaging' /\ RightFile' /\ Unborn'
<1> USE DEF IInv, TypeOK, At, caller, socket, server, faults, Get, TestAndSet, Clear
<1>1. /\ UNCHANGED <<receiving_reply, request_pipe, reply_pipe, server, client_deaths>>
      /\ \A e \in Callers : pc'[e] = "recv" => pc[e] = "recv" /\ i'[e] = i[e] /\ want'[e] = want[e]
  BY SMT
<1>2. Messaging'
  <2>1. ASSUME NEW s \in Sockets PROVE OnePlace(s)' /\ OnceThere(s)' /\ Awaited(s)'
    <3>1. OnePlace(s) /\ OnceThere(s) /\ Awaited(s)
      BY DEF Messaging
    <3> QED
      BY <1>1, <3>1 DEF OnePlace, OnceThere, Awaited, InRequest, InRouter, InWorker, InServing,
        InOut, InReply, Identity, Busy
  <2> QED
    BY <2>1 DEF Messaging
<1>5. Unborn'
  BY <1>1 DEF Unborn, Busy
<1>3. \A s \in Sockets, f \in Files : Names(s, f) => Names(s, f)'
  BY <1>1 DEF Names, InRequest, InRouter, InReply, Identity, Busy
<1>4. RightFile'
  BY <1>1, <1>3 DEF RightFile, Held
<1> QED
  BY <1>2, <1>4, <1>5

\* A request enters the socket's pipe, and nothing else of it is on the way.
LEMMA SendMessages ==
    ASSUME IInv, NEW c \in Callers, Send(c)
    PROVE  Messaging' /\ RightFile' /\ Unborn'
<1> USE DEF IInv, TypeOK
<1>s. PICK s \in Sockets : s = i[c]
  OBVIOUS
<1>0. pc[c] = "send" /\ ~receiving_reply[i[c]]
  BY NotRefused
<1>f. PICK f \in Files : f = want[c]
  BY <1>0 DEF Held
<1>1. /\ pc[c] = "send" /\ ~receiving_reply[s]
      /\ UNCHANGED <<server, client_deaths, i, want>>
      /\ pc' = [pc EXCEPT ![c] = "recv"]
      /\ receiving_reply' = [receiving_reply EXCEPT ![s] = TRUE]
      /\ reply_pipe' = [reply_pipe EXCEPT ![s] = <<>>]
  BY <1>0, <1>s DEF Send, At, faults
<1>2. OnceThere(s) /\ ~InRequest(s) /\ ~InRouter(s) /\ ~InWorker(s) /\ ~InServing(s) /\ ~InOut(s)
  BY <1>1 DEF Messaging, Awaited
<1>3. request_pipe' = [request_pipe EXCEPT ![s] = <<f>>]
  BY <1>0, <1>s, <1>f, <1>1, <1>2, FirstOne DEF Send, InRequest
<1>4. \A t \in Sockets : Identity(t)' = Identity(t)
  BY <1>1 DEF Identity
<1>5. ASSUME NEW t \in Sockets, t # s
      PROVE  OnePlace(t)' /\ OnceThere(t)' /\ Awaited(t)' /\ \A g \in Files : Names(t, g) => Names(t, g)'
  <2>1. request_pipe'[t] = request_pipe[t] /\ reply_pipe'[t] = reply_pipe[t]
        /\ receiving_reply'[t] = receiving_reply[t]
    BY <1>1, <1>3, <1>5
  <2> QED
    BY <1>1, <1>4, <2>1 DEF server, Messaging, OnePlace, OnceThere, Awaited, InRequest, InRouter,
      InWorker, InServing, InOut, InReply, Busy, Names
<1>6. OnePlace(s)' /\ OnceThere(s)' /\ Awaited(s)' /\ Names(s, f)'
  <2>1. request_pipe'[s] = <<f>> /\ reply_pipe'[s] = <<>> /\ receiving_reply'[s]
    BY <1>1, <1>3
  <2>2. OnePlace(s)' /\ OnceThere(s)' /\ Awaited(s)'
    BY <1>1, <1>2, <1>4, <2>1, FirstOne, EmptyPipe DEF server, OnePlace, OnceThere, Awaited, InRequest,
      InRouter, InWorker, InServing, InOut, InReply, Busy
  <2>3. Names(s, f)'
    BY <1>1, <1>2, <1>4, <2>1, FirstOne, Absent DEF server, InRequest,
      InRouter, InWorker, InServing, InOut, InReply, Busy, Names
  <2> QED
    BY <2>2, <2>3
<1>7. Messaging'
  BY <1>5, <1>6 DEF Messaging
<1>8. RightFile'
  <2> SUFFICES ASSUME NEW e \in Callers, pc'[e] = "recv" PROVE Names(i[e], want[e])'
    BY DEF RightFile
  <2>1. CASE e = c
    BY <1>s, <1>f, <1>1, <1>6, <2>1
  <2>2. CASE e # c
    <3>1. pc[e] = "recv" /\ i[e] # s /\ i[e] \in Sockets /\ want[e] \in Files
      BY <1>s, <1>1, <2>2 DEF SocketPrivate, Held
    <3>2. Names(i[e], want[e])
      BY <3>1 DEF RightFile
    <3> QED
      BY <1>1, <1>5, <3>1, <3>2
  <2> QED
    BY <2>1, <2>2
<1>9. Unborn'
  BY <1>1 DEF Unborn, server, Busy
<1> QED
  BY <1>7, <1>8, <1>9

\* The reply was the socket's only message.
LEMMA RecvMessages ==
    ASSUME IInv, NEW c \in Callers, Recv(c)
    PROVE  Messaging' /\ RightFile' /\ Unborn'
<1> USE DEF IInv, TypeOK
<1>s. PICK s \in Sockets : s = i[c]
  OBVIOUS
<1>0. receiving_reply[i[c]]
  BY NotRefused
<1>1. /\ pc[c] = "recv" /\ InReply(s)
      /\ UNCHANGED <<server, client_deaths, i, want, request_pipe>>
      /\ pc' = [pc EXCEPT ![c] = "clear"]
      /\ receiving_reply' = [receiving_reply EXCEPT ![s] = FALSE]
  BY <1>0, <1>s DEF Recv, At, InReply, faults
<1>2. OnceThere(s) /\ ~InRequest(s) /\ ~InRouter(s) /\ ~InWorker(s) /\ ~InServing(s) /\ ~InOut(s)
  BY <1>1 DEF Messaging, OnePlace
<1>3. reply_pipe' = [reply_pipe EXCEPT ![s] = <<>>]
  <2>1. Tail(reply_pipe[s]) = <<>>
    BY <1>1, <1>2, OnlyOne DEF InReply, OnceThere
  <2> QED
    BY <1>0, <1>s, <2>1 DEF Recv
<1>4. \A t \in Sockets : Identity(t)' = Identity(t)
  BY <1>1 DEF Identity
<1>5. ASSUME NEW t \in Sockets, t # s
      PROVE  OnePlace(t)' /\ OnceThere(t)' /\ Awaited(t)' /\ \A g \in Files : Names(t, g) => Names(t, g)'
  <2>1. request_pipe'[t] = request_pipe[t] /\ reply_pipe'[t] = reply_pipe[t]
        /\ receiving_reply'[t] = receiving_reply[t]
    BY <1>1, <1>3, <1>5
  <2>2. OnePlace(t) /\ OnceThere(t) /\ Awaited(t) /\ UNCHANGED <<server, request_pipe>>
    BY <1>1 DEF Messaging
  <2>3. OnePlace(t)' /\ OnceThere(t)' /\ Awaited(t)'
    BY <1>4, <2>1, <2>2 DEF server, OnePlace, OnceThere, Awaited, InRequest, InRouter,
      InWorker, InServing, InOut, InReply, Busy
  <2>4. ASSUME NEW g \in Files, Names(t, g) PROVE Names(t, g)'
    BY <1>4, <2>1, <2>2, <2>4 DEF server, InRequest, InRouter, InReply, Busy, Names
  <2> QED
    BY <2>3, <2>4
<1>6. OnePlace(s)' /\ OnceThere(s)' /\ Awaited(s)'
  <2>1. reply_pipe'[s] = <<>>
    BY <1>3
  <2> QED
    BY <1>1, <1>2, <1>4, <2>1, EmptyPipe DEF server, OnePlace, OnceThere, Awaited, InRequest,
      InRouter, InWorker, InServing, InOut, InReply, Busy
<1>7. Messaging'
  BY <1>5, <1>6 DEF Messaging
<1>8. RightFile'
  <2> SUFFICES ASSUME NEW e \in Callers, pc'[e] = "recv" PROVE Names(i[e], want[e])'
    BY DEF RightFile
  <2>1. pc[e] = "recv" /\ i[e] # s /\ i[e] \in Sockets /\ want[e] \in Files
    BY <1>s, <1>1 DEF SocketPrivate, Held
  <2>2. Names(i[e], want[e])
    BY <2>1 DEF RightFile
  <2> QED
    BY <1>1, <1>5, <2>1, <2>2
<1>9. Unborn'
  BY <1>1 DEF Unborn, server, Busy
<1> QED
  BY <1>7, <1>8, <1>9

\* What is to be shown of a step that leaves the callers alone.
LEMMA MovedMessages ==
    ASSUME IInv, UNCHANGED <<caller, receiving_reply>>,
           \A t \in Sockets :
              OnePlace(t)' /\ OnceThere(t)' /\ Awaited(t)' /\ \A g \in Files : Names(t, g) => Names(t, g)'
    PROVE  Messaging' /\ RightFile'
<1> USE DEF IInv, TypeOK
<1>1. Messaging'
  BY DEF Messaging
<1>2. RightFile'
  <2> SUFFICES ASSUME NEW e \in Callers, pc'[e] = "recv" PROVE Names(i[e], want[e])'
    BY DEF RightFile
  <2>1. pc[e] = "recv" /\ i[e] \in Sockets /\ want[e] \in Files /\ UNCHANGED <<i, want>>
    BY DEF Held, caller
  <2>2. Names(i[e], want[e])
    BY <2>1 DEF RightFile
  <2> QED
    BY <2>1, <2>2
<1> QED
  BY <1>1, <1>2

\* From the socket's pipe to the ROUTER.
LEMMA TransferMessages ==
    ASSUME IInv, NEW s \in Sockets, Transfer(s)
    PROVE  Messaging' /\ RightFile' /\ Unborn'
<1> USE DEF IInv, TypeOK
<1>1. /\ InRequest(s)
      /\ UNCHANGED <<caller, receiving_reply, reply_pipe, current, worker_in, worker_out, serving, client_deaths>>
  BY DEF Transfer, InRequest, faults
<1>2. OnceThere(s) /\ Awaited(s) /\ ~InRouter(s) /\ ~InWorker(s) /\ ~InServing(s) /\ ~InOut(s) /\ ~InReply(s)
  BY <1>1 DEF Messaging, OnePlace
<1>f. PICK f \in Files : f = Head(request_pipe[s])
  BY <1>1, OnlyOne DEF InRequest
<1>i. \A t \in Sockets : /\ Identity(t)' = Identity(t) /\ Identity(t) \in Identities
                         /\ Identity(t)[2] = client_deaths
                         /\ t # s => Identity(t) # Identity(s)
  BY <1>1, IdentityFacts DEF Identity
<1>3. request_pipe' = [request_pipe EXCEPT ![s] = <<>>]
  BY <1>1, <1>2, OnlyOne DEF Transfer, InRequest, OnceThere
<1>4. router_in' = [router_in EXCEPT ![Identity(s)] = <<f>>]
  BY <1>f, <1>i, <1>2, FirstOne DEF Transfer, InRouter
<1>5. ASSUME NEW t \in Sockets, t # s
      PROVE  OnePlace(t)' /\ OnceThere(t)' /\ Awaited(t)' /\ \A g \in Files : Names(t, g) => Names(t, g)'
  <2>1. request_pipe'[t] = request_pipe[t] /\ router_in'[Identity(t)] = router_in[Identity(t)]
    BY <1>i, <1>3, <1>4, <1>5
  <2> QED
    BY <1>1, <1>i, <2>1 DEF Messaging, OnePlace, OnceThere, Awaited, InRequest, InRouter,
      InWorker, InServing, InOut, InReply, Busy, Names
<1>6. OnePlace(s)' /\ OnceThere(s)' /\ Awaited(s)' /\ \A g \in Files : Names(s, g) => Names(s, g)'
  <2>1. request_pipe'[s] = <<>> /\ router_in'[Identity(s)] = <<f>>
    BY <1>i, <1>3, <1>4
  <2>2. ~InRequest(s)' /\ ~InWorker(s)' /\ ~InServing(s)' /\ ~InOut(s)' /\ ~InReply(s)'
    BY <1>1, <1>2, <1>i, <2>1 DEF InRequest, InWorker, InServing, InOut, InReply, Busy
  <2>3. OnePlace(s)' /\ Awaited(s)'
    BY <1>1, <1>2, <2>2 DEF OnePlace, Awaited
  <2>4. OnceThere(s)'
    <3>1. Len(request_pipe'[s]) <= 1 /\ Len(router_in'[Identity(s)]) <= 1
      BY <2>1, FirstOne
    <3> QED
      BY <1>1, <1>2, <1>i, <3>1 DEF OnceThere, Busy
  <2>5. ASSUME NEW g \in Files, Names(s, g) PROVE Names(s, g)'
    BY <1>1, <1>2, <1>f, <1>i, <2>1, <2>5, FirstOne DEF InRequest, InRouter, InReply, Busy, Names
  <2> QED
    BY <2>3, <2>4, <2>5
<1>7. Messaging' /\ RightFile'
  BY <1>1, <1>5, <1>6, MovedMessages
<1>8. Unborn'
  <2>1. \A d \in Identities : d[2] > client_deaths => d # Identity(s)
    BY <1>i
  <2> QED
    BY <1>1, <1>4, <1>i, <2>1 DEF Unborn, Busy
<1> QED
  BY <1>7, <1>8

\* From the ROUTER to a worker's pipe.
LEMMA ForwardRequestMessages ==
    ASSUME IInv, NEW d \in Identities, ForwardRequest(d)
    PROVE  Messaging' /\ RightFile' /\ Unborn'
<1> USE DEF IInv, TypeOK
<1>1. /\ router_in[d] # <<>>
      /\ router_in' = [router_in EXCEPT ![d] = Tail(router_in[d])]
      /\ UNCHANGED <<caller, receiving_reply, request_pipe, reply_pipe, worker_out, serving, client_deaths>>
  BY DEF ForwardRequest, socket, faults
<1>f. PICK f \in Files : f = Head(router_in[d])
  BY <1>1, OnlyOne
<1>m. PICK m \in Messages : m.id = d /\ m.file = f /\ m = [id |-> d, file |-> f]
  BY DEF Messages
<1>v. PICK v \in Workers : v = current
  OBVIOUS
<1>2. worker_in' = [worker_in EXCEPT ![v] = Append(worker_in[v], m)]
  BY <1>f, <1>m, <1>v DEF ForwardRequest
<1>i. \A t \in Sockets : /\ Identity(t)' = Identity(t) /\ Identity(t) \in Identities
                         /\ Identity(t)[2] = client_deaths
  BY <1>1, IdentityFacts DEF Identity
<1>3. \A e \in Identities : \A w \in Workers :
          Has(worker_in'[w], e) <=> Has(worker_in[w], e) \/ (w = v /\ e = d)
  BY <1>2, <1>m, AppendFacts
<1>4. ASSUME NEW t \in Sockets
      PROVE  OnePlace(t)' /\ OnceThere(t)' /\ Awaited(t)' /\ \A g \in Files : Names(t, g) => Names(t, g)'
  <2>1. OnePlace(t) /\ OnceThere(t) /\ Awaited(t)
    BY DEF Messaging
  <2>2. /\ InRequest(t)' <=> InRequest(t)
        /\ InServing(t)' <=> InServing(t)
        /\ InOut(t)' <=> InOut(t)
        /\ InReply(t)' <=> InReply(t)
    BY <1>1, <1>i DEF InRequest, InServing, InOut, InReply, Busy
  <2>3. InWorker(t)' <=> InWorker(t) \/ Identity(t) = d
    BY <1>3, <1>i DEF InWorker
  <2>4. CASE Identity(t) # d
    <3>1. router_in'[Identity(t)] = router_in[Identity(t)]
      BY <1>1, <1>i, <2>4
    <3>2. OnePlace(t)' /\ Awaited(t)'
      BY <1>1, <1>i, <2>1, <2>2, <2>3, <2>4, <3>1 DEF OnePlace, Awaited, InRouter
    <3>3. \A w \in Workers :
            /\ Once(worker_in[w], Identity(t)) => Once(worker_in'[w], Identity(t))
            /\ \A g \in Files : Only(worker_in[w], Identity(t), g) => Only(worker_in'[w], Identity(t), g)
      BY <1>2, <1>m, <2>4, AppendFacts
    <3>4. OnceThere(t)'
      BY <1>1, <1>3, <1>i, <2>1, <2>4, <3>1, <3>3 DEF OnceThere, Busy
    <3>5. ASSUME NEW g \in Files, Names(t, g) PROVE Names(t, g)'
      BY <1>1, <1>i, <2>2, <3>1, <3>3, <3>5 DEF Names, InRequest, InReply, InRouter, Busy
    <3> QED
      BY <3>2, <3>4, <3>5
  <2>5. CASE Identity(t) = d
    <3>1. InRouter(t) /\ \A w \in Workers : ~Has(worker_in[w], d)
      BY <1>1, <2>1, <2>5 DEF InRouter, OnePlace, InWorker
    <3>2. router_in'[d] = <<>>
      BY <1>1, <2>1, <2>5, OnlyOne DEF OnceThere
    <3>3. ~InRouter(t)'
      BY <1>i, <2>5, <3>2 DEF InRouter
    <3>4. OnePlace(t)' /\ Awaited(t)'
      BY <1>1, <2>1, <2>2, <2>3, <2>5, <3>1, <3>3 DEF OnePlace, Awaited
    <3>5. \A w \in Workers :
            /\ Once(worker_in'[w], d)
            /\ \A g \in Files : g = f /\ Only(worker_in[w], d, g) => Only(worker_in'[w], d, g)
      BY <1>2, <1>m, <2>1, <2>5, <3>1, AppendFacts DEF OnceThere
    <3>6. Len(router_in'[d]) <= 1
      BY <3>2
    <3>7. \A w \in Workers : Has(worker_in'[w], d) <=> w = v
      BY <1>3, <3>1
    <3>8. OnceThere(t)'
      BY <1>1, <1>i, <2>1, <2>5, <3>5, <3>6, <3>7 DEF OnceThere, Busy
    <3>9. ASSUME NEW g \in Files, Names(t, g) PROVE Names(t, g)'
      <4>1. g = f
        BY <1>f, <2>5, <3>1, <3>9 DEF Names
      <4> QED
        BY <1>1, <1>i, <2>2, <2>5, <3>3, <3>5, <3>9, <4>1 DEF Names, InRequest, InReply, Busy
    <3> QED
      BY <3>4, <3>8, <3>9
  <2> QED
    BY <2>4, <2>5
<1>5. Messaging' /\ RightFile'
  BY <1>1, <1>4, MovedMessages
<1>6. Unborn'
  <2>1. \A e \in Identities : e[2] > client_deaths => e # d
    BY <1>1 DEF Unborn
  <2>2. \A e \in Identities : e # d => router_in'[e] = router_in[e]
    BY <1>1
  <2> QED
    BY <1>1, <1>3, <2>1, <2>2 DEF Unborn, Busy
<1> QED
  BY <1>5, <1>6

\* From the worker's pipe to the worker.
LEMMA ReceiveMessages ==
    ASSUME IInv, NEW v \in Workers, Receive(v)
    PROVE  Messaging' /\ RightFile' /\ Unborn'
<1> USE DEF IInv, TypeOK
<1>1. /\ serving[v] = None /\ worker_in[v] # <<>>
      /\ worker_in' = [worker_in EXCEPT ![v] = Tail(worker_in[v])]
      /\ serving' = [serving EXCEPT ![v] = Head(worker_in[v])]
      /\ UNCHANGED <<caller, receiving_reply, request_pipe, reply_pipe, router_in, worker_out, client_deaths>>
  BY DEF Receive, socket, faults
<1>m. PICK m \in Messages : m = Head(worker_in[v])
  BY <1>1, TailFacts
<1>i. \A t \in Sockets : /\ Identity(t)' = Identity(t) /\ Identity(t) \in Identities
                         /\ Identity(t)[2] = client_deaths
  BY <1>1, IdentityFacts DEF Identity
<1>2. \A w \in Workers : w # v => worker_in'[w] = worker_in[w] /\ serving'[w] = serving[w]
  BY <1>1
<1>3. worker_in'[v] = Tail(worker_in[v]) /\ serving'[v] = m /\ m # None
  BY <1>1, <1>m, MessageAssumption
<1>4. \A e \in Identities : /\ Has(worker_in[v], e) <=> m.id = e \/ Has(worker_in'[v], e)
                            /\ ~Busy(v, e)
                            /\ Busy(v, e)' <=> m.id = e
  BY <1>1, <1>3, <1>m, TailFacts DEF Busy
<1>5. \A w \in Workers, e \in Identities : w # v => (Busy(w, e)' <=> Busy(w, e))
  BY <1>2 DEF Busy
<1>6. ASSUME NEW t \in Sockets
      PROVE  OnePlace(t)' /\ OnceThere(t)' /\ Awaited(t)' /\ \A g \in Files : Names(t, g) => Names(t, g)'
  <2>1. OnePlace(t) /\ OnceThere(t) /\ Awaited(t)
    BY DEF Messaging
  <2>2. /\ InRequest(t)' <=> InRequest(t)
        /\ InRouter(t)' <=> InRouter(t)
        /\ InOut(t)' <=> InOut(t)
        /\ InReply(t)' <=> InReply(t)
    BY <1>1, <1>i DEF InRequest, InRouter, InOut, InReply
  <2>3. /\ Once(worker_in'[v], Identity(t)) /\ ~(m.id = Identity(t) /\ Has(worker_in'[v], Identity(t)))
        /\ \A g : Only(worker_in[v], Identity(t), g) =>
              Only(worker_in'[v], Identity(t), g) /\ (m.id = Identity(t) => m.file = g)
    BY <1>1, <1>3, <1>m, <2>1, TailFacts DEF OnceThere
  <2>4. \A w \in Workers : Has(worker_in'[w], Identity(t)) => Has(worker_in[w], Identity(t))
    BY <1>2, <1>4, <1>i
  <2>5. CASE m.id # Identity(t)
    <3>1. InWorker(t)' <=> InWorker(t)
      BY <1>2, <1>4, <1>i, <2>5 DEF InWorker
    <3>2. \A w \in Workers : Busy(w, Identity(t))' <=> Busy(w, Identity(t))
      BY <1>4, <1>5, <1>i, <2>5
    <3>3. InServing(t)' <=> InServing(t)
      BY <1>i, <3>2 DEF InServing, Busy
    <3>4. OnePlace(t)' /\ Awaited(t)'
      BY <1>1, <2>1, <2>2, <3>1, <3>3 DEF OnePlace, Awaited
    <3>5. OnceThere(t)'
      BY <1>1, <1>2, <1>i, <2>1, <2>3, <2>4, <3>2 DEF OnceThere, Busy
    <3>6. ASSUME NEW g \in Files, Names(t, g) PROVE Names(t, g)'
      BY <1>1, <1>2, <1>3, <1>i, <2>2, <2>3, <2>5, <3>6 DEF Names, InRequest, InReply, InRouter, Busy
    <3> QED
      BY <3>4, <3>5, <3>6
  <2>6. CASE m.id = Identity(t)
    <3>1. Has(worker_in[v], Identity(t))
      BY <1>4, <1>i, <2>6
    <3>2. InWorker(t)
      BY <3>1 DEF InWorker
    <3>3. \A w \in Workers : ~Has(worker_in'[w], Identity(t))
      BY <1>2, <2>1, <2>3, <2>6, <3>1 DEF OnceThere
    <3>4. ~InWorker(t)'
      BY <1>i, <3>3 DEF InWorker
    <3>5. \A w \in Workers : ~Busy(w, Identity(t))
      BY <2>1, <3>2 DEF OnePlace, InServing
    <3>6. \A w \in Workers : Busy(w, Identity(t))' => w = v
      BY <1>5, <1>i, <3>5
    <3>7. OnePlace(t)' /\ Awaited(t)'
      BY <1>1, <2>1, <2>2, <3>2, <3>4 DEF OnePlace, Awaited
    <3>8. OnceThere(t)'
      BY <1>1, <1>2, <1>i, <2>1, <2>3, <3>3, <3>6 DEF OnceThere, Busy
    <3>9. ASSUME NEW g \in Files, Names(t, g) PROVE Names(t, g)'
      BY <1>1, <1>2, <1>3, <1>i, <2>2, <2>3, <2>6, <3>9 DEF Names, InRequest, InReply, InRouter, Busy
    <3> QED
      BY <3>7, <3>8, <3>9
  <2> QED
    BY <2>5, <2>6
<1>7. Messaging' /\ RightFile'
  BY <1>1, <1>6, MovedMessages
<1>8. Unborn'
  <2>1. ASSUME NEW e \in Identities, e[2] > client_deaths', NEW w \in Workers
        PROVE  ~Has(worker_in'[w], e) /\ ~Busy(w, e)' /\ ~Has(worker_out'[w], e)
    <3>1. ~Has(worker_in[v], e) /\ ~Has(worker_in[w], e) /\ ~Busy(w, e) /\ ~Has(worker_out[w], e)
      BY <1>1, <2>1 DEF Unborn
    <3> QED
      BY <1>1, <1>2, <1>4, <1>5, <3>1
  <2> QED
    BY <1>1, <2>1 DEF Unborn, Busy
<1> QED
  BY <1>7, <1>8

\* From the worker to its other pipe.
LEMMA ReplyMessages ==
    ASSUME IInv, NEW v \in Workers, Reply(v)
    PROVE  Messaging' /\ RightFile' /\ Unborn'
<1> USE DEF IInv, TypeOK
<1>m. PICK m \in Messages : m = serving[v] /\ m # None
  BY DEF Reply
<1>1. /\ worker_out' = [worker_out EXCEPT ![v] = Append(worker_out[v], m)]
      /\ serving' = [serving EXCEPT ![v] = None]
      /\ UNCHANGED <<caller, receiving_reply, request_pipe, reply_pipe, router_in, worker_in, client_deaths>>
  BY <1>m DEF Reply, socket, faults
<1>i. \A t \in Sockets : /\ Identity(t)' = Identity(t) /\ Identity(t) \in Identities
                         /\ Identity(t)[2] = client_deaths
  BY <1>1, IdentityFacts DEF Identity
<1>2. \A w \in Workers : w # v => worker_out'[w] = worker_out[w] /\ serving'[w] = serving[w]
  BY <1>1
<1>3. worker_out'[v] = Append(worker_out[v], m) /\ serving'[v] = None
  BY <1>1
<1>4. \A e \in Identities : /\ Has(worker_out'[v], e) <=> Has(worker_out[v], e) \/ m.id = e
                            /\ Busy(v, e) <=> m.id = e
                            /\ ~Busy(v, e)'
  BY <1>3, <1>m, AppendFacts DEF Busy
<1>5. \A w \in Workers, e \in Identities : w # v => (Busy(w, e)' <=> Busy(w, e))
  BY <1>2 DEF Busy
<1>6. ASSUME NEW t \in Sockets
      PROVE  OnePlace(t)' /\ OnceThere(t)' /\ Awaited(t)' /\ \A g \in Files : Names(t, g) => Names(t, g)'
  <2>1. OnePlace(t) /\ OnceThere(t) /\ Awaited(t)
    BY DEF Messaging
  <2>2. /\ InRequest(t)' <=> InRequest(t)
        /\ InRouter(t)' <=> InRouter(t)
        /\ InWorker(t)' <=> InWorker(t)
        /\ InReply(t)' <=> InReply(t)
    BY <1>1, <1>i DEF InRequest, InRouter, InWorker, InReply
  <2>3. /\ Once(worker_out[v], Identity(t)) /\ ~(Has(worker_out[v], Identity(t)) /\ m.id = Identity(t))
            => Once(worker_out'[v], Identity(t))
        /\ \A g : Only(worker_out[v], Identity(t), g) /\ (m.id = Identity(t) => m.file = g)
            => Only(worker_out'[v], Identity(t), g)
    <3> DEFINE p == worker_out[v]
               d == Identity(t)
    <3>1. p \in Seq(Messages) /\ worker_out'[v] = Append(p, m)
      BY <1>3
    <3> HIDE DEF p, d
    <3>2. /\ Once(p, d) /\ ~(Has(p, d) /\ m.id = d) => Once(worker_out'[v], d)
          /\ \A g : Only(p, d, g) /\ (m.id = d => m.file = g) => Only(worker_out'[v], d, g)
      BY <3>1, AppendFacts
    <3> QED
      BY <3>2 DEF p, d
  <2>4. CASE m.id # Identity(t)
    <3>1. \A w \in Workers : /\ Busy(w, Identity(t))' <=> Busy(w, Identity(t))
                             /\ Has(worker_out'[w], Identity(t)) <=> Has(worker_out[w], Identity(t))
      BY <1>2, <1>4, <1>5, <1>i, <2>4
    <3>2. (InServing(t)' <=> InServing(t)) /\ (InOut(t)' <=> InOut(t))
      BY <1>i, <3>1 DEF InServing, InOut, Busy
    <3>3. OnePlace(t)' /\ Awaited(t)'
      BY <1>1, <2>1, <2>2, <3>2 DEF OnePlace, Awaited
    <3>4. OnceThere(t)'
      BY <1>1, <1>2, <1>i, <2>1, <2>3, <2>4, <3>1 DEF OnceThere, Busy
    <3>5. ASSUME NEW g \in Files, Names(t, g) PROVE Names(t, g)'
      BY <1>1, <1>2, <1>3, <1>i, <2>2, <2>3, <2>4, <3>5 DEF Names, InRequest, InReply, InRouter, Busy
    <3> QED
      BY <3>3, <3>4, <3>5
  <2>5. CASE m.id = Identity(t)
    <3>1. Busy(v, Identity(t)) /\ InServing(t)
      BY <1>4, <1>i, <2>5 DEF InServing
    <3>2. \A w \in Workers : ~Busy(w, Identity(t))'
      <4>1. \A w \in Workers : w # v => ~Busy(w, Identity(t))
        BY <2>1, <3>1 DEF OnceThere
      <4>2. Identity(t)' = Identity(t) /\ Identity(t) \in Identities
        BY <1>i
      <4>3. ~Busy(v, Identity(t))'
        BY <1>4, <4>2 DEF Busy
      <4>4. ASSUME NEW w \in Workers, w # v PROVE ~Busy(w, Identity(t))'
        BY <1>5, <4>1, <4>2, <4>4 DEF Busy
      <4> QED
        BY <4>3, <4>4
    <3>3. ~InServing(t)'
      BY <1>i, <3>2 DEF InServing, Busy
    <3>4. \A w \in Workers : ~Has(worker_out[w], Identity(t))
      BY <2>1, <3>1 DEF OnePlace, InOut
    <3>5. \A w \in Workers : Has(worker_out'[w], Identity(t)) => w = v
      BY <1>2, <3>4
    <3>6. OnePlace(t)' /\ Awaited(t)'
      BY <1>1, <2>1, <2>2, <3>1, <3>3 DEF OnePlace, Awaited
    <3>7. OnceThere(t)'
      BY <1>1, <1>2, <1>i, <2>1, <2>3, <3>2, <3>4, <3>5 DEF OnceThere, Busy
    <3>8. ASSUME NEW g \in Files, Names(t, g) PROVE Names(t, g)'
      <4>1. m.file = g
        BY <1>m, <3>1, <3>8 DEF Names
      <4> QED
        BY <1>1, <1>2, <1>3, <1>i, <2>2, <2>3, <3>8, <4>1 DEF Names, InRequest, InReply, InRouter, Busy
    <3> QED
      BY <3>6, <3>7, <3>8
  <2> QED
    BY <2>4, <2>5
<1>7. Messaging' /\ RightFile'
  BY <1>1, <1>6, MovedMessages
<1>8. Unborn'
  <2>1. ASSUME NEW e \in Identities, e[2] > client_deaths', NEW w \in Workers
        PROVE  ~Has(worker_in'[w], e) /\ ~Busy(w, e)' /\ ~Has(worker_out'[w], e)
    <3>1. ~Has(worker_in[w], e) /\ ~Busy(v, e) /\ ~Busy(w, e) /\ ~Has(worker_out[w], e)
      BY <1>1, <2>1 DEF Unborn
    <3> QED
      BY <1>1, <1>2, <1>4, <1>5, <3>1
  <2> QED
    BY <1>1, <2>1 DEF Unborn, Busy
<1> QED
  BY <1>7, <1>8

\* From the worker's other pipe to the socket with its identity.
LEMMA ForwardReplyMessages ==
    ASSUME IInv, NEW v \in Workers, ForwardReply(v)
    PROVE  Messaging' /\ RightFile' /\ Unborn'
<1> USE DEF IInv, TypeOK
<1>m. PICK m \in Messages : m = Head(worker_out[v])
  BY TailFacts DEF ForwardReply
<1>r. PICK r \in Sockets : r = m.id[1] /\ m.file \in Files
  BY DEF Messages, Identities
<1>1. /\ worker_out[v] # <<>>
      /\ worker_out' = [worker_out EXCEPT ![v] = Tail(worker_out[v])]
      /\ UNCHANGED <<caller, receiving_reply, request_pipe, router_in, worker_in, serving, client_deaths>>
  BY DEF ForwardReply, faults
<1>p. reply_pipe' = IF m.id = Identity(r)
                   THEN [reply_pipe EXCEPT ![r] = Append(reply_pipe[r], m.file)]
                   ELSE reply_pipe
  BY <1>m, <1>r DEF ForwardReply
<1>i. \A t \in Sockets : /\ Identity(t)' = Identity(t) /\ Identity(t) \in Identities
                         /\ Identity(t)[1] = t /\ Identity(t)[2] = client_deaths
  BY <1>1, IdentityFacts DEF Identity
<1>2. \A w \in Workers : w # v => worker_out'[w] = worker_out[w]
  BY <1>1
<1>3. worker_out'[v] = Tail(worker_out[v])
  BY <1>1
<1>4. \A e \in Identities : Has(worker_out[v], e) <=> m.id = e \/ Has(worker_out'[v], e)
  BY <1>1, <1>3, <1>m, TailFacts
<1>5. \A w \in Workers : \A e : Busy(w, e)' <=> Busy(w, e)
  BY <1>1 DEF Busy
<1>6. ASSUME NEW t \in Sockets
      PROVE  OnePlace(t)' /\ OnceThere(t)' /\ Awaited(t)' /\ \A g \in Files : Names(t, g) => Names(t, g)'
  <2>1. OnePlace(t) /\ OnceThere(t) /\ Awaited(t)
    BY DEF Messaging
  <2>2. /\ InRequest(t)' <=> InRequest(t)
        /\ InRouter(t)' <=> InRouter(t)
        /\ InWorker(t)' <=> InWorker(t)
        /\ InServing(t)' <=> InServing(t)
    BY <1>1, <1>i DEF InRequest, InRouter, InWorker, InServing, Busy
  <2>3. /\ Once(worker_out'[v], Identity(t)) /\ ~(m.id = Identity(t) /\ Has(worker_out'[v], Identity(t)))
        /\ \A g : Only(worker_out[v], Identity(t), g) =>
              Only(worker_out'[v], Identity(t), g) /\ (m.id = Identity(t) => m.file = g)
    BY <1>1, <1>3, <1>m, <2>1, TailFacts DEF OnceThere
  <2>4. \A w \in Workers : Has(worker_out'[w], Identity(t)) => Has(worker_out[w], Identity(t))
    BY <1>2, <1>4, <1>i
  <2>5. CASE m.id # Identity(t)
    <3>1. reply_pipe'[t] = reply_pipe[t]
      BY <1>p, <2>5
    <3>2. InOut(t)' <=> InOut(t)
      <4>1. \A w \in Workers : Has(worker_out'[w], Identity(t)) <=> Has(worker_out[w], Identity(t))
        BY <1>2, <1>4, <1>i, <2>5
      <4> QED
        BY <1>i, <4>1 DEF InOut
    <3>3. OnePlace(t)' /\ Awaited(t)'
      BY <1>1, <2>1, <2>2, <3>1, <3>2 DEF OnePlace, Awaited, InReply
    <3>4. OnceThere(t)'
      <4>1. \A w \in Workers : Once(worker_out'[w], Identity(t))
        BY <1>2, <2>1, <2>3 DEF OnceThere
      <4>2. Len(reply_pipe'[t]) <= 1
        BY <2>1, <3>1 DEF OnceThere
      <4> QED
        BY <1>1, <1>i, <2>1, <2>4, <4>1, <4>2 DEF OnceThere, Busy
    <3>5. ASSUME NEW g \in Files, Names(t, g) PROVE Names(t, g)'
      <4>1. \A w \in Workers : Only(worker_out'[w], Identity(t), g)
        BY <1>2, <2>3, <3>5 DEF Names
      <4> QED
        BY <1>1, <1>i, <2>2, <3>1, <3>5, <4>1 DEF Names, InRequest, InReply, InRouter, Busy
    <3> QED
      BY <3>3, <3>4, <3>5
  <2>6. CASE m.id = Identity(t)
    <3>1. r = t /\ Has(worker_out[v], Identity(t)) /\ InOut(t)
      BY <1>4, <1>i, <1>r, <2>6 DEF InOut
    <3>2. reply_pipe[t] = <<>>
      BY <2>1, <3>1 DEF OnePlace, InReply
    <3>3. reply_pipe'[t] = <<m.file>>
      BY <1>p, <1>r, <2>6, <3>1, <3>2, FirstOne
    <3>4. \A w \in Workers : ~Has(worker_out'[w], Identity(t))
      BY <1>2, <2>1, <2>3, <2>6, <3>1 DEF OnceThere
    <3>5. ~InOut(t)'
      BY <1>i, <3>4 DEF InOut
    <3>6. OnePlace(t)' /\ Awaited(t)'
      BY <1>1, <2>1, <2>2, <3>1, <3>5 DEF OnePlace, Awaited
    <3>7. OnceThere(t)'
      <4>1. Len(reply_pipe'[t]) <= 1
        BY <3>3
      <4>2. \A w \in Workers : Once(worker_out'[w], Identity(t))
        BY <3>4, Absent
      <4> QED
        BY <1>1, <1>i, <2>1, <3>4, <4>1, <4>2 DEF OnceThere, Busy
    <3>8. ASSUME NEW g \in Files, Names(t, g) PROVE Names(t, g)'
      <4>1. m.file = g
        BY <2>3, <2>6, <3>8 DEF Names
      <4>2. Head(reply_pipe'[t]) = g
        BY <1>r, <3>3, <4>1, FirstOne
      <4>3. \A w \in Workers : Only(worker_out'[w], Identity(t), g)
        BY <3>4, Absent
      <4> QED
        BY <1>1, <1>i, <2>2, <3>8, <4>2, <4>3 DEF Names, InRequest, InReply, InRouter, Busy
    <3> QED
      BY <3>6, <3>7, <3>8
  <2> QED
    BY <2>5, <2>6
<1>7. Messaging' /\ RightFile'
  BY <1>1, <1>6, MovedMessages
<1>8. Unborn'
  <2>1. ASSUME NEW e \in Identities, e[2] > client_deaths', NEW w \in Workers
        PROVE  ~Has(worker_in'[w], e) /\ ~Busy(w, e)' /\ ~Has(worker_out'[w], e)
    <3>1. ~Has(worker_in[w], e) /\ ~Busy(w, e) /\ ~Has(worker_out[v], e) /\ ~Has(worker_out[w], e)
      BY <1>1, <2>1 DEF Unborn
    <3> QED
      BY <1>1, <1>2, <1>4, <1>5, <3>1
  <2> QED
    BY <1>1, <2>1 DEF Unborn, Busy
<1> QED
  BY <1>7, <1>8

\* With the server go the messages it has.
LEMMA ServerDiesMessages ==
    ASSUME IInv, ServerDies
    PROVE  Messaging' /\ RightFile' /\ Unborn'
<1> USE DEF IInv, TypeOK
<1>1. /\ \A d \in Identities : router_in'[d] = <<>>
      /\ \A w \in Workers : worker_in'[w] = <<>> /\ worker_out'[w] = <<>> /\ serving'[w] = None
      /\ UNCHANGED <<caller, receiving_reply, request_pipe, reply_pipe, client_deaths>>
  BY DEF ServerDies, socket
<1>i. \A t \in Sockets : Identity(t)' = Identity(t) /\ Identity(t) \in Identities
  BY <1>1, IdentityFacts DEF Identity
<1>2. \A w \in Workers : \A d : ~Has(worker_in'[w], d) /\ ~Has(worker_out'[w], d) /\ ~Busy(w, d)'
  BY <1>1, EmptyPipe DEF Busy
<1>3. ASSUME NEW t \in Sockets
      PROVE  OnePlace(t)' /\ OnceThere(t)' /\ Awaited(t)' /\ \A g \in Files : Names(t, g) => Names(t, g)'
  <2>1. OnePlace(t) /\ OnceThere(t) /\ Awaited(t)
    BY DEF Messaging
  <2>2. /\ InRequest(t)' <=> InRequest(t)
        /\ InReply(t)' <=> InReply(t)
        /\ ~InRouter(t)' /\ ~InWorker(t)' /\ ~InServing(t)' /\ ~InOut(t)'
    BY <1>1, <1>2, <1>i DEF InRequest, InReply, InRouter, InWorker, InServing, InOut, Busy
  <2>3. OnePlace(t)' /\ Awaited(t)'
    BY <1>1, <2>1, <2>2 DEF OnePlace, Awaited
  <2>4. OnceThere(t)'
    <3>1. router_in'[Identity(t)] = <<>> /\ Len(router_in'[Identity(t)]) <= 1
      BY <1>1, <1>i, EmptyPipe
    <3>2. \A w \in Workers : Once(worker_in'[w], Identity(t)) /\ Once(worker_out'[w], Identity(t))
      BY <1>2, Absent
    <3> QED
      BY <1>1, <1>2, <1>i, <2>1, <3>1, <3>2 DEF OnceThere, Busy
  <2>5. ASSUME NEW g \in Files, Names(t, g) PROVE Names(t, g)'
    <3>1. \A w \in Workers : Only(worker_in'[w], Identity(t), g) /\ Only(worker_out'[w], Identity(t), g)
      BY <1>2, Absent
    <3> QED
      BY <1>1, <1>2, <1>i, <2>2, <2>5, <3>1 DEF Names, InRequest, InReply, InRouter, Busy
  <2> QED
    BY <2>3, <2>4, <2>5
<1>4. Messaging' /\ RightFile'
  BY <1>1, <1>3, MovedMessages
<1>5. Unborn'
  BY <1>1, <1>2 DEF Unborn, Busy
<1> QED
  BY <1>4, <1>5

\* The new client's identities are of no message that is still on the way.
LEMMA ClientDiesMessages ==
    ASSUME IInv, ClientDies
    PROVE  Messaging' /\ RightFile' /\ Unborn'
<1> USE DEF IInv, TypeOK
<1>1. /\ \A t \in Sockets : request_pipe'[t] = <<>> /\ reply_pipe'[t] = <<>>
      /\ \A c \in Callers : pc'[c] = "idle"
      /\ client_deaths' = client_deaths + 1
      /\ UNCHANGED server
  BY DEF ClientDies
<1>i. \A t \in Sockets : /\ Identity(t)' = <<t, client_deaths + 1>>
                         /\ <<t, client_deaths + 1>> \in Identities
                         /\ client_deaths + 1 > client_deaths
  <2>1. client_deaths + 1 \in 0 .. MaxDeaths /\ client_deaths + 1 > client_deaths
    BY ClientAssumption, SMT DEF ClientDies
  <2> QED
    BY <1>1, <2>1 DEF Identity, Identities
<1>2. ASSUME NEW t \in Sockets PROVE OnePlace(t)' /\ OnceThere(t)' /\ Awaited(t)'
  <2>1. PICK d \in Identities : Identity(t)' = d /\ d[2] > client_deaths
    BY <1>i
  <2>2. router_in[d] = <<>> /\ \A w \in Workers : ~Has(worker_in[w], d) /\ ~Busy(w, d) /\ ~Has(worker_out[w], d)
    BY <2>1 DEF Unborn
  <2>3. router_in'[d] = <<>> /\ \A w \in Workers : ~Has(worker_in'[w], d) /\ ~Busy(w, d)' /\ ~Has(worker_out'[w], d)
    BY <1>1, <2>2 DEF server, Busy
  <2>4. ~InRequest(t)' /\ ~InReply(t)' /\ ~InRouter(t)' /\ ~InWorker(t)' /\ ~InServing(t)' /\ ~InOut(t)'
    BY <1>1, <2>1, <2>3 DEF InRequest, InReply, InRouter, InWorker, InServing, InOut, Busy
  <2>5. OnePlace(t)' /\ Awaited(t)'
    BY <2>4 DEF OnePlace, Awaited
  <2>6. /\ Len(request_pipe'[t]) <= 1 /\ Len(router_in'[d]) <= 1 /\ Len(reply_pipe'[t]) <= 1
        /\ \A w \in Workers : Once(worker_in'[w], d) /\ Once(worker_out'[w], d)
    BY <1>1, <2>3, EmptyPipe, Absent
  <2>7. OnceThere(t)'
    BY <2>1, <2>3, <2>6 DEF OnceThere, Busy
  <2> QED
    BY <2>5, <2>7
<1>3. Messaging'
  BY <1>2 DEF Messaging
<1>4. RightFile'
  BY <1>1 DEF RightFile
<1>5. Unborn'
  <2>1. \A d \in Identities : d[2] > client_deaths' => d[2] > client_deaths
    BY <1>1, SMT DEF Identities
  <2> QED
    BY <1>1, <2>1 DEF server, Unborn, Busy
<1> QED
  BY <1>3, <1>4, <1>5

\* Nothing moves.
LEMMA StillMessages ==
    ASSUME IInv, UNCHANGED <<caller, receiving_reply, request_pipe, reply_pipe, server, client_deaths>>
    PROVE  Messaging' /\ RightFile' /\ Unborn'
<1> USE DEF IInv, TypeOK
<1>1. ASSUME NEW t \in Sockets
      PROVE  OnePlace(t)' /\ OnceThere(t)' /\ Awaited(t)' /\ \A g \in Files : Names(t, g) => Names(t, g)'
  BY DEF server, Messaging, OnePlace, OnceThere, Awaited, InRequest, InRouter,
      InWorker, InServing, InOut, InReply, Busy, Names, Identity
<1>2. Messaging' /\ RightFile'
  BY <1>1, MovedMessages
<1>3. Unborn'
  BY DEF Unborn, server, Busy
<1> QED
  BY <1>2, <1>3
-----------------------------------------------------------------------------
(***************************************************************************)
(* The invariant                                                           *)
(***************************************************************************)

\* It holds before the first call.
LEMMA InitInv == Init => IInv
<1> SUFFICES ASSUME Init PROVE IInv
  OBVIOUS
<1>1. TypeOK
  BY InitType
<1> USE DEF TypeOK
<1>2. /\ \A c \in Callers : pc[c] = "idle"
      /\ \A s \in Sockets : request_pipe[s] = <<>> /\ reply_pipe[s] = <<>> /\ ~receiving_reply[s]
      /\ \A d \in Identities : router_in[d] = <<>>
      /\ \A w \in Workers : worker_in[w] = <<>> /\ worker_out[w] = <<>> /\ serving[w] = None
  BY DEF Init
<1>3. SocketPrivate /\ Held /\ ReplyIsForRequest /\ RightFile
  BY <1>2 DEF SocketPrivate, Held, ReplyIsForRequest, RightFile
<1>4. \A w \in Workers : \A d : ~Has(worker_in[w], d) /\ ~Busy(w, d) /\ ~Has(worker_out[w], d)
  BY <1>2, EmptyPipe DEF Busy
<1>5. Unborn
  BY <1>2, <1>4 DEF Unborn
<1>6. Messaging
  <2>1. ASSUME NEW s \in Sockets PROVE OnePlace(s) /\ OnceThere(s) /\ Awaited(s)
    <3>1. Identity(s) \in Identities
      BY <1>1, IdentityFacts
    <3>2. ~InRequest(s) /\ ~InReply(s) /\ ~InRouter(s) /\ ~InWorker(s) /\ ~InServing(s) /\ ~InOut(s)
      BY <1>2, <1>4, <3>1 DEF InRequest, InReply, InRouter, InWorker, InServing, InOut
    <3>3. /\ Len(request_pipe[s]) <= 1 /\ Len(router_in[Identity(s)]) <= 1 /\ Len(reply_pipe[s]) <= 1
          /\ \A w \in Workers : Once(worker_in[w], Identity(s)) /\ Once(worker_out[w], Identity(s))
      BY <1>2, <1>4, <3>1, EmptyPipe, Absent
    <3> QED
      BY <1>4, <3>2, <3>3 DEF OnePlace, OnceThere, Awaited
  <2> QED
    BY <2>1 DEF Messaging
<1> QED
  BY <1>1, <1>3, <1>5, <1>6 DEF IInv

\* No step can break it: one case for each action.
LEMMA NextInv == IInv /\ [Next]_vars => IInv'
<1> SUFFICES ASSUME IInv, [Next]_vars PROVE IInv'
  OBVIOUS
<1>1. ASSUME NEW c \in Callers, Get(c) \/ Call(c) PROVE IInv'
  <2>1. TypeOK' /\ SocketPrivate' /\ Held' /\ ReplyIsForRequest'
    BY <1>1, CallType, CallPrivate
  <2>2. Messaging' /\ RightFile' /\ Unborn'
    BY <1>1, QuietMessages, SendMessages, RecvMessages DEF Call
  <2> QED
    BY <2>1, <2>2 DEF IInv
<1>2. ASSUME NEW s \in Sockets, Transfer(s) PROVE IInv'
  <2>1. UNCHANGED <<caller, a_lock_pool, receiving_reply>>
    BY <1>2 DEF Transfer
  <2> QED
    BY <1>2, <2>1, ServerType, OtherPrivate, TransferMessages DEF IInv
<1>3. ASSUME NEW d \in Identities, ForwardRequest(d) PROVE IInv'
  <2>1. UNCHANGED <<caller, a_lock_pool, receiving_reply>>
    BY <1>3 DEF ForwardRequest, socket
  <2> QED
    BY <1>3, <2>1, ServerType, OtherPrivate, ForwardRequestMessages DEF IInv
<1>4. ASSUME NEW w \in Workers, Receive(w) PROVE IInv'
  <2>1. UNCHANGED <<caller, a_lock_pool, receiving_reply>>
    BY <1>4 DEF Receive, socket
  <2> QED
    BY <1>4, <2>1, ServerType, OtherPrivate, ReceiveMessages DEF IInv, Serve
<1>5. ASSUME NEW w \in Workers, Reply(w) PROVE IInv'
  <2>1. UNCHANGED <<caller, a_lock_pool, receiving_reply>>
    BY <1>5 DEF Reply, socket
  <2> QED
    BY <1>5, <2>1, ServerType, OtherPrivate, ReplyMessages DEF IInv, Serve
<1>6. ASSUME NEW w \in Workers, ForwardReply(w) PROVE IInv'
  <2>1. UNCHANGED <<caller, a_lock_pool, receiving_reply>>
    BY <1>6 DEF ForwardReply
  <2> QED
    BY <1>6, <2>1, ServerType, OtherPrivate, ForwardReplyMessages DEF IInv
<1>7. CASE ServerDies
  <2>1. UNCHANGED <<caller, a_lock_pool, receiving_reply>>
    BY <1>7 DEF ServerDies, socket
  <2> QED
    BY <1>7, <2>1, ServerType, OtherPrivate, ServerDiesMessages DEF IInv
<1>8. CASE ServerStarts
  <2>1. UNCHANGED <<caller, socket, server, client_deaths>>
    BY <1>8 DEF ServerStarts
  <2> QED
    BY <1>8, <2>1, ServerType, OtherPrivate, StillMessages DEF IInv, socket
<1>9. CASE ClientDies
  BY <1>9, ServerType, OtherPrivate, ClientDiesMessages DEF IInv
<1>10. CASE UNCHANGED vars
  <2>1. UNCHANGED <<caller, socket, server, client_deaths>> /\ TypeOK'
    BY <1>10 DEF vars, caller, socket, server, faults, IInv, TypeOK
  <2> QED
    BY <2>1, OtherPrivate, StillMessages DEF IInv, socket
<1> QED
  BY <1>1, <1>2, <1>3, <1>4, <1>5, <1>6, <1>7, <1>8, <1>9, <1>10 DEF Next, Serve

\* Every state of the client library, the connections and the workers satisfies
\* the invariant, however often either process dies.
THEOREM ClientInvariance == Spec => []IInv
BY InitInv, NextInv, PTL DEF Spec
-----------------------------------------------------------------------------
(***************************************************************************)
(* Theorems                                                                *)
(***************************************************************************)

\* Calls, pipes and workers keep values of their types.
THEOREM ClientTypeCorrect == Spec => []TypeOK
<1>1. IInv => TypeOK
  BY DEF IInv
<1> QED
  BY <1>1, ClientInvariance, PTL

\* The flags of mog::get give a socket to one caller at a time, and a caller's
\* send and recv are never refused by REQ.
THEOREM SocketsArePrivate == Spec => []SocketPrivate
<1>1. IInv => SocketPrivate
  BY DEF IInv
<1> QED
  BY <1>1, ClientInvariance, PTL

\* A get returns the file it asked for.
THEOREM RepliesMatchRequests == Spec => []ReplyIsForRequest
<1>1. IInv => ReplyIsForRequest
  BY DEF IInv
<1> QED
  BY <1>1, ClientInvariance, PTL

\* Nothing duplicates a message on its way from the socket and back to it.
THEOREM MessagesAreOnce == Spec => []Messaging
<1>1. IInv => Messaging
  BY DEF IInv
<1> QED
  BY <1>1, ClientInvariance, PTL
=============================================================================
