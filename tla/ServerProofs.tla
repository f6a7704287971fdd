---------------------------- MODULE ServerProofs ----------------------------
(***************************************************************************)
(* Proofs about Server for any connections, descriptors, slaves and any    *)
(* number of messages.                                                     *)
(***************************************************************************)
EXTENDS Server, SequenceFacts

Types ==
    /\ client \in [Conn -> {"unborn", "open", "shut", "reset"}]
    /\ inbox \in [Conn -> Nat]
    /\ backlog \in Seq(Conn)
    /\ file \in [Fd -> Conn \cup {Nobody}]
    /\ message_que \in Seq(Fd)
    /\ nread \in [Slave -> [Fd -> Nat]]
    /\ epoll \in [Slave -> SUBSET Fd]
    /\ active \in [Slave -> Seq(Fd)]

(* A connection is accepted once.                                            *)
AcceptedOnce ==
    /\ Distinct(backlog)
    /\ \A c \in Elements(backlog) : client[c] # "unborn" /\ \A fd \in Fd : file[fd] # c
    /\ \A fd \in Fd : file[fd] # Nobody => client[file[fd]] # "unborn"
    /\ \A fd, other \in Fd : file[fd] # Nobody /\ file[fd] = file[other] => fd = other

(* What is posted is open, once, and not watched yet.                         *)
PostedOnce ==
    /\ Distinct(message_que)
    /\ \A fd \in Elements(message_que) : file[fd] # Nobody /\ \A s \in Slave : fd \notin epoll[s]

Watched ==
    \A s \in Slave : \A fd \in epoll[s] :
        /\ file[fd] # Nobody
        /\ nread[s][fd] = 1
        /\ \A t \in Slave \ {s} : fd \notin epoll[t]

(* A slave runs at most one handler between two looks at epoll, for a         *)
(* descriptor it watches and that nobody else reads.                          *)
OneHandler ==
    \A s \in Slave : active[s] # <<>> =>
        \E fd \in epoll[s] : active[s] = <<fd>> /\ Readable(fd)

(* No open descriptor is forgotten but for the known reasons.                 *)
Known(fd) ==
    \/ fd \in Elements(message_que)
    \/ \E s \in Slave : fd \in epoll[s] \/ nread[s][fd] > 0
    \/ client[file[fd]] = "shut" /\ inbox[file[fd]] = 0

ServerInv ==
    /\ Types
    /\ AcceptedOnce
    /\ PostedOnce
    /\ Watched
    /\ OneHandler
    /\ \A fd \in Fd : file[fd] # Nobody => Known(fd)

(* The property is a part of the invariant. *)
LEMMA InvImplies == ServerInv => Descriptors
<1> SUFFICES ASSUME ServerInv PROVE WatchedOnce /\ LeaksKnown
  BY DEF Descriptors
<1>1. Posted = Elements(message_que)
  BY DEF Posted, Elements
<1>2. WatchedOnce
  BY <1>1 DEF ServerInv, PostedOnce, Watched, WatchedOnce
<1>3. LeaksKnown
  BY <1>1 DEF ServerInv, AcceptedOnce, Known, LeaksKnown, Stale
<1>4. QED
  BY <1>2, <1>3

(* At first nothing is open.                                                 *)
LEMMA InitServer == Init => ServerInv
<1> SUFFICES ASSUME Init PROVE ServerInv
  OBVIOUS
<1>1. Elements(<<>>) = {} /\ Distinct(<<>>) /\ \A S : <<>> \in Seq(S)
  BY EmptySeq DEF Elements, Distinct
<1>2. Types
  BY <1>1 DEF Init, Types
<1>3. AcceptedOnce /\ PostedOnce
  BY <1>1 DEF Init, AcceptedOnce, PostedOnce
<1>4. Watched /\ OneHandler /\ \A fd \in Fd : file[fd] = Nobody
  BY DEF Init, Watched, OneHandler
<1>5. QED
  BY <1>2, <1>3, <1>4 DEF ServerInv

-----------------------------------------------------------------------------
(* What the clients do changes nothing in the server.                         *)
LEMMA ClientStep ==
    ASSUME ServerInv, NEW c \in Conn, Connect(c) \/ Send(c) \/ Shut(c) \/ Reset(c)
    PROVE  ServerInv'
<1> USE DEF ServerInv
<1>1. UNCHANGED <<file, message_que, nread, epoll, active>>
  BY DEF Connect, Send, Shut, Reset, postVars
<1>2. PostedOnce' /\ Watched'
  BY <1>1 DEF PostedOnce, Watched
<1>3. OneHandler'
  <2>1. \A fd \in Fd : Readable(fd) => Readable(fd)'
    <3>1. CASE Connect(c)
      BY <1>1, <3>1 DEF Connect, Readable, Types
    <3>2. CASE Send(c)
      BY <1>1, <3>2 DEF Send, Readable, Types
    <3>3. CASE Shut(c)
      BY <1>1, <3>3 DEF Shut, Readable, Types
    <3>4. CASE Reset(c)
      BY <1>1, <3>4 DEF Reset, Readable, Types
    <3>5. QED
      BY <3>1, <3>2, <3>3, <3>4
  <2>2. \A s \in Slave : \A fd \in epoll[s] : fd \in Fd
    BY DEF Types
  <2>3. QED
    BY <1>1, <2>1, <2>2 DEF OneHandler
<1>4. CASE Connect(c)
  <2>1. client[c] = "unborn" /\ client' = [client EXCEPT ![c] = "open"]
        /\ backlog' = Append(backlog, c) /\ UNCHANGED inbox
    BY <1>4 DEF Connect
  <2>2. c \notin Elements(backlog) /\ \A fd \in Fd : file[fd] = Nobody \/ file[fd] # c
    BY <2>1 DEF AcceptedOnce
  <2>3. /\ backlog' \in Seq(Conn)
        /\ Distinct(backlog')
        /\ Elements(backlog') = Elements(backlog) \cup {c}
    BY <2>1, <2>2, AppendDistinct DEF Types, AcceptedOnce
  <2>4. Types'
    BY <1>1, <2>1, <2>3 DEF Types
  <2>5. \A d \in Conn : client'[d] = IF d = c THEN "open" ELSE client[d]
    BY <2>1 DEF Types
  <2>6. c # Nobody /\ \A fd \in Fd : file[fd] # Nobody => file[fd] \in Conn
    BY ServerAssumption DEF ServerAssumption, Types
  <2>7. \A d \in Elements(backlog) : d \in Conn
    BY LenProperties, ElementOfSeq DEF Types, Elements
  <2>8. AcceptedOnce'
    BY <1>1, <2>2, <2>3, <2>5, <2>6, <2>7 DEF AcceptedOnce
  <2>9. \A fd \in Fd : file'[fd] # Nobody => Known(fd)'
    BY <1>1, <2>1, <2>2, <2>5, <2>6 DEF Known
  <2>10. QED
    BY <1>2, <1>3, <2>4, <2>8, <2>9
<1>5. CASE Send(c) \/ Shut(c) \/ Reset(c)
  <2>1. /\ client[c] = "open" /\ UNCHANGED backlog
        /\ client'[c] # "unborn" /\ inbox'[c] \in Nat
        /\ \A d \in Conn \ {c} : client'[d] = client[d] /\ inbox'[d] = inbox[d]
    BY <1>5 DEF Send, Shut, Reset, Types
  <2>2. Types'
    <3>1. client' \in [Conn -> {"unborn", "open", "shut", "reset"}]
      BY <1>5 DEF Types, Send, Shut, Reset
    <3>2. inbox' \in [Conn -> Nat]
      <4>1. CASE Send(c)
        BY <4>1 DEF Types, Send
      <4>2. CASE Shut(c)
        BY <4>2 DEF Types, Shut
      <4>3. CASE Reset(c)
        BY <4>3 DEF Types, Reset
      <4>4. QED
        BY <1>5, <4>1, <4>2, <4>3
    <3>3. QED
      BY <1>1, <2>1, <3>1, <3>2 DEF Types
  <2>3. \A fd \in Fd : file[fd] # Nobody => file[fd] \in Conn
    BY DEF Types
  <2>4. \A d \in Elements(backlog) : d \in Conn
    BY LenProperties, ElementOfSeq DEF Types, Elements
  <2>5. AcceptedOnce'
    BY <1>1, <2>1, <2>3, <2>4 DEF AcceptedOnce
  <2>6. \A fd \in Fd : file'[fd] # Nobody => Known(fd)'
    BY <1>1, <2>1, <2>3 DEF Known
  <2>7. QED
    BY <1>2, <1>3, <2>2, <2>5, <2>6
<1>6. QED
  BY <1>4, <1>5

(* The master gives a new connection a number that nobody has.                *)
LEMMA AcceptStep ==
    ASSUME ServerInv, Accept
    PROVE  ServerInv'
<1> USE DEF ServerInv
<1>1. PICK fd \in FreeFds : /\ file' = [file EXCEPT ![fd] = Head(backlog)]
                            /\ message_que' = Append(message_que, fd)
  BY DEF Accept
<1> PICK c : c = Head(backlog)
  OBVIOUS
<1>2. /\ backlog # <<>> /\ backlog' = Tail(backlog)
      /\ UNCHANGED <<client, inbox, nread, epoll, active>>
  BY DEF Accept, clientVars
<1>3. /\ backlog' \in Seq(Conn)
      /\ Distinct(backlog')
      /\ c \in Elements(backlog)
      /\ Elements(backlog') = Elements(backlog) \ {c}
  BY <1>2, TailDistinct DEF Types, AcceptedOnce
<1>4. c \in Conn /\ c # Nobody
  BY <1>2, HeadTailProperties, ServerAssumption DEF Types, ServerAssumption
<1>5. fd \in Fd /\ file[fd] = Nobody
  BY DEF FreeFds
<1>6. \A f \in Fd : file'[f] = IF f = fd THEN c ELSE file[f]
  BY <1>1 DEF Types
<1>7. fd \notin Elements(message_que) /\ \A s \in Slave : fd \notin epoll[s]
  BY <1>5 DEF PostedOnce, Watched
<1>8. /\ message_que' \in Seq(Fd)
      /\ Distinct(message_que')
      /\ Elements(message_que') = Elements(message_que) \cup {fd}
  BY <1>1, <1>5, <1>7, AppendDistinct DEF Types, PostedOnce
<1>9. Types'
  <2>1. file' \in [Fd -> Conn \cup {Nobody}]
    BY <1>1, <1>4 DEF Types
  <2>2. QED
    BY <1>2, <1>3, <1>8, <2>1 DEF Types
<1>10. AcceptedOnce'
  <2>1. client[c] # "unborn" /\ \A f \in Fd : file[f] # c
    BY <1>3 DEF AcceptedOnce
  <2>2. QED
    BY <1>2, <1>3, <1>6, <2>1 DEF AcceptedOnce
<1>11. \A f \in Elements(message_que) : f \in Fd
  BY LenProperties, ElementOfSeq DEF Types, Elements
<1>12. PostedOnce'
  BY <1>2, <1>4, <1>5, <1>6, <1>7, <1>8, <1>11 DEF PostedOnce
<1>13. \A s \in Slave : \A f \in epoll[s] : f \in Fd
  BY DEF Types
<1>14. Watched' /\ OneHandler'
  BY <1>2, <1>4, <1>6, <1>7, <1>13 DEF Watched, OneHandler, Readable
<1>15. \A f \in Fd : file'[f] # Nobody => Known(f)'
  BY <1>2, <1>6, <1>8 DEF Known
<1>16. QED
  BY <1>9, <1>10, <1>12, <1>14, <1>15

(* A slave watches what it takes, unless it has an event of the number left.  *)
LEMMA RegisterStep ==
    ASSUME ServerInv, NEW s \in Slave, Register(s)
    PROVE  ServerInv'
<1> USE DEF ServerInv
<1> PICK fd : fd = Head(message_que)
  OBVIOUS
<1>1. /\ message_que # <<>> /\ message_que' = Tail(message_que)
      /\ EventAdd(s, fd)
      /\ active[s] = <<>>
      /\ UNCHANGED <<client, inbox, backlog, file, active>>
  BY DEF Register, clientVars
<1>2. /\ message_que' \in Seq(Fd)
      /\ Distinct(message_que')
      /\ fd \in Elements(message_que)
      /\ Elements(message_que') = Elements(message_que) \ {fd}
  BY <1>1, TailDistinct DEF Types, PostedOnce
<1>3. fd \in Fd /\ file[fd] # Nobody /\ \A t \in Slave : fd \notin epoll[t]
  BY <1>1, <1>2, HeadTailProperties DEF Types, PostedOnce
<1>4. nread' = [nread EXCEPT ![s][fd] = @ + 1]
  BY <1>1 DEF EventAdd
<1>5. /\ nread' \in [Slave -> [Fd -> Nat]]
      /\ nread'[s][fd] = nread[s][fd] + 1 /\ nread[s][fd] \in Nat
      /\ \A t \in Slave : \A f \in Fd : t # s \/ f # fd => nread'[t][f] = nread[t][f]
  BY <1>3, <1>4 DEF Types
<1>6. /\ epoll' \in [Slave -> SUBSET Fd]
      /\ \A t \in Slave \ {s} : epoll'[t] = epoll[t]
      /\ epoll'[s] = IF nread[s][fd] = 0 THEN epoll[s] \cup {fd} ELSE epoll[s]
  BY <1>1, <1>3 DEF EventAdd, FirstOf, Types
<1>7. Types' /\ AcceptedOnce'
  BY <1>1, <1>2, <1>5, <1>6 DEF Types, AcceptedOnce
<1>8. PostedOnce'
  <2>1. \A t \in Slave : epoll'[t] \subseteq epoll[t] \cup {fd}
    BY <1>6
  <2>2. QED
    BY <1>1, <1>2, <2>1 DEF PostedOnce
<1>9. \A t \in Slave : \A f \in epoll[t] : f \in Fd
  BY DEF Types
<1>10. Watched'
  <2> SUFFICES ASSUME NEW t \in Slave, NEW f \in epoll'[t]
               PROVE  /\ file[f] # Nobody
                      /\ nread'[t][f] = 1
                      /\ \A u \in Slave \ {t} : f \notin epoll'[u]
    BY <1>1 DEF Watched
  <2>1. CASE f = fd
    <3>1. t = s /\ nread[s][fd] = 0
      BY <1>3, <1>6, <2>1
    <3>2. QED
      BY <1>3, <1>5, <1>6, <2>1, <3>1
  <2>2. CASE f # fd
    <3>1. f \in epoll[t] /\ f \in Fd
      BY <1>6, <1>9, <2>2
    <3>2. QED
      BY <1>5, <1>6, <2>2, <3>1 DEF Watched
  <2>3. QED
    BY <2>1, <2>2
<1>11. OneHandler'
  <2>1. \A t \in Slave : epoll[t] \subseteq epoll'[t]
    BY <1>6
  <2>2. QED
    BY <1>1, <2>1 DEF OneHandler, Readable
<1>12. \A f \in Fd : file'[f] # Nobody => Known(f)'
  <2> SUFFICES ASSUME NEW f \in Fd, file[f] # Nobody PROVE Known(f)'
    BY <1>1
  <2>1. CASE f = fd
    BY <1>5, <2>1 DEF Known
  <2>2. CASE f # fd
    <3>1. Known(f)
      OBVIOUS
    <3>2. \A t \in Slave : nread'[t][f] = nread[t][f] /\ epoll[t] \subseteq epoll'[t]
      BY <1>5, <1>6, <2>2
    <3>3. QED
      BY <1>1, <1>2, <2>2, <3>1, <3>2 DEF Known
  <2>3. QED
    BY <2>1, <2>2
<1>13. QED
  BY <1>7, <1>8, <1>10, <1>11, <1>12

(* A descriptor that is watched has one event, hence one handler runs.         *)
LEMMA DispatchStep ==
    ASSUME ServerInv, NEW s \in Slave, Dispatch(s)
    PROVE  ServerInv'
<1> USE DEF ServerInv
<1>1. PICK fd \in epoll[s] :
         Readable(fd) /\ active' = [active EXCEPT ![s] = [k \in 1..nread[s][fd] |-> fd]]
  BY DEF Dispatch
<1>2. UNCHANGED <<client, inbox, backlog, file, message_que, nread, epoll>>
  BY DEF Dispatch, clientVars, postVars
<1>3. nread[s][fd] = 1 /\ fd \in Fd
  BY DEF Watched, Types
<1>4. [k \in 1..nread[s][fd] |-> fd] = <<fd>>
  BY <1>3
<1>5. active' = [active EXCEPT ![s] = <<fd>>]
  BY <1>1, <1>4
<1>6. /\ active' \in [Slave -> Seq(Fd)]
      /\ active'[s] = <<fd>> /\ \A t \in Slave \ {s} : active'[t] = active[t]
  BY <1>3, <1>5 DEF Types
<1>7. Types' /\ AcceptedOnce' /\ PostedOnce' /\ Watched'
  BY <1>2, <1>6 DEF Types, AcceptedOnce, PostedOnce, Watched
<1>8. OneHandler'
  BY <1>1, <1>2, <1>6 DEF OneHandler, Readable
<1>9. QED
  BY <1>2, <1>7, <1>8 DEF Known

(* The handler that runs is the last, for a descriptor that is watched.        *)
LEMMA HandlerRuns ==
    ASSUME ServerInv, NEW s \in Slave, NEW fd \in Fd, Handler(s, fd)
    PROVE  /\ fd \in epoll[s] /\ file[fd] # Nobody /\ nread[s][fd] = 1
           /\ Readable(fd)
           /\ \A t \in Slave \ {s} : fd \notin epoll[t]
           /\ fd \notin Elements(message_que)
           /\ active'[s] = <<>>
           /\ \A t \in Slave \ {s} : active'[t] = active[t]
           /\ active' \in [Slave -> Seq(Fd)]
           /\ UNCHANGED <<client, backlog, message_que>>
<1>1. active[s] # <<>> /\ fd = Head(active[s])
  BY DEF Handler
<1>2. PICK f \in epoll[s] : active[s] = <<f>> /\ Readable(f)
  BY <1>1 DEF ServerInv, OneHandler
<1>3. f = fd /\ Tail(active[s]) = <<>>
  BY <1>1, <1>2
<1>4. active' = [active EXCEPT ![s] = <<>>] /\ UNCHANGED <<client, backlog, message_que>>
  BY <1>3 DEF Handler, clientVars, postVars
<1>5. /\ active'[s] = <<>>
      /\ \A t \in Slave \ {s} : active'[t] = active[t]
      /\ active' \in [Slave -> Seq(Fd)]
  BY <1>4, EmptySeq DEF ServerInv, Types
<1>6. QED
  BY <1>2, <1>3, <1>4, <1>5 DEF ServerInv, Watched, PostedOnce

(* An error or a lack of memory closes the descriptor and leaves the event.    *)
LEMMA CloseStep ==
    ASSUME ServerInv, NEW s \in Slave, NEW fd \in Fd, Handler(s, fd), Close(fd),
           UNCHANGED inbox
    PROVE  ServerInv'
<1> USE DEF ServerInv
<1>1. /\ fd \in epoll[s] /\ file[fd] # Nobody
      /\ \A t \in Slave \ {s} : fd \notin epoll[t]
      /\ fd \notin Elements(message_que)
      /\ active'[s] = <<>>
      /\ \A t \in Slave \ {s} : active'[t] = active[t]
      /\ active' \in [Slave -> Seq(Fd)]
      /\ UNCHANGED <<client, backlog, message_que, nread, inbox>>
  BY HandlerRuns DEF Close
<1>2. /\ file' \in [Fd -> Conn \cup {Nobody}]
      /\ \A f \in Fd : file'[f] = IF f = fd THEN Nobody ELSE file[f]
  BY DEF Close, Types
<1>3. /\ epoll' \in [Slave -> SUBSET Fd]
      /\ \A t \in Slave : epoll'[t] = epoll[t] \ {fd}
  BY DEF Close, Types
<1>4. Types'
  BY <1>1, <1>2, <1>3 DEF Types
<1>5. AcceptedOnce'
  <2>1. \A c \in Elements(backlog) : c # Nobody
    BY LenProperties, ElementOfSeq, ServerAssumption DEF Types, Elements, ServerAssumption
  <2>2. QED
    BY ZenonT(60), <1>1, <1>2, <2>1 DEF AcceptedOnce
<1>6. \A f \in Elements(message_que) : f \in Fd
  BY LenProperties, ElementOfSeq DEF Types, Elements
<1>7. PostedOnce'
  BY ZenonT(60), <1>1, <1>2, <1>3, <1>6 DEF PostedOnce
<1>8. \A t \in Slave : \A f \in epoll[t] : f \in Fd
  BY DEF Types
<1>9. Watched'
  <2> SUFFICES ASSUME NEW t \in Slave, NEW f \in epoll'[t]
               PROVE  /\ file'[f] # Nobody
                      /\ nread'[t][f] = 1
                      /\ \A u \in Slave \ {t} : f \notin epoll'[u]
    BY DEF Watched
  <2>1. f \in epoll[t] /\ f # fd /\ f \in Fd
    BY <1>3, <1>8
  <2>2. file[f] # Nobody /\ nread[t][f] = 1 /\ \A u \in Slave \ {t} : f \notin epoll[u]
    BY <2>1 DEF Watched
  <2>3. QED
    BY <1>1, <1>2, <1>3, <2>1, <2>2
<1>10. OneHandler'
  <2> SUFFICES ASSUME NEW t \in Slave, active'[t] # <<>>
               PROVE  \E f \in epoll'[t] : active'[t] = <<f>> /\ Readable(f)'
    BY DEF OneHandler
  <2>1. t # s /\ active'[t] = active[t]
    BY <1>1
  <2>2. PICK f \in epoll[t] : active[t] = <<f>> /\ Readable(f)
    BY <2>1 DEF OneHandler
  <2>3. f \in epoll'[t] /\ f # fd
    BY <1>1, <1>3, <2>1
  <2>4. Readable(f)'
    BY <1>1, <1>2, <1>8, <2>2, <2>3 DEF Readable
  <2>5. QED
    BY <2>1, <2>2, <2>3, <2>4
<1>11. \A f \in Fd : file'[f] # Nobody => Known(f)'
  <2> SUFFICES ASSUME NEW f \in Fd, f # fd, file[f] # Nobody PROVE Known(f)'
    BY <1>2
  <2>1. Known(f)
    OBVIOUS
  <2>2. file'[f] = file[f] /\ \A t \in Slave : f \in epoll[t] => f \in epoll'[t]
    BY <1>2, <1>3
  <2>3. QED
    BY <1>1, <2>1, <2>2 DEF Known
<1>12. QED
  BY <1>4, <1>5, <1>7, <1>9, <1>10, <1>11

(* The end of the stream deletes the event and leaves the descriptor open.     *)
LEMMA ReadEndStep ==
    ASSUME ServerInv, NEW s \in Slave, NEW fd \in Fd, ReadEnd(s, fd)
    PROVE  ServerInv'
<1> USE DEF ServerInv
<1>1. /\ fd \in epoll[s] /\ file[fd] # Nobody /\ nread[s][fd] = 1
      /\ \A t \in Slave \ {s} : fd \notin epoll[t]
      /\ active'[s] = <<>>
      /\ \A t \in Slave \ {s} : active'[t] = active[t]
      /\ active' \in [Slave -> Seq(Fd)]
      /\ UNCHANGED <<client, backlog, message_que>>
  BY HandlerRuns DEF ReadEnd
<1>2. /\ client[file[fd]] = "shut" /\ inbox[file[fd]] = 0 /\ EventDel(s, fd)
      /\ UNCHANGED <<inbox, file>>
  BY DEF ReadEnd, AtEnd
<1>3. nread' = [nread EXCEPT ![s][fd] = @ - 1]
  BY <1>2 DEF EventDel
<1>4. /\ nread' \in [Slave -> [Fd -> Nat]]
      /\ \A t \in Slave : \A f \in Fd : t # s \/ f # fd => nread'[t][f] = nread[t][f]
  <2>1. nread[s] \in [Fd -> Nat] /\ nread[s][fd] - 1 \in Nat
    BY <1>1 DEF Types
  <2>2. QED
    BY <1>3, <2>1 DEF Types
<1>5. /\ epoll' \in [Slave -> SUBSET Fd]
      /\ epoll'[s] = epoll[s] \ {fd}
      /\ \A t \in Slave \ {s} : epoll'[t] = epoll[t]
  BY <1>1, <1>2 DEF EventDel, Types
<1>6. Types' /\ AcceptedOnce'
  BY <1>1, <1>2, <1>4, <1>5 DEF Types, AcceptedOnce
<1>7. \A t \in Slave : epoll'[t] = epoll[t] \ {fd}
  BY SMTT(60), <1>1, <1>5
<1>8. PostedOnce'
  BY SMTT(60), <1>1, <1>2, <1>7 DEF PostedOnce
<1>9. \A t \in Slave : \A f \in epoll[t] : f \in Fd
  BY DEF Types
<1>10. Watched'
  <2> SUFFICES ASSUME NEW t \in Slave, NEW f \in epoll'[t]
               PROVE  /\ file'[f] # Nobody
                      /\ nread'[t][f] = 1
                      /\ \A u \in Slave \ {t} : f \notin epoll'[u]
    BY DEF Watched
  <2>1. f \in epoll[t] /\ f # fd /\ f \in Fd
    BY <1>7, <1>9
  <2>2. file[f] # Nobody /\ nread[t][f] = 1 /\ \A u \in Slave \ {t} : f \notin epoll[u]
    BY <2>1 DEF Watched
  <2>3. QED
    BY <1>2, <1>4, <1>7, <2>1, <2>2
<1>11. OneHandler'
  <2> SUFFICES ASSUME NEW t \in Slave, active'[t] # <<>>
               PROVE  \E f \in epoll'[t] : active'[t] = <<f>> /\ Readable(f)'
    BY DEF OneHandler
  <2>1. t # s /\ active'[t] = active[t]
    BY <1>1
  <2>2. QED
    BY <1>1, <1>2, <1>5, <2>1 DEF OneHandler, Readable
<1>12. \A f \in Fd : file'[f] # Nobody => Known(f)'
  <2> SUFFICES ASSUME NEW f \in Fd, file[f] # Nobody PROVE Known(f)'
    BY <1>2
  <2>1. CASE f = fd
    BY <1>1, <1>2, <2>1 DEF Known
  <2>2. CASE f # fd
    <3>1. \A t \in Slave : nread'[t][f] = nread[t][f] /\ (f \in epoll[t] => f \in epoll'[t])
      BY <1>4, <1>7, <2>2
    <3>2. Known(f)
      OBVIOUS
    <3>3. QED
      BY <1>1, <1>2, <3>1, <3>2 DEF Known
  <2>3. QED
    BY <2>1, <2>2
<1>13. QED
  BY <1>6, <1>8, <1>10, <1>11, <1>12

(* Data read, and the event stays: the handler's slave is free again. *)
LEMMA ReadDataStep ==
    ASSUME ServerInv, NEW s \in Slave, NEW fd \in Fd, ReadData(s, fd)
    PROVE  ServerInv'
<1> USE DEF ServerInv
<1>1. /\ active'[s] = <<>> /\ file[fd] # Nobody
      /\ \A t \in Slave \ {s} : active'[t] = active[t] /\ fd \notin epoll[t]
      /\ active' \in [Slave -> Seq(Fd)]
      /\ UNCHANGED <<client, backlog, message_que>>
  BY HandlerRuns DEF ReadData
<1>2. inbox' = [inbox EXCEPT ![file[fd]] = 0] /\ UNCHANGED <<file, nread, epoll>>
  BY DEF ReadData, EventStays
<1>3. inbox' \in [Conn -> Nat] /\ \A c \in Conn : inbox[c] = 0 => inbox'[c] = 0
  BY <1>2 DEF Types
<1>4. Types' /\ AcceptedOnce' /\ PostedOnce' /\ Watched'
  BY <1>1, <1>2, <1>3 DEF Types, AcceptedOnce, PostedOnce, Watched
<1>5. OneHandler'
  <2> SUFFICES ASSUME NEW t \in Slave, active'[t] # <<>>
               PROVE  \E f \in epoll'[t] : active'[t] = <<f>> /\ Readable(f)'
    BY DEF OneHandler
  <2>1. t # s /\ active'[t] = active[t]
    BY <1>1
  <2>2. PICK f \in epoll[t] : active[t] = <<f>> /\ Readable(f)
    BY <2>1 DEF OneHandler
  <2>3. f # fd /\ f \in Fd
    BY <1>1, <2>1, <2>2 DEF Types
  <2>4. file[f] # file[fd]
    BY <1>1, <2>3 DEF AcceptedOnce
  <2>5. inbox'[file[f]] = inbox[file[f]]
    BY <1>2, <2>4 DEF Types
  <2>6. QED
    BY <1>1, <1>2, <2>1, <2>2, <2>5 DEF Readable
<1>6. \A f \in Fd : file'[f] # Nobody => Known(f)'
  <2> SUFFICES ASSUME NEW f \in Fd, file[f] # Nobody PROVE Known(f)'
    BY <1>2
  <2>1. Known(f) /\ file[f] \in Conn
    BY DEF Types
  <2>2. QED
    BY <1>1, <1>2, <1>3, <2>1 DEF Known
<1>7. QED
  BY <1>4, <1>5, <1>6

(* No step of the clients, the master or a slave breaks the invariant.         *)
LEMMA StepServer == ServerInv /\ [Next]_vars => ServerInv'
<1> SUFFICES ASSUME ServerInv, [Next]_vars PROVE ServerInv'
  OBVIOUS
<1>1. ASSUME NEW s \in Slave, Handle(s) PROVE ServerInv'
  <2>1. PICK fd \in Fd :
           ReadError(s, fd) \/ ReadEnd(s, fd) \/ ReadData(s, fd) \/ NoMemory(s, fd)
    BY <1>1 DEF Handle
  <2>2. CASE ReadError(s, fd)
    BY <2>2, CloseStep DEF ReadError
  <2>3. CASE NoMemory(s, fd)
    BY <2>3, CloseStep DEF NoMemory
  <2>4. QED
    BY <2>1, <2>2, <2>3, ReadEndStep, ReadDataStep
<1>2. CASE UNCHANGED vars
  <2>1. UNCHANGED <<client, inbox, backlog, file, message_que, nread, epoll, active>>
    BY <1>2 DEF vars, clientVars, postVars
  <2>2. Types' /\ AcceptedOnce' /\ PostedOnce' /\ Watched'
    BY <2>1 DEF ServerInv, Types, AcceptedOnce, PostedOnce, Watched
  <2>3. OneHandler'
    BY <2>1 DEF ServerInv, OneHandler, Readable
  <2>4. \A fd \in Fd : file'[fd] # Nobody => Known(fd)'
    BY <2>1 DEF ServerInv, Known
  <2>5. QED
    BY <2>2, <2>3, <2>4 DEF ServerInv
<1>3. CASE Next
  BY <1>1, <1>3, ClientStep, AcceptStep, RegisterStep, DispatchStep DEF Next
<1>4. QED
  BY <1>2, <1>3

(* A descriptor is never read by two handlers, however many connections are    *)
(* reset or shut and in whatever order numbers are given out again; and what   *)
(* is open and not watched was shut by its client, or has a number with an     *)
(* event left, since slave_process_conn_bussiness_event_handler closes without *)
(* deleting the event and deletes the event without closing.                  *)
THEOREM DescriptorsCorrect == SafeSpec => []Descriptors
  BY InitServer, StepServer, InvImplies, PTL DEF SafeSpec

(* The server closes a connection only after the client has reset it, or when  *)
(* memory runs out: the numbers that are given out again, and the events that  *)
(* are left, do not close that of another.                                   *)
THEOREM OnlyResetClosedCorrect == SafeSpec => OnlyResetClosed
<1> DEFINE Justified ==
             \A fd \in Fd : file[fd] # Nobody /\ file'[fd] = Nobody =>
                client[file[fd]] = "reset" \/ file[fd] \in MayRunOut
<1>1. ServerInv /\ [Next]_vars => [Justified]_vars
  <2> SUFFICES ASSUME ServerInv, Next PROVE Justified
    OBVIOUS
  <2>1. CASE UNCHANGED file
    BY <2>1
  <2>2. ASSUME NEW s \in Slave, NEW fd \in Fd, ReadError(s, fd) PROVE Justified
    <3>1. file[fd] # Nobody /\ Readable(fd) /\ inbox[file[fd]] \in Nat
      BY <2>2, HandlerRuns DEF ReadError, ServerInv, Types
    <3>2. client[file[fd]] = "reset"
      BY <2>2, <3>1 DEF ReadError, Readable
    <3>3. \A f \in Fd : f # fd => file'[f] = file[f]
      BY <2>2 DEF ReadError, Close, ServerInv, Types
    <3>4. QED
      BY <3>2, <3>3
  <2>3. ASSUME NEW s \in Slave, NEW fd \in Fd, NoMemory(s, fd) PROVE Justified
    <3>1. \A f \in Fd : f # fd => file'[f] = file[f]
      BY <2>3 DEF NoMemory, Close, ServerInv, Types
    <3>2. QED
      BY <2>3, <3>1 DEF NoMemory
  <2>4. ASSUME Accept PROVE Justified
    <3>1. backlog # <<>> /\ Head(backlog) # Nobody
      BY <2>4, HeadTailProperties, ServerAssumption DEF Accept, ServerInv, Types,
         ServerAssumption
    <3>2. PICK fd \in Fd : file' = [file EXCEPT ![fd] = Head(backlog)]
      BY <2>4 DEF Accept, FreeFds
    <3>3. QED
      BY <3>1, <3>2 DEF ServerInv, Types
  <2>5. QED
    BY <2>1, <2>2, <2>3, <2>4 DEF Next, Connect, Send, Shut, Reset, Register, Dispatch,
       Handle, ReadEnd, AtEnd, ReadData, EventStays
<1>2. QED
  BY <1>1, InitServer, StepServer, PTL DEF SafeSpec, OnlyResetClosed

=============================================================================
