------------------------------- MODULE Server -------------------------------
(***************************************************************************)
(* The stream servers of libipc/net: inet_server.c and unix_server.c.      *)
(*                                                                         *)
(* The master accepts a connection and posts its descriptor; a slave then  *)
(* registers a persistent read event for it, whose handler reads and gives *)
(* what it has read to the application.  The handler deletes the event at  *)
(* the end of a stream, but does not close the descriptor, and closes the  *)
(* descriptor after an error, but does not delete the event.               *)
(*                                                                         *)
(* Which handlers run is up to libevent, which counts the events of each   *)
(* descriptor and tells epoll of the first that is added and of the last   *)
(* that is deleted only (evmap.c), and to the kernel, which forgets a      *)
(* descriptor when it is closed and gives its number out again.            *)
(***************************************************************************)
EXTENDS Integers, Sequences, FiniteSets

CONSTANTS Conn,        (* the connections the clients make                 *)
          MaxFd,       (* descriptors the process may have open for them   *)
          SlaveAmount, (* slaves of the process                            *)
          MayReset,    (* the connections that the client may reset        *)
          MayRunOut,   (* those for which the server may run out of memory *)
          MaxSends,    (* bound: what a client sends, in messages          *)
          Nobody

Fd == 1..MaxFd
Slave == 0..(SlaveAmount - 1)

ASSUME ServerAssumption ==
    /\ MaxFd \in Nat \ {0}
    /\ SlaveAmount \in Nat \ {0}
    /\ MayReset \subseteq Conn
    /\ MayRunOut \subseteq Conn
    /\ MaxSends \in Nat
    /\ Nobody \notin Conn

VARIABLES
    client,           (* client[c]: what the client has done               *)
    sent,             (* sent[c]: messages it has sent                     *)
    inbox,            (* inbox[c]: of these, the ones not read             *)
    backlog,          (* the connections to accept                         *)
    file,             (* file[fd]: the connection of a descriptor          *)
    assignment_count, (* the slave whose turn it is                        *)
    message_que,      (* the descriptors posted, for any slave             *)
    notified,         (* notified[s]: posts slave s has yet to take        *)
    nread,            (* nread[s][fd]: read events in the map of slave s   *)
    epoll,            (* epoll[s]: the descriptors its epoll watches       *)
    active            (* active[s]: the handlers to run, by descriptor     *)

clientVars == <<client, sent>>
postVars == <<assignment_count, message_que, notified>>
vars == <<clientVars, inbox, backlog, file, postVars, nread, epoll, active>>

Init ==
    /\ client = [c \in Conn |-> "unborn"]
    /\ sent = [c \in Conn |-> 0]
    /\ inbox = [c \in Conn |-> 0]
    /\ backlog = <<>>
    /\ file = [fd \in Fd |-> Nobody]
    /\ assignment_count = 0
    /\ message_que = <<>>
    /\ notified = [s \in Slave |-> 0]
    /\ nread = [s \in Slave |-> [fd \in Fd |-> 0]]
    /\ epoll = [s \in Slave |-> {}]
    /\ active = [s \in Slave |-> <<>>]
-----------------------------------------------------------------------------
(* The clients, and the kernel's part of their connections.                  *)
Connect(c) ==
    /\ client[c] = "unborn"
    /\ client' = [client EXCEPT ![c] = "open"]
    /\ backlog' = Append(backlog, c)
    /\ UNCHANGED <<sent, inbox, file, postVars, nread, epoll, active>>

Send(c) ==
    /\ client[c] = "open"
    /\ sent[c] < MaxSends
    /\ sent' = [sent EXCEPT ![c] = @ + 1]
    /\ inbox' = [inbox EXCEPT ![c] = @ + 1]
    /\ UNCHANGED <<client, backlog, file, postVars, nread, epoll, active>>

(* An orderly end, or an error; an error discards what has not been read.     *)
Shut(c) ==
    /\ client[c] = "open"
    /\ client' = [client EXCEPT ![c] = "shut"]
    /\ UNCHANGED <<sent, inbox, backlog, file, postVars, nread, epoll, active>>

Reset(c) ==
    /\ client[c] = "open"
    /\ c \in MayReset
    /\ client' = [client EXCEPT ![c] = "reset"]
    /\ inbox' = [inbox EXCEPT ![c] = 0]
    /\ UNCHANGED <<sent, backlog, file, postVars, nread, epoll, active>>
-----------------------------------------------------------------------------
(* Variant for mutation: a slave that is already notified is not told again.   *)
NotifyOnce(s) == notified' = [notified EXCEPT ![s] = 1]

Notify(s) == notified' = [notified EXCEPT ![s] = @ + 1]

(* The listen handler of the master: accept takes the lowest free number, and *)
(* fails if there is none.                                                    *)
FreeFds == {fd \in Fd : file[fd] = Nobody}

Accept ==
    /\ backlog # <<>>
    /\ \E fd \in FreeFds :
          /\ \A other \in FreeFds : fd <= other
          /\ file' = [file EXCEPT ![fd] = Head(backlog)]
          /\ message_que' = Append(message_que, fd)
    /\ backlog' = Tail(backlog)
    /\ assignment_count' = (assignment_count + 1) % SlaveAmount
    /\ Notify(assignment_count')
    /\ UNCHANGED <<clientVars, inbox, nread, epoll, active>>
-----------------------------------------------------------------------------
(* libevent.  Variant for mutation: epoll is told of every event.             *)
FirstOrLater(s, fd) == TRUE

(* evmap_io_add tells epoll of the first read event of a descriptor.          *)
FirstOf(s, fd) == nread[s][fd] = 0

EventAdd(s, fd) ==
    /\ nread' = [nread EXCEPT ![s][fd] = @ + 1]
    /\ epoll' = IF FirstOf(s, fd) THEN [epoll EXCEPT ![s] = @ \cup {fd}] ELSE epoll

(* evmap_io_del tells it when the last one is gone.                           *)
EventDel(s, fd) ==
    /\ nread' = [nread EXCEPT ![s][fd] = @ - 1]
    /\ epoll' = IF nread[s][fd] = 1 THEN [epoll EXCEPT ![s] = @ \ {fd}] ELSE epoll

(* close(): no epoll watches the descriptor any more.                        *)
Close(fd) ==
    /\ file' = [file EXCEPT ![fd] = Nobody]
    /\ epoll' = [s \in Slave |-> epoll[s] \ {fd}]
    /\ UNCHANGED nread

Readable(fd) ==
    LET c == file[fd] IN
    c # Nobody /\ (inbox[c] > 0 \/ client[c] \in {"shut", "reset"})

(* epoll_dispatch and evmap_io_active: each of the events is made active.     *)
Dispatch(s) ==
    /\ active[s] = <<>>
    /\ \E fd \in epoll[s] :
          /\ Readable(fd)
          /\ active' = [active EXCEPT ![s] = [k \in 1..nread[s][fd] |-> fd]]
    /\ UNCHANGED <<clientVars, inbox, backlog, file, postVars, nread, epoll>>
-----------------------------------------------------------------------------
(* slave_work_function: a slave that was notified takes the next post.  That  *)
(* it always finds one is shown in Concurrent, SlaveNeverDetachesNull.        *)
Register(s) ==
    /\ active[s] = <<>>
    /\ notified[s] > 0
    /\ message_que # <<>>
    /\ notified' = [notified EXCEPT ![s] = @ - 1]
    /\ message_que' = Tail(message_que)
    /\ EventAdd(s, Head(message_que))
    /\ UNCHANGED <<clientVars, inbox, backlog, file, assignment_count, active>>

(* slave_process_conn_bussiness_event_handler, up to the next handler.        *)
Handler(s, fd) ==
    /\ active[s] # <<>>
    /\ fd = Head(active[s])
    /\ active' = [active EXCEPT ![s] = Tail(@)]
    /\ UNCHANGED <<clientVars, backlog, postVars>>

(* What is done at the end of the stream: the number is never free again.      *)
AtEnd(s, fd) == EventDel(s, fd) /\ UNCHANGED file

ReadError(s, fd) ==
    LET c == file[fd] IN
    /\ Handler(s, fd)
    /\ c # Nobody => client[c] = "reset" \/ (client[c] = "open" /\ inbox[c] = 0)
    /\ Close(fd)
    /\ UNCHANGED inbox

ReadEnd(s, fd) ==
    LET c == file[fd] IN
    /\ Handler(s, fd)
    /\ c # Nobody
    /\ client[c] = "shut" /\ inbox[c] = 0
    /\ AtEnd(s, fd)
    /\ UNCHANGED inbox

(* Variant for mutation: the event is not persistent.                         *)
EventGone(s, fd) == EventDel(s, fd) /\ UNCHANGED file

EventStays(s, fd) == UNCHANGED <<file, nread, epoll>>

(* What was read goes to process_task_cb.                                    *)
ReadData(s, fd) ==
    LET c == file[fd] IN
    /\ Handler(s, fd)
    /\ c # Nobody
    /\ inbox[c] > 0
    /\ inbox' = [inbox EXCEPT ![c] = 0]
    /\ EventStays(s, fd)

NoMemory(s, fd) ==
    /\ Handler(s, fd)
    /\ file[fd] \in MayRunOut
    /\ Close(fd)
    /\ UNCHANGED inbox

Handle(s) ==
    \E fd \in Fd : ReadError(s, fd) \/ ReadEnd(s, fd) \/ ReadData(s, fd) \/ NoMemory(s, fd)

Next ==
    \/ \E c \in Conn : Connect(c) \/ Send(c) \/ Shut(c) \/ Reset(c)
    \/ Accept
    \/ \E s \in Slave : Register(s) \/ Dispatch(s) \/ Handle(s)

(* The loops of the master and the slaves run.  epoll reports every descriptor *)
(* that is ready, so that none waits for ever while it stays so.              *)
DispatchOf(s, fd) ==
    Dispatch(s) /\ active'[s] # <<>> /\ active'[s][1] = fd

Fairness ==
    /\ WF_vars(Accept)
    /\ \A s \in Slave :
          /\ SF_vars(Register(s))
          /\ WF_vars(Handle(s))
          /\ \A fd \in Fd : SF_vars(DispatchOf(s, fd))

SafeSpec == Init /\ [][Next]_vars
Spec == SafeSpec /\ Fairness
-----------------------------------------------------------------------------
Posted == {message_que[k] : k \in DOMAIN message_que}

(* A descriptor number that a slave still has an event for after it was        *)
(* closed; and one that nobody watches although it is open.                   *)
Stale(s, fd) == nread[s][fd] > 0 /\ fd \notin epoll[s]

WatchedOnce ==
    \A s \in Slave : \A fd \in epoll[s] :
        /\ file[fd] # Nobody
        /\ nread[s][fd] = 1
        /\ \A t \in Slave \ {s} : fd \notin epoll[t]
        /\ fd \notin Posted

LeaksKnown ==
    \A fd \in Fd : file[fd] # Nobody =>
        /\ \A other \in Fd \ {fd} : file[other] # file[fd]
        /\ \/ fd \in Posted
           \/ \E s \in Slave : fd \in epoll[s] \/ Stale(s, fd)
           \/ client[file[fd]] = "shut" /\ inbox[file[fd]] = 0

(* A descriptor that is watched is that of an open connection, is watched by    *)
(* one slave, and has one event there: no two handlers read from it, though    *)
(* closed numbers, whose events are left behind, are given out again.  A       *)
(* connection keeps one descriptor, and each that is open but not watched is   *)
(* about to be registered, was shut by its client, or has a number that is     *)
(* stale: this is all that the missing calls of the handler leak.              *)
Descriptors == WatchedOnce /\ LeaksKnown

(* The server closes the connection of no client that has it open, whatever    *)
(* happens to other connections, unless memory runs out.                       *)
OnlyResetClosed ==
    [][\A fd \in Fd : file[fd] # Nobody /\ file'[fd] = Nobody =>
          client[file[fd]] = "reset" \/ file[fd] \in MayRunOut]_vars

(* What a client sends is read in the end, unless it gives up the connection,   *)
(* all descriptors are taken when it is to be accepted, or the one it gets has *)
(* been closed before: then it may wait for ever.                              *)
Accepted(c) == \E fd \in Fd : file[fd] = c

NotServed(c) ==
    \/ ~Accepted(c) /\ FreeFds = {}
    \/ \E fd \in Fd : /\ file[fd] = c
                      /\ fd \notin Posted
                      /\ \A s \in Slave : fd \notin epoll[s]
                      /\ \E s \in Slave : Stale(s, fd)
    \/ ~Accepted(c) /\ c \in MayRunOut

DataIsRead == \A c \in Conn : (inbox[c] > 0) ~> (inbox[c] = 0 \/ NotServed(c))
=============================================================================
