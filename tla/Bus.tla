-------------------------------- MODULE Bus --------------------------------
(***************************************************************************)
(* The message bus of libbus: the buses of the applications (bus.c) and    *)
(* the daemon that connects them (busd.c).                                 *)
(*                                                                         *)
(* A bus adds objects to the daemon, looks them up, and invokes their      *)
(* methods: the daemon forwards an invocation to the bus the object came   *)
(* from, whose handler runs the method and replies over the daemon.  All   *)
(* messages go over streams, and a handler takes what a read returns for   *)
(* one message: what follows the first message in it is lost.              *)
(*                                                                         *)
(* A bus composes all its requests in one blob that is never reset, and    *)
(* sends the table at the head of it: that of its first request.           *)
(*                                                                         *)
(* Each bus has the thread of the application that makes requests and the  *)
(* slave that handles messages; the daemon has one slave, the default of   *)
(* concurrent.c, so that each of its handlers is one step.                 *)
(***************************************************************************)
EXTENDS Integers, Sequences, FiniteSets

CONSTANTS Bus,         (* the buses connected to the daemon                *)
          Name,        (* names of objects                                 *)
          Method,      (* names of methods                                 *)
          Prefix,      (* what strncmp compares of a method's name: as     *)
                       (* many characters as a pointer has bytes           *)
          MethodsOf,   (* the methods of the object with a name, in order  *)
          Result,      (* what the handler of a method returns             *)
          FdOf,        (* the daemon's file descriptor for each bus        *)
          Asks,        (* the requests the application makes of each bus   *)
          MayLeave,    (* the buses whose process may end                  *)
          MaxRequests, (* bound: requests of each bus                      *)
          None

FdWidth == 256      (* busd_object_t keeps the descriptor in a uint8_t       *)
Unanswered == 65535 (* 0xffff, what bus_invoke_sync waits to see changed    *)
TimedOut == -99

Op == {"add", "lookup", "invoke", "sync"}
Request == [op : Op, name : Name, method : Method \cup {None}]

(* The table of a request, by what was composed in it.                       *)
Table == [of : {"object", "lookup", "invoke"}, name : Name, method : Method \cup {None}]

(* A request is known by its bus and its number.                             *)
Id == UNION {{b} \X (1..MaxRequests[b]) : b \in Bus}

(* What a bus_invoke_sync leaves in the map while it waits.                  *)
Waiting == [no : Nat, method : Method \cup {None}, state : Int, buffer : BOOLEAN,
            answer : Id \cup {None}]

ASSUME BusAssumption ==
    /\ Prefix \in [Method -> Method]
    /\ MethodsOf \in [Name -> Seq(Method)]
    /\ Result \in [Method -> Nat]
    /\ \A m \in Method : Result[m] < 32768
    /\ FdOf \in [Bus -> Nat]
    /\ \A b \in Bus : FdOf[b] < FdWidth
    /\ \A b, c \in Bus : FdOf[b] = FdOf[c] => b = c
    /\ Asks \in [Bus -> SUBSET Request]
    /\ MayLeave \subseteq Bus
    /\ MaxRequests \in [Bus -> Nat]
    /\ None \notin Bus \cup Name \cup Method \cup Table \cup Request \cup Waiting

VARIABLES
    (* The buses.                                                          *)
    table,     (* table[b]: the first table of the blob of b               *)
    asked,     (* asked[b]: requests b has made                            *)
    call,      (* call[b]: where the application's thread is in a request  *)
    obj_hmap,  (* obj_hmap[b]: the objects b runs methods of               *)
    req_hmap,  (* req_hmap[b]: the request a bus_invoke_sync waits with    *)
    found,     (* found[b]: the reply the slave is about to store          *)
    connected, (* the buses whose process is alive                         *)
    (* The daemon.                                                         *)
    objects,   (* the objects added, the newest first                      *)
    (* The streams.                                                        *)
    to_busd, to_bus,
    fault,     (* "none", or what has gone wrong in memory                 *)
    (* History.                                                            *)
    invoked,   (* the invocations that were sent                           *)
    ran,       (* the methods that were run                                *)
    answered,  (* the invocations whose reply was handled                  *)
    returned   (* what calls of bus_invoke_sync returned                   *)

busVars == <<table, asked, call, obj_hmap, req_hmap, found, connected>>
vars == <<busVars, objects, to_busd, to_bus, fault, invoked, ran, answered,
          returned>>

Init ==
    /\ table = [b \in Bus |-> None]
    /\ asked = [b \in Bus |-> 0]
    /\ call = [b \in Bus |-> None]
    /\ obj_hmap = [b \in Bus |-> {}]
    /\ req_hmap = [b \in Bus |-> None]
    /\ found = [b \in Bus |-> None]
    /\ connected = Bus
    /\ objects = <<>>
    /\ to_busd = [b \in Bus |-> <<>>]
    /\ to_bus = [b \in Bus |-> <<>>]
    /\ fault = "none"
    /\ invoked = {}
    /\ ran = {}
    /\ answered = {}
    /\ returned = {}

Running == fault = "none"
Crash(what) == fault' = what

(* The 16 bits of a short.                                                   *)
AsShort(v) == IF v % 65536 < 32768 THEN v % 65536 ELSE (v % 65536) - 65536

(* What follows the first k messages of a stream.                            *)
Rest(s, k) == SubSeq(s, k + 1, Len(s))
-----------------------------------------------------------------------------
(* The application's thread of bus b.                                        *)

TableOf(r) ==
    [of |-> CASE r.op = "add" -> "object" [] r.op = "lookup" -> "lookup" [] OTHER -> "invoke",
     name |-> r.name, method |-> r.method]

TypeFor(r) ==
    CASE r.op = "add" -> "ADD_OBJECT" [] r.op = "lookup" -> "LOOKUP" [] OTHER -> "INVOKE"

(* The requests compose a table at the tail of the blob and send the one at   *)
(* its head, bus_send.                                                       *)
SendRequest(b, r) ==
    /\ asked' = [asked EXCEPT ![b] = @ + 1]
    /\ table' = [table EXCEPT ![b] = IF @ = None THEN TableOf(r) ELSE @]
    /\ to_busd' = [to_busd EXCEPT ![b] = Append(@, [type  |-> TypeFor(r),
                                                    id    |-> <<b, asked[b] + 1>>,
                                                    table |-> table'[b]])]
    /\ invoked' = IF TypeFor(r) = "INVOKE" THEN invoked \cup {<<b, asked[b] + 1>>} ELSE invoked

MayAsk(b, r) ==
    /\ Running
    /\ b \in connected
    /\ call[b] = None
    /\ asked[b] < MaxRequests[b]
    /\ r \in Asks[b]

(* bus_lookup; bus_invoke by itself.                                         *)
LookupOrInvoke(b, r) ==
    /\ MayAsk(b, r)
    /\ r.op \in {"lookup", "invoke"}
    /\ SendRequest(b, r)
    /\ UNCHANGED <<call, obj_hmap, req_hmap, found, connected, objects, to_bus,
                   fault, ran, answered, returned>>

(* bus_add_object sends the object to the daemon ...                          *)
AddObject(b, r) ==
    /\ MayAsk(b, r)
    /\ r.op = "add"
    /\ SendRequest(b, r)
    /\ call' = [call EXCEPT ![b] = r]
    /\ UNCHANGED <<obj_hmap, req_hmap, found, connected, objects, to_bus, fault,
                   ran, answered, returned>>

(* ... and only then enters it in its own map, __bus_add_obj.                 *)
EnterObject(b) ==
    /\ Running
    /\ b \in connected
    /\ call[b] # None /\ call[b].op = "add"
    /\ obj_hmap' = [obj_hmap EXCEPT ![b] = @ \cup {call[b].name}]
    /\ call' = [call EXCEPT ![b] = None]
    /\ UNCHANGED <<table, asked, req_hmap, found, connected, objects, to_busd,
                   to_bus, fault, ran, answered, returned, invoked>>

(* bus_invoke_sync enters a request under the method, without a buffer ...    *)
InsertRequest(b, r) ==
    /\ MayAsk(b, r)
    /\ r.op = "sync"
    /\ req_hmap' = [req_hmap EXCEPT ![b] = [no     |-> asked[b] + 1,
                                            method |-> r.method,
                                            state  |-> AsShort(Unanswered),
                                            buffer |-> FALSE,
                                            answer |-> None]]
    /\ call' = [call EXCEPT ![b] = r]
    /\ UNCHANGED <<table, asked, obj_hmap, found, connected, objects, to_busd,
                   to_bus, fault, ran, answered, returned, invoked>>

(* ... gives it its buffer and invokes ...                                    *)
InvokeForRequest(b) ==
    /\ Running
    /\ b \in connected
    /\ call[b] # None /\ call[b].op = "sync"
    /\ ~req_hmap[b].buffer
    /\ SendRequest(b, call[b])
    /\ req_hmap' = [req_hmap EXCEPT ![b].buffer = TRUE]
    /\ UNCHANGED <<call, obj_hmap, found, connected, objects, to_bus, fault, ran,
                   answered, returned>>

(* ... and returns the state, any time later: at once if the state is not     *)
(* Unanswered, and after sleeping a few times if it stays that.               *)
StateReturned(state) == IF state = Unanswered THEN TimedOut ELSE state

(* Variant for mutation: the request is not deleted.                          *)
RequestKept(b) == UNCHANGED req_hmap

DeleteRequest(b) == req_hmap' = [req_hmap EXCEPT ![b] = None]

ReturnFromSync(b) ==
    /\ Running
    /\ b \in connected
    /\ call[b] # None /\ call[b].op = "sync"
    /\ req_hmap[b].buffer
    /\ returned' = returned \cup {[bus    |-> b,
                                   method |-> call[b].method,
                                   state  |-> StateReturned(req_hmap[b].state),
                                   answer |-> req_hmap[b].answer]}
    /\ DeleteRequest(b)
    /\ call' = [call EXCEPT ![b] = None]
    /\ UNCHANGED <<table, asked, obj_hmap, found, connected, objects, to_busd,
                   to_bus, fault, ran, answered, invoked>>
-----------------------------------------------------------------------------
(* The daemon.  A read returns the first messages of the stream of a bus, the *)
(* handler for the type of the first one runs, and the others are lost.       *)
BusdRead(b, type) ==
    /\ Running
    /\ to_busd[b] # <<>>
    /\ Head(to_busd[b]).type = type
    /\ \E k \in 1..Len(to_busd[b]) : to_busd' = [to_busd EXCEPT ![b] = Rest(@, k)]
    /\ UNCHANGED <<busVars, ran, answered, returned, invoked>>

(* write() to a descriptor.  That of a bus that has ended is still open: what *)
(* is written is lost, or SIGPIPE ends the daemon.                            *)
Write(fd, m) ==
    \E c \in Bus :
        /\ FdOf[c] = fd
        /\ \/ /\ c \in connected
              /\ to_bus' = [to_bus EXCEPT ![c] = Append(@, m)]
              /\ UNCHANGED fault
           \/ /\ c \notin connected
              /\ UNCHANGED to_bus
              /\ fault' \in {"none", "SIGPIPE"}

(* blob_parse_to_attr leaves what the table does not have uninitialised.      *)
NoAttribute == Crash("no attribute") /\ UNCHANGED <<objects, to_bus>>

(* busd_create_bus_object: the newest of a name is found first.               *)
ObjectOf(b, m) == [name |-> m.table.name, fd |-> FdOf[b] % FdWidth]

BusdAddObject(b) ==
    /\ BusdRead(b, "ADD_OBJECT")
    /\ LET m == Head(to_busd[b]) IN
       \/ /\ m.table.of = "object"
          /\ objects' = <<ObjectOf(b, m)>> \o objects
          /\ Write(FdOf[b], [type |-> "REPLY_ADD_OBJECT", name |-> m.table.name])
       \/ m.table.of # "object" /\ NoAttribute

(* Variant for mutation: the first object is found whatever its name.         *)
FindsAny(name, k) == k = 1

(* hash_map_search finds the k-th of the objects.                            *)
Finds(name, k) ==
    /\ objects[k].name = name
    /\ \A j \in 1..(k - 1) : objects[j].name # name

Unknown(name) == \A k \in DOMAIN objects : objects[k].name # name

BusdLookup(b) ==
    /\ BusdRead(b, "LOOKUP")
    /\ LET m == Head(to_busd[b]) IN
       \/ /\ m.table.of # "invoke"
          /\ \/ /\ ~Unknown(m.table.name)
                /\ Write(FdOf[b], [type |-> "REPLY_LOOKUP", name |-> m.table.name])
             \/ Unknown(m.table.name) /\ UNCHANGED <<to_bus, fault>>
          /\ UNCHANGED objects
       \/ m.table.of = "invoke" /\ NoAttribute

(* Variant for mutation: the daemon answers for an object it does not have.   *)
AnswerForObject(b, m) ==
    Write(FdOf[b], [type   |-> "REPLY_INVOKE",
                    id     |-> m.id,
                    name   |-> m.table.name,
                    method |-> m.table.method,
                    state  |-> 0])

(* busd_handle_invoke_method reads the descriptor of an object that was not   *)
(* found through a NULL pointer.                                              *)
NoObject(b, m) == Crash("no object") /\ UNCHANGED to_bus

BusdInvoke(b) ==
    /\ BusdRead(b, "INVOKE")
    /\ LET m == Head(to_busd[b]) IN
       \/ /\ m.table.of = "invoke"
          /\ \/ \E k \in DOMAIN objects :
                   /\ Finds(m.table.name, k)
                   /\ Write(objects[k].fd, [type   |-> "FORWARD_INVOKE",
                                            id     |-> m.id,
                                            name   |-> m.table.name,
                                            method |-> m.table.method,
                                            src    |-> FdOf[b]])
             \/ Unknown(m.table.name) /\ NoObject(b, m)
          /\ UNCHANGED objects
       \/ m.table.of # "invoke" /\ NoAttribute

(* Variant for mutation: the reply is sent back to the bus that replies.      *)
ReplyBack(b, m) == FdOf[b]

(* busd_handle_forward_invoke_reply writes to the source_fd of the reply.     *)
ReplyTo(b, m) == m.src

BusdForwardReply(b) ==
    /\ BusdRead(b, "REPLY_FORWARD_INVOKE")
    /\ LET m == Head(to_busd[b]) IN
       Write(ReplyTo(b, m), [type   |-> "REPLY_INVOKE",
                             id     |-> m.id,
                             name   |-> m.name,
                             method |-> m.method,
                             state  |-> m.state])
    /\ UNCHANGED objects
-----------------------------------------------------------------------------
(* The slave of bus b, which reads in the same way.                          *)
BusRead(b, types) ==
    /\ Running
    /\ b \in connected
    /\ found[b] = None
    /\ to_bus[b] # <<>>
    /\ Head(to_bus[b]).type \in types
    /\ \E k \in 1..Len(to_bus[b]) : to_bus' = [to_bus EXCEPT ![b] = Rest(@, k)]

(* The replies to add_object and lookup are only logged.                      *)
LogReply(b) ==
    /\ BusRead(b, {"REPLY_ADD_OBJECT", "REPLY_LOOKUP"})
    /\ UNCHANGED <<busVars, objects, to_busd, fault, ran, answered, returned, invoked>>

(* Variant for mutation: the first method is taken whatever its name.         *)
HandlesAny(name, method, k) == k = 1

(* bus_get_method_handler takes the first method that compares equal.         *)
Handles(name, method, k) ==
    /\ Prefix[MethodsOf[name][k]] = Prefix[method]
    /\ \A j \in 1..(k - 1) : Prefix[MethodsOf[name][j]] # Prefix[method]

(* bus_handle_forward_invoke: nothing happens if the object is not in the     *)
(* map; a method the object does not have is a call through NULL.             *)
HandleForward(b) ==
    /\ BusRead(b, {"FORWARD_INVOKE"})
    /\ LET m == Head(to_bus[b])
           handlers == MethodsOf[m.name]
       IN
       \/ /\ m.name \in obj_hmap[b]
          /\ \E k \in DOMAIN handlers :
                /\ Handles(m.name, m.method, k)
                /\ ran' = ran \cup {[id |-> m.id, by |-> b, name |-> m.name,
                                     method |-> handlers[k]]}
                /\ to_busd' = [to_busd EXCEPT ![b] =
                                  Append(@, [type   |-> "REPLY_FORWARD_INVOKE",
                                             id     |-> m.id,
                                             name   |-> m.name,
                                             method |-> m.method,
                                             state  |-> Result[handlers[k]],
                                             src    |-> m.src])]
          /\ UNCHANGED fault
       \/ /\ m.name \in obj_hmap[b]
          /\ \A k \in DOMAIN handlers : Prefix[handlers[k]] # Prefix[m.method]
          /\ Crash("no method")
          /\ UNCHANGED <<ran, to_busd>>
       \/ /\ m.name \notin obj_hmap[b]
          /\ UNCHANGED <<ran, to_busd, fault>>
    /\ UNCHANGED <<busVars, objects, answered, returned, invoked>>

(* Variant for mutation: any request is taken.                               *)
WaitsForAny(b, m) == req_hmap[b] # None

(* hash_map_search of the method in the requests of b.                       *)
WaitsFor(b, m) == req_hmap[b] # None /\ req_hmap[b].method = m.method

(* bus_handle_invoke_reply looks up the request by its method ...             *)
HandleReply(b) ==
    /\ BusRead(b, {"REPLY_INVOKE"})
    /\ LET m == Head(to_bus[b]) IN
       /\ answered' = answered \cup {[id |-> m.id, at |-> b]}
       /\ found' = [found EXCEPT ![b] =
                      IF WaitsFor(b, m) THEN [reply |-> m, request |-> req_hmap[b].no]
                      ELSE None]
    /\ UNCHANGED <<table, asked, call, obj_hmap, req_hmap, connected, objects,
                   to_busd, fault, ran, returned, invoked>>

(* Variant for mutation: the slave never gets past the request.              *)
NotStored(b) == UNCHANGED found

(* The slave goes on to read.                                                *)
Stored(b) == found' = [found EXCEPT ![b] = None]

(* ... and writes into it without a lock: bus_invoke_sync may have deleted it *)
(* by then, or not have given it its buffer yet.                              *)
StoreReply(b) ==
    LET present == /\ req_hmap[b] # None
                   /\ req_hmap[b].no = found[b].request
                   /\ req_hmap[b].buffer
    IN
    /\ Running
    /\ b \in connected
    /\ found[b] # None
    /\ Stored(b)
    /\ \/ /\ present
          /\ req_hmap' = [req_hmap EXCEPT ![b].state  = AsShort(found[b].reply.state),
                                          ![b].answer = found[b].reply.id]
          /\ UNCHANGED fault
       \/ /\ ~present
          /\ Crash("stray write")
          /\ UNCHANGED req_hmap
    /\ UNCHANGED <<table, asked, call, obj_hmap, connected, objects, to_busd,
                   to_bus, ran, answered, returned, invoked>>
-----------------------------------------------------------------------------
(* The process of a bus ends.  The daemon sees the end of the stream and       *)
(* deletes the event, but closes no descriptor and keeps the objects.         *)
Leave(b) ==
    /\ Running
    /\ b \in MayLeave \cap connected
    /\ connected' = connected \ {b}
    /\ to_bus' = [to_bus EXCEPT ![b] = <<>>]
    /\ UNCHANGED <<table, asked, call, obj_hmap, req_hmap, found, objects,
                   to_busd, fault, ran, answered, returned, invoked>>

Application(b) ==
    \/ \E r \in Asks[b] : LookupOrInvoke(b, r) \/ AddObject(b, r) \/ InsertRequest(b, r)
    \/ EnterObject(b)
    \/ InvokeForRequest(b)
    \/ ReturnFromSync(b)

Slave(b) == LogReply(b) \/ HandleForward(b) \/ HandleReply(b) \/ StoreReply(b)

Busd(b) == BusdAddObject(b) \/ BusdLookup(b) \/ BusdInvoke(b) \/ BusdForwardReply(b)

Next == \E b \in Bus : Application(b) \/ Slave(b) \/ Busd(b) \/ Leave(b)

(* The slave of a bus that is alive and that of the daemon keep running.      *)
Fairness == \A b \in Bus : WF_vars(Slave(b)) /\ WF_vars(Busd(b))

SafeSpec == Init /\ [][Next]_vars
Spec == SafeSpec /\ Fairness
-----------------------------------------------------------------------------
Busy(r) == r.op \in {"add", "sync"}

TypeOK ==
    /\ table \in [Bus -> Table \cup {None}]
    /\ \A b \in Bus : asked[b] \in 0..MaxRequests[b]
    /\ \A b \in Bus : call[b] = None \/ (call[b] \in Asks[b] /\ Busy(call[b]))
    /\ obj_hmap \in [Bus -> SUBSET Name]
    /\ \A b \in Bus : req_hmap[b] # None <=> call[b] # None /\ call[b].op = "sync"
    /\ connected \subseteq Bus
    /\ objects \in Seq([name : Name, fd : 0..(FdWidth - 1)])
    /\ fault \in {"none", "SIGPIPE", "no attribute", "no object", "no method", "stray write"}
    /\ invoked \subseteq Id
    /\ answered \subseteq [id : Id, at : Bus]

InStream(s, type) == {m \in {s[k] : k \in DOMAIN s} : m.type = type}

RepliesToInvoker == \A a \in answered : a.id[1] = a.at

ForwardsToProvider ==
    \A b \in Bus : \A m \in InStream(to_bus[b], "FORWARD_INVOKE") :
        table[b] # None /\ table[b].of = "object" /\ table[b].name = m.name

(* A bus is forwarded only invocations of the object it added itself, and a     *)
(* reply reaches the bus that made the invocation, whichever bus ran it and    *)
(* however many are made at a time: the daemon knows the buses as descriptors  *)
(* in a byte, which make the round trip through forward and reply.             *)
Routed == RepliesToInvoker /\ ForwardsToProvider

(* What is run is a method of the object asked for that compares equal to the  *)
(* one asked for, and nothing is run that the first request of its bus did     *)
(* not ask for: later requests send the table of the first one.                *)
RanAsAsked ==
    \A r \in ran :
        LET t == table[r.id[1]] IN
        /\ t.of = "invoke"
        /\ r.name = t.name
        /\ Prefix[r.method] = Prefix[t.method]

(* What bus_invoke_sync returns is not the answer to someone else's call: if   *)
(* a reply was stored, it is that to an invocation of the same method by the   *)
(* same bus, though maybe an earlier one, and the state is what the method     *)
(* returned.                                                                   *)
SyncAnswerOwn ==
    \A s \in returned : s.answer # None =>
        /\ s.answer[1] = s.bus
        /\ \E r \in ran : /\ r.id = s.answer
                           /\ Prefix[r.method] = Prefix[s.method]
                           /\ s.state = Result[r.method]

(* What bus_invoke_sync returns is the answer of the method, or TimedOut.      *)
SyncAnswers == \A s \in returned : s.answer # None \/ s.state = TimedOut

(* How far an invocation is, from where its message is found.                  *)
StatusOf(c) ==
    LET In(streams, type) ==
            \E b \in Bus : \E m \in InStream(streams[b], type) : m.id = c
    IN  IF \E a \in answered : a.id = c THEN "answered"
        ELSE IF /\ \E r \in ran : r.id = c
                /\ In(to_busd, "REPLY_FORWARD_INVOKE") \/ In(to_bus, "REPLY_INVOKE")
             THEN "run"
        ELSE IF In(to_busd, "INVOKE") \/ In(to_bus, "FORWARD_INVOKE") THEN "sent"
        ELSE IF c \notin invoked THEN "none"
        ELSE "lost"

Calls == INSTANCE Rpc WITH Call <- Id, status <- [c \in Id |-> StatusOf(c)]

(* Invocations over the bus are invocations of the abstract kind: run at most  *)
(* once each and answered after that, or lost.                                 *)
RpcSpec == Calls!Spec

(* An invocation is not left in a stream: it is answered or lost, unless       *)
(* memory is damaged.                                                          *)
InvocationEnds ==
    \A c \in Id : (StatusOf(c) \in {"sent", "run"})
                     ~> (StatusOf(c) \in {"answered", "lost"} \/ fault # "none")
=============================================================================
