----------------------------- MODULE BusProofs -----------------------------
(***************************************************************************)
(* Proofs about Bus for any buses, objects, methods and requests, any      *)
(* descriptors that fit in a byte and any number of invocations under way. *)
(***************************************************************************)
EXTENDS Bus, SequenceFacts

(* A remainder by a larger number is the number itself: AsShort and FdWidth use it. *)
LEMMA SmallModulo ==
    ASSUME NEW n \in Nat, NEW w \in Nat, n < w
    PROVE  n % w = n
  OBVIOUS

(* A descriptor makes the round trip through a byte.                         *)
LEMMA ByteRoundTrip ==
    ASSUME NEW b \in Bus
    PROVE  FdOf[b] % FdWidth = FdOf[b]
<1>1. FdOf[b] \in Nat /\ FdOf[b] < FdWidth
  BY BusAssumption DEF BusAssumption
<1>2. QED
  BY <1>1, SmallModulo DEF FdWidth

-----------------------------------------------------------------------------
(* The table of a bus that composes one of a kind stays what it is.           *)
ObjectTable(b, name) ==
    b \in Bus /\ table[b] # None /\ table[b].of = "object" /\ table[b].name = name

InvokeTable(b, name, method) ==
    /\ b \in Bus
    /\ table[b] # None
    /\ table[b].of = "invoke"
    /\ table[b].name = name
    /\ table[b].method = method

(* An invocation under way carries the descriptor and the table of the bus    *)
(* that made it.                                                             *)
Invocation(m) == InvokeTable(m.id[1], m.name, m.method) /\ m.src = FdOf[m.id[1]]

(* The method that an invocation asked for has run and returned the state.     *)
MethodReply(m) ==
    \E r \in ran :
        r.id = m.id /\ Prefix[r.method] = Prefix[m.method] /\ m.state = Result[r.method]

(* What holds of a message of bus b to the daemon, and of one to bus b.        *)
FromBus(b, m) ==
    /\ m.type \in {"ADD_OBJECT", "LOOKUP", "INVOKE"} =>
          m.id[1] = b /\ table[b] # None /\ m.table = table[b]
    /\ m.type = "REPLY_FORWARD_INVOKE" => Invocation(m) /\ MethodReply(m)

ForBus(b, m) ==
    /\ m.type = "FORWARD_INVOKE" => Invocation(m) /\ ObjectTable(b, m.name)
    /\ m.type = "REPLY_INVOKE" => m.id[1] = b /\ MethodReply(m)

Owned(o) == \E b \in Bus : o.fd = FdOf[b] /\ ObjectTable(b, o.name)

RanOwn(r) ==
    \E method : InvokeTable(r.id[1], r.name, method) /\ Prefix[r.method] = Prefix[method]

StreamsAreSequences ==
    /\ DOMAIN to_busd = Bus /\ \A b \in Bus : IsSeq(to_busd[b])
    /\ DOMAIN to_bus = Bus /\ \A b \in Bus : IsSeq(to_bus[b])
    /\ IsSeq(objects)

RequestsAsked ==
    /\ DOMAIN table = Bus
    /\ DOMAIN call = Bus
    /\ \A b \in Bus : call[b] # None => call[b] \in Asks[b]

StreamsSound ==
    /\ \A b \in Bus : \A m \in Elements(to_busd[b]) : FromBus(b, m)
    /\ \A b \in Bus : \A m \in Elements(to_bus[b]) : ForBus(b, m)

(* What holds of the messages under way, so that it holds of those handled.   *)
RouteInv ==
    /\ StreamsAreSequences
    /\ RequestsAsked
    /\ StreamsSound
    /\ \A o \in Elements(objects) : Owned(o)
    /\ \A r \in ran : RanOwn(r)
    /\ RepliesToInvoker

(* At first there are no messages and no objects.                            *)
LEMMA InitRoute == Init => RouteInv
<1> SUFFICES ASSUME Init PROVE RouteInv
  OBVIOUS
<1>1. StreamsAreSequences /\ RequestsAsked
  BY EmptyElements DEF Init, StreamsAreSequences, RequestsAsked
<1>2. /\ \A b \in Bus : Elements(to_busd[b]) = {} /\ Elements(to_bus[b]) = {}
      /\ Elements(objects) = {} /\ ran = {} /\ answered = {}
  BY EmptyElements DEF Init
<1>3. QED
  BY <1>1, <1>2 DEF RouteInv, StreamsSound, RepliesToInvoker

(* Tables that are composed stay, and what ran stays.                         *)
TablesKept == \A b \in Bus : table[b] # None => table'[b] = table[b]

(* What the tables and the runs say of a message stays so while they grow. *)
LEMMA KeptFacts ==
    ASSUME TablesKept, ran \subseteq ran'
    PROVE  /\ \A b, name : ObjectTable(b, name) => ObjectTable(b, name)'
           /\ \A m : Invocation(m) => Invocation(m)'
           /\ \A m : MethodReply(m) => MethodReply(m)'
           /\ \A b \in Bus : \A m : FromBus(b, m) => FromBus(b, m)'
           /\ \A b, m : ForBus(b, m) => ForBus(b, m)'
           /\ \A o : Owned(o) => Owned(o)'
           /\ \A r : RanOwn(r) => RanOwn(r)'
<1>1. \A b, name : ObjectTable(b, name) => ObjectTable(b, name)'
  BY DEF TablesKept, ObjectTable
<1>2. \A b, name, method : InvokeTable(b, name, method) => InvokeTable(b, name, method)'
  BY DEF TablesKept, InvokeTable
<1>3. \A m : Invocation(m) => Invocation(m)'
  BY <1>2 DEF Invocation
<1>4. \A m : MethodReply(m) => MethodReply(m)'
  BY DEF MethodReply
<1>5. \A b \in Bus : \A m : FromBus(b, m) => FromBus(b, m)'
  BY <1>3, <1>4 DEF FromBus, TablesKept
<1>6. \A b, m : ForBus(b, m) => ForBus(b, m)'
  BY <1>1, <1>3, <1>4 DEF ForBus
<1>7. \A o : Owned(o) => Owned(o)'
  BY <1>1 DEF Owned
<1>8. \A r : RanOwn(r) => RanOwn(r)'
  BY <1>2 DEF RanOwn
<1>9. QED
  BY <1>1, <1>3, <1>4, <1>5, <1>6, <1>7, <1>8

(* So it is enough to look at what is new in a step.                          *)
LEMMA OnlyNew ==
    ASSUME RouteInv, TablesKept, ran \subseteq ran',
           StreamsAreSequences', RequestsAsked',
           \A b \in Bus : \A m \in Elements(to_busd'[b]) :
               m \in Elements(to_busd[b]) \/ FromBus(b, m)',
           \A b \in Bus : \A m \in Elements(to_bus'[b]) :
               m \in Elements(to_bus[b]) \/ ForBus(b, m)',
           \A o \in Elements(objects') : o \in Elements(objects) \/ Owned(o)',
           \A r \in ran' : r \in ran \/ RanOwn(r)',
           \A a \in answered' : a \in answered \/ a.id[1] = a.at
    PROVE  RouteInv'
<1>1. StreamsSound'
  BY KeptFacts DEF RouteInv, StreamsSound
<1>2. \A o \in Elements(objects') : Owned(o)'
  BY KeptFacts DEF RouteInv
<1>3. \A r \in ran' : RanOwn(r)'
  BY KeptFacts DEF RouteInv
<1>4. RepliesToInvoker'
  BY DEF RouteInv, RepliesToInvoker
<1>5. QED
  BY <1>1, <1>2, <1>3, <1>4 DEF RouteInv

(* What is written to a descriptor gets to the bus that has it.               *)
LEMMA WriteArrives ==
    ASSUME StreamsAreSequences, NEW fd, NEW m, Write(fd, m)
    PROVE  /\ DOMAIN to_bus' = Bus
           /\ \A c \in Bus : IsSeq(to_bus'[c])
           /\ \A c \in Bus : \A e \in Elements(to_bus'[c]) :
                 e \in Elements(to_bus[c]) \/ (FdOf[c] = fd /\ e = m)
<1>1. PICK b \in Bus : /\ FdOf[b] = fd
                       /\ to_bus' = [to_bus EXCEPT ![b] = Append(@, m)] \/ to_bus' = to_bus
  BY DEF Write
<1>2. CASE to_bus' = [to_bus EXCEPT ![b] = Append(@, m)]
  <2>1. DOMAIN to_bus' = Bus /\ to_bus'[b] = Append(to_bus[b], m)
        /\ \A c \in Bus \ {b} : to_bus'[c] = to_bus[c]
    BY <1>2 DEF StreamsAreSequences
  <2>2. IsSeq(to_bus'[b]) /\ Elements(to_bus'[b]) = Elements(to_bus[b]) \cup {m}
    BY <2>1, AppendElements DEF StreamsAreSequences
  <2>3. QED
    BY <1>1, <2>1, <2>2 DEF StreamsAreSequences
<1>3. CASE to_bus' = to_bus
  BY <1>3 DEF StreamsAreSequences
<1>4. QED
  BY <1>1, <1>2, <1>3

(* What a read leaves in the streams to the daemon, and what it handles.       *)
LEMMA BusdReads ==
    ASSUME RouteInv, NEW b \in Bus, NEW type, BusdRead(b, type)
    PROVE  /\ DOMAIN to_busd' = Bus
           /\ \A c \in Bus : IsSeq(to_busd'[c])
           /\ \A c \in Bus : Elements(to_busd'[c]) \subseteq Elements(to_busd[c])
           /\ FromBus(b, Head(to_busd[b])) /\ Head(to_busd[b]).type = type
           /\ UNCHANGED <<busVars, ran, answered>>
<1>1. PICK k \in 1..Len(to_busd[b]) : to_busd' = [to_busd EXCEPT ![b] = Rest(@, k)]
  BY DEF BusdRead
<1>2. FromBus(b, Head(to_busd[b]))
  BY HeadElement DEF BusdRead, RouteInv, StreamsAreSequences, StreamsSound
<1>3. DOMAIN to_busd' = Bus /\ to_busd'[b] = Rest(to_busd[b], k) /\ \A c \in Bus \ {b} : to_busd'[c] = to_busd[c]
  BY <1>1 DEF RouteInv, StreamsAreSequences
<1>4. IsSeq(to_busd'[b]) /\ Elements(to_busd'[b]) \subseteq Elements(to_busd[b])
  BY <1>3, RestElements DEF Rest, RouteInv, StreamsAreSequences
<1>5. QED
  BY <1>2, <1>3, <1>4 DEF BusdRead, RouteInv, StreamsAreSequences

(* What a read leaves in the streams to the buses, and what it handles.        *)
LEMMA BusReads ==
    ASSUME RouteInv, NEW b \in Bus, NEW types, BusRead(b, types)
    PROVE  /\ DOMAIN to_bus' = Bus
           /\ \A c \in Bus : IsSeq(to_bus'[c])
           /\ \A c \in Bus : Elements(to_bus'[c]) \subseteq Elements(to_bus[c])
           /\ ForBus(b, Head(to_bus[b])) /\ Head(to_bus[b]).type \in types
<1>1. PICK k \in 1..Len(to_bus[b]) : to_bus' = [to_bus EXCEPT ![b] = Rest(@, k)]
  BY DEF BusRead
<1>2. ForBus(b, Head(to_bus[b]))
  BY HeadElement DEF BusRead, RouteInv, StreamsAreSequences, StreamsSound
<1>3. DOMAIN to_bus' = Bus /\ to_bus'[b] = Rest(to_bus[b], k) /\ \A c \in Bus \ {b} : to_bus'[c] = to_bus[c]
  BY <1>1 DEF RouteInv, StreamsAreSequences
<1>4. IsSeq(to_bus'[b]) /\ Elements(to_bus'[b]) \subseteq Elements(to_bus[b])
  BY <1>3, RestElements DEF Rest, RouteInv, StreamsAreSequences
<1>5. QED
  BY <1>2, <1>3, <1>4 DEF BusRead, RouteInv, StreamsAreSequences

(* The requests of the application compose at most the first table.           *)
LEMMA RequestStep ==
    ASSUME RouteInv, NEW b \in Bus, NEW r \in Asks[b], SendRequest(b, r),
           UNCHANGED <<to_bus, objects, ran, answered>>,
           DOMAIN call' = Bus, \A c \in Bus : call'[c] # None => call'[c] \in Asks[c]
    PROVE  RouteInv'
<1> DEFINE t == IF table[b] = None THEN TableOf(r) ELSE table[b]
           m == [type |-> TypeFor(r), id |-> <<b, asked[b] + 1>>, table |-> t]
<1>1. TableOf(r) # None
  <2>1. r \in Request
    BY BusAssumption DEF BusAssumption
  <2>2. TableOf(r) \in Table
    BY <2>1 DEF TableOf, Table, Request, Op
  <2>3. QED
    BY <2>2, BusAssumption DEF BusAssumption
<1>2. /\ DOMAIN table' = Bus /\ table'[b] = t
      /\ \A c \in Bus : table[c] # None => table'[c] = table[c]
  BY DEF SendRequest, RouteInv, RequestsAsked
<1>3. to_busd' = [to_busd EXCEPT ![b] = Append(@, m)]
  BY <1>2 DEF SendRequest
<1>4. \A e : e = m => FromBus(b, e)'
  <2>1. m.type # "REPLY_FORWARD_INVOKE"
    BY DEF TypeFor
  <2>2. t # None
    BY <1>1
  <2>3. m.id[1] = b /\ m.table = t
    OBVIOUS
  <2> HIDE DEF m, t
  <2>4. ASSUME NEW e, e = m PROVE FromBus(b, e)'
    BY <1>2, <2>1, <2>2, <2>3, <2>4 DEF FromBus
  <2>5. QED
    BY <2>4
<1> HIDE DEF m, t
<1>5. /\ DOMAIN to_busd' = Bus
      /\ \A c \in Bus : IsSeq(to_busd'[c])
      /\ \A c \in Bus : \A e \in Elements(to_busd'[c]) :
            e \in Elements(to_busd[c]) \/ (c = b /\ e = m)
  <2>1. DOMAIN to_busd' = Bus /\ to_busd'[b] = Append(to_busd[b], m)
        /\ \A c \in Bus \ {b} : to_busd'[c] = to_busd[c]
    BY <1>3 DEF RouteInv, StreamsAreSequences
  <2>2. IsSeq(to_busd'[b]) /\ Elements(to_busd'[b]) = Elements(to_busd[b]) \cup {m}
    BY <2>1, AppendElements DEF RouteInv, StreamsAreSequences
  <2>3. QED
    BY <2>1, <2>2 DEF RouteInv, StreamsAreSequences
<1>6. StreamsAreSequences' /\ RequestsAsked' /\ TablesKept
  BY <1>2, <1>5 DEF RouteInv, StreamsAreSequences, RequestsAsked, TablesKept
<1>7. QED
  BY <1>4, <1>5, <1>6, OnlyNew

(* An application's own calls put only its own messages into its stream to busd. *)
LEMMA ApplicationStep ==
    ASSUME RouteInv, NEW b \in Bus, Application(b)
    PROVE  RouteInv'
<1> USE DEF MayAsk
<1>1. ASSUME NEW r \in Asks[b], LookupOrInvoke(b, r) PROVE RouteInv'
  BY <1>1, RequestStep DEF LookupOrInvoke, RouteInv, RequestsAsked
<1>2. ASSUME NEW r \in Asks[b], AddObject(b, r) PROVE RouteInv'
  <2>1. DOMAIN call' = Bus /\ \A c \in Bus : call'[c] # None => call'[c] \in Asks[c]
    BY <1>2 DEF AddObject, RouteInv, RequestsAsked
  <2>2. QED
    BY <1>2, <2>1, RequestStep DEF AddObject
<1>3. InvokeForRequest(b) => RouteInv'
  <2> SUFFICES ASSUME InvokeForRequest(b) PROVE RouteInv'
    OBVIOUS
  <2>1. call[b] \in Asks[b] /\ UNCHANGED call
    BY DEF InvokeForRequest, RouteInv, RequestsAsked
  <2>2. QED
    BY <2>1, RequestStep DEF InvokeForRequest, RouteInv, RequestsAsked
<1>4. ASSUME /\ UNCHANGED <<table, to_busd, to_bus, objects, ran, answered>>
             /\ DOMAIN call' = Bus
             /\ \A c \in Bus : call'[c] # None => call'[c] \in Asks[c]
      PROVE  RouteInv'
  <2>1. StreamsAreSequences' /\ RequestsAsked' /\ TablesKept
    BY <1>4 DEF RouteInv, StreamsAreSequences, RequestsAsked, TablesKept
  <2>2. QED
    BY <1>4, <2>1, OnlyNew
<1>5. ASSUME NEW r \in Asks[b], InsertRequest(b, r) PROVE RouteInv'
  BY <1>4, <1>5 DEF InsertRequest, RouteInv, RequestsAsked
<1>6. EnterObject(b) => RouteInv'
  BY <1>4 DEF EnterObject, RouteInv, RequestsAsked
<1>7. ReturnFromSync(b) => RouteInv'
  BY <1>4 DEF ReturnFromSync, RouteInv, RequestsAsked
<1>8. QED
  BY <1>1, <1>2, <1>3, <1>5, <1>6, <1>7 DEF Application

(* A handler of the daemon that keeps its objects and writes one message, or   *)
(* none, which is one the bus it goes to may get.                             *)
LEMMA BusdWrites ==
    ASSUME RouteInv, NEW b \in Bus, NEW type, BusdRead(b, type), UNCHANGED objects,
           NEW fd, NEW m, Write(fd, m) \/ UNCHANGED to_bus,
           \A c \in Bus : FdOf[c] = fd => ForBus(c, m)
    PROVE  RouteInv'
<1>1. /\ DOMAIN to_busd' = Bus
      /\ \A c \in Bus : IsSeq(to_busd'[c])
      /\ \A c \in Bus : Elements(to_busd'[c]) \subseteq Elements(to_busd[c])
      /\ UNCHANGED <<busVars, ran, answered>>
  BY BusdReads
<1>2. /\ DOMAIN to_bus' = Bus
      /\ \A c \in Bus : IsSeq(to_bus'[c])
      /\ \A c \in Bus : \A e \in Elements(to_bus'[c]) :
            e \in Elements(to_bus[c]) \/ (FdOf[c] = fd /\ e = m)
  BY WriteArrives DEF RouteInv, StreamsAreSequences
<1>3. StreamsAreSequences' /\ RequestsAsked' /\ TablesKept
  BY <1>1, <1>2 DEF RouteInv, StreamsAreSequences, RequestsAsked, TablesKept, busVars
<1>4. \A c \in Bus : \A e \in Elements(to_bus'[c]) : e \in Elements(to_bus[c]) \/ ForBus(c, e)'
  BY <1>1, <1>2, <1>3, KeptFacts
<1>5. QED
  BY <1>1, <1>3, <1>4, OnlyNew

(* busd enters the object under the descriptor it read from and replies to it. *)
LEMMA AddObjectStep ==
    ASSUME RouteInv, NEW b \in Bus, BusdAddObject(b)
    PROVE  RouteInv'
<1> PICK m : m = Head(to_busd[b])
  OBVIOUS
<1>1. BusdRead(b, "ADD_OBJECT")
  BY DEF BusdAddObject
<1>2. FromBus(b, m) /\ m.type = "ADD_OBJECT"
  BY <1>1, BusdReads
<1>3. table[b] # None /\ m.table = table[b]
  BY <1>2 DEF FromBus
<1>4. CASE m.table.of # "object" /\ NoAttribute
  <2>1. Write(0, m) \/ UNCHANGED to_bus
    BY <1>4 DEF NoAttribute
  <2>2. \A c : ForBus(c, m)
    BY <1>2 DEF ForBus
  <2>3. QED
    BY <1>1, <1>4, <2>1, <2>2, BusdWrites DEF NoAttribute
<1>5. CASE /\ m.table.of = "object"
           /\ objects' = <<ObjectOf(b, m)>> \o objects
           /\ Write(FdOf[b], [type |-> "REPLY_ADD_OBJECT", name |-> m.table.name])
  <2>1. PICK o : o = ObjectOf(b, m)
    OBVIOUS
  <2>2. Owned(o)
    <3>1. o.fd = FdOf[b] /\ o.name = m.table.name
      BY <2>1, ByteRoundTrip DEF ObjectOf
    <3>2. QED
      BY <1>3, <1>5, <3>1 DEF Owned, ObjectTable
  <2>3. IsSeq(objects') /\ Elements(objects') = Elements(objects) \cup {o}
    BY <1>5, <2>1, PrependElements DEF RouteInv, StreamsAreSequences
  <2>4. PICK reply : reply = [type |-> "REPLY_ADD_OBJECT", name |-> m.table.name]
    OBVIOUS
  <2>5. /\ DOMAIN to_bus' = Bus
        /\ \A c \in Bus : IsSeq(to_bus'[c])
        /\ \A c \in Bus : \A e \in Elements(to_bus'[c]) :
              e \in Elements(to_bus[c]) \/ (FdOf[c] = FdOf[b] /\ e = reply)
    BY <1>5, <2>4, WriteArrives DEF RouteInv, StreamsAreSequences
  <2>6. \A c : ForBus(c, reply)
    BY <2>4 DEF ForBus
  <2>7. /\ DOMAIN to_busd' = Bus
        /\ \A c \in Bus : IsSeq(to_busd'[c])
        /\ \A c \in Bus : Elements(to_busd'[c]) \subseteq Elements(to_busd[c])
        /\ UNCHANGED <<busVars, ran, answered>>
    BY <1>1, BusdReads
  <2>8. StreamsAreSequences' /\ RequestsAsked' /\ TablesKept
    BY <2>3, <2>5, <2>7 DEF RouteInv, StreamsAreSequences, RequestsAsked, TablesKept, busVars
  <2>9. Owned(o)' /\ \A c : ForBus(c, reply)'
    BY <2>2, <2>6, <2>7, <2>8, KeptFacts
  <2>10. QED
    BY <2>3, <2>5, <2>7, <2>8, <2>9, OnlyNew
<1>6. QED
  BY <1>4, <1>5 DEF BusdAddObject

(* busd's answer to a lookup goes back to the bus that asked. *)
LEMMA LookupStep ==
    ASSUME RouteInv, NEW b \in Bus, BusdLookup(b)
    PROVE  RouteInv'
<1> PICK m : m = Head(to_busd[b])
  OBVIOUS
<1> PICK reply : reply = [type |-> "REPLY_LOOKUP", name |-> m.table.name]
  OBVIOUS
<1>1. BusdRead(b, "LOOKUP") /\ UNCHANGED objects
  BY DEF BusdLookup, NoAttribute
<1>2. Write(FdOf[b], reply) \/ UNCHANGED to_bus
  BY DEF BusdLookup, NoAttribute
<1>3. \A c : ForBus(c, reply)
  BY DEF ForBus
<1>4. QED
  BY <1>1, <1>2, <1>3, BusdWrites

(* busd forwards an invocation to the object's bus, or refuses it to its source. *)
LEMMA InvokeStep ==
    ASSUME RouteInv, NEW b \in Bus, BusdInvoke(b)
    PROVE  RouteInv'
<1> PICK m : m = Head(to_busd[b])
  OBVIOUS
<1>1. BusdRead(b, "INVOKE") /\ UNCHANGED objects
  BY DEF BusdInvoke, NoAttribute
<1>2. m.id[1] = b /\ table[b] # None /\ m.table = table[b]
  BY <1>1, BusdReads DEF FromBus
<1>3. CASE /\ m.table.of = "invoke"
           /\ \E k \in DOMAIN objects :
                /\ Finds(m.table.name, k)
                /\ Write(objects[k].fd, [type   |-> "FORWARD_INVOKE",
                                         id     |-> m.id,
                                         name   |-> m.table.name,
                                         method |-> m.table.method,
                                         src    |-> FdOf[b]])
  <2>1. PICK k \in DOMAIN objects :
                /\ Finds(m.table.name, k)
                /\ Write(objects[k].fd, [type   |-> "FORWARD_INVOKE",
                                         id     |-> m.id,
                                         name   |-> m.table.name,
                                         method |-> m.table.method,
                                         src    |-> FdOf[b]])
    BY <1>3
  <2>2. PICK o : o = objects[k]
    OBVIOUS
  <2>3. PICK forward : forward = [type   |-> "FORWARD_INVOKE",
                                  id     |-> m.id,
                                  name   |-> m.table.name,
                                  method |-> m.table.method,
                                  src    |-> FdOf[b]]
    OBVIOUS
  <2>4. Owned(o) /\ o.name = m.table.name
    BY <2>1, <2>2 DEF Finds, RouteInv, Elements
  <2>5. Invocation(forward)
    BY ZenonT(60), <1>2, <1>3, <2>3 DEF Invocation, InvokeTable
  <2>6. \A c \in Bus : FdOf[c] = o.fd => ObjectTable(c, forward.name)
    <3>1. PICK owner \in Bus : o.fd = FdOf[owner] /\ ObjectTable(owner, o.name)
      BY <2>4 DEF Owned
    <3>2. \A c \in Bus : FdOf[c] = o.fd => c = owner
      BY <3>1, BusAssumption DEF BusAssumption
    <3>3. forward.name = o.name
      BY <2>3, <2>4
    <3>4. QED
      BY <3>1, <3>2, <3>3
  <2>7. \A c \in Bus : FdOf[c] = o.fd => ForBus(c, forward)
    BY <2>3, <2>5, <2>6 DEF ForBus
  <2>8. Write(o.fd, forward)
    BY <2>1, <2>2, <2>3
  <2>9. QED
    BY <1>1, <2>7, <2>8, BusdWrites
<1>4. CASE UNCHANGED to_bus
  <2>1. \A c : ForBus(c, [type |-> "none"])
    BY DEF ForBus
  <2>2. QED
    BY <1>1, <1>4, <2>1, BusdWrites
<1>5. QED
  BY <1>3, <1>4 DEF BusdInvoke, NoAttribute, NoObject

(* busd sends a reply on to the bus that the message names as its source. *)
LEMMA ForwardReplyStep ==
    ASSUME RouteInv, NEW b \in Bus, BusdForwardReply(b)
    PROVE  RouteInv'
<1> PICK m : m = Head(to_busd[b])
  OBVIOUS
<1> PICK reply : reply = [type   |-> "REPLY_INVOKE",
                          id     |-> m.id,
                          name   |-> m.name,
                          method |-> m.method,
                          state  |-> m.state]
  OBVIOUS
<1>1. BusdRead(b, "REPLY_FORWARD_INVOKE") /\ UNCHANGED objects
  BY DEF BusdForwardReply
<1>2. Invocation(m) /\ MethodReply(m)
  BY <1>1, BusdReads DEF FromBus
<1>3. Write(m.src, reply)
  BY DEF BusdForwardReply, ReplyTo
<1>4. \A c \in Bus : FdOf[c] = m.src => c = m.id[1]
  BY <1>2, BusAssumption DEF Invocation, InvokeTable, BusAssumption
<1>5. MethodReply(reply)
  BY <1>2 DEF MethodReply
<1>6. \A c \in Bus : FdOf[c] = m.src => ForBus(c, reply)
  BY <1>4, <1>5 DEF ForBus
<1>7. QED
  BY <1>1, <1>3, <1>6, BusdWrites

(* A step of busd is one of its four handlers. *)
LEMMA BusdStep ==
    ASSUME RouteInv, NEW b \in Bus, Busd(b)
    PROVE  RouteInv'
  BY SMTT(60), AddObjectStep, LookupStep, InvokeStep, ForwardReplyStep DEF Busd

(* A bus runs what was forwarded, and its reply goes back with the descriptor  *)
(* it came with.                                                             *)
LEMMA HandleForwardStep ==
    ASSUME RouteInv, NEW b \in Bus, HandleForward(b)
    PROVE  RouteInv'
<1> PICK m : m = Head(to_bus[b])
  OBVIOUS
<1>1. BusRead(b, {"FORWARD_INVOKE"}) /\ UNCHANGED <<busVars, objects, answered>>
  BY ZenonT(60) DEF HandleForward
<1>2. /\ DOMAIN to_bus' = Bus
      /\ \A c \in Bus : IsSeq(to_bus'[c])
      /\ \A c \in Bus : Elements(to_bus'[c]) \subseteq Elements(to_bus[c])
      /\ Invocation(m)
  BY <1>1, BusReads DEF ForBus
<1>3. RequestsAsked' /\ TablesKept
  BY <1>1 DEF RouteInv, RequestsAsked, TablesKept, busVars
<1>4. CASE UNCHANGED <<ran, to_busd>>
  <2>1. StreamsAreSequences'
    BY <1>1, <1>2, <1>4 DEF RouteInv, StreamsAreSequences
  <2>2. QED
    BY <1>1, <1>2, <1>3, <1>4, <2>1, OnlyNew
<1>5. CASE \E k \in DOMAIN MethodsOf[m.name] :
                /\ Handles(m.name, m.method, k)
                /\ ran' = ran \cup {[id |-> m.id, by |-> b, name |-> m.name,
                                     method |-> MethodsOf[m.name][k]]}
                /\ to_busd' = [to_busd EXCEPT ![b] =
                                  Append(@, [type   |-> "REPLY_FORWARD_INVOKE",
                                             id     |-> m.id,
                                             name   |-> m.name,
                                             method |-> m.method,
                                             state  |-> Result[MethodsOf[m.name][k]],
                                             src    |-> m.src])]
  <2>1. PICK method, k :
                /\ method = MethodsOf[m.name][k]
                /\ Handles(m.name, m.method, k)
                /\ ran' = ran \cup {[id |-> m.id, by |-> b, name |-> m.name,
                                     method |-> method]}
                /\ to_busd' = [to_busd EXCEPT ![b] =
                                  Append(@, [type   |-> "REPLY_FORWARD_INVOKE",
                                             id     |-> m.id,
                                             name   |-> m.name,
                                             method |-> m.method,
                                             state  |-> Result[method],
                                             src    |-> m.src])]
    BY ZenonT(60), <1>5
  <2>2. PICK r : r = [id |-> m.id, by |-> b, name |-> m.name, method |-> method]
    OBVIOUS
  <2>3. PICK reply : reply = [type   |-> "REPLY_FORWARD_INVOKE",
                              id     |-> m.id,
                              name   |-> m.name,
                              method |-> m.method,
                              state  |-> Result[method],
                              src    |-> m.src]
    OBVIOUS
  <2>4. Prefix[method] = Prefix[m.method]
    BY ZenonT(60), <2>1 DEF Handles
  <2>5. RanOwn(r)
    BY <1>2, <2>2, <2>4 DEF RanOwn, Invocation
  <2>6. ran' = ran \cup {r}
    BY <2>1, <2>2
  <2>7. RanOwn(r)' /\ Invocation(reply)'
    <3>1. Invocation(reply)
      BY <1>2, <2>3 DEF Invocation
    <3>2. QED
      BY <1>3, <2>5, <2>6, <3>1, KeptFacts
  <2>8. MethodReply(reply)'
    BY <2>2, <2>3, <2>4, <2>6 DEF MethodReply
  <2>9. FromBus(b, reply)'
    BY SMTT(60), <2>3, <2>7, <2>8 DEF FromBus
  <2>10. DOMAIN to_busd' = Bus /\ to_busd'[b] = Append(to_busd[b], reply)
         /\ \A c \in Bus \ {b} : to_busd'[c] = to_busd[c]
    BY ZenonT(60), <2>1, <2>3 DEF RouteInv, StreamsAreSequences
  <2>11. IsSeq(to_busd'[b]) /\ Elements(to_busd'[b]) = Elements(to_busd[b]) \cup {reply}
    BY <2>10, AppendElements DEF RouteInv, StreamsAreSequences
  <2>12. StreamsAreSequences'
    BY <1>1, <1>2, <2>10, <2>11 DEF RouteInv, StreamsAreSequences
  <2>13. \A c \in Bus : \A e \in Elements(to_busd'[c]) :
             e \in Elements(to_busd[c]) \/ FromBus(c, e)'
    BY <2>9, <2>10, <2>11
  <2>14. QED
    BY SMTT(60), <1>1, <1>2, <1>3, <2>6, <2>7, <2>12, <2>13, OnlyNew
<1>6. QED
  BY ZenonT(60), <1>4, <1>5 DEF HandleForward

(* What a bus does otherwise adds no message.                                *)
LEMMA SlaveStep ==
    ASSUME RouteInv, NEW b \in Bus, Slave(b)
    PROVE  RouteInv'
<1>1. ASSUME /\ UNCHANGED <<table, call, to_busd, objects, ran>>
             /\ DOMAIN to_bus' = Bus
             /\ \A c \in Bus : IsSeq(to_bus'[c])
             /\ \A c \in Bus : Elements(to_bus'[c]) \subseteq Elements(to_bus[c])
             /\ \A a \in answered' : a \in answered \/ a.id[1] = a.at
      PROVE  RouteInv'
  <2>1. StreamsAreSequences' /\ RequestsAsked' /\ TablesKept
    BY <1>1 DEF RouteInv, StreamsAreSequences, RequestsAsked, TablesKept
  <2>2. QED
    BY <1>1, <2>1, OnlyNew
<1>2. LogReply(b) => RouteInv'
  BY <1>1, BusReads DEF LogReply, busVars
<1>3. HandleReply(b) => RouteInv'
  <2> SUFFICES ASSUME HandleReply(b) PROVE RouteInv'
    OBVIOUS
  <2> PICK m : m = Head(to_bus[b])
    OBVIOUS
  <2>1. BusRead(b, {"REPLY_INVOKE"}) /\ answered' = answered \cup {[id |-> m.id, at |-> b]}
    BY DEF HandleReply
  <2>2. m.id[1] = b
    BY <2>1, BusReads DEF ForBus
  <2>3. \A a \in answered' : a \in answered \/ a.id[1] = a.at
    BY <2>1, <2>2
  <2>4. QED
    BY <1>1, <2>1, <2>3, BusReads DEF HandleReply
<1>4. StoreReply(b) => RouteInv'
  BY <1>1 DEF StoreReply, RouteInv, StreamsAreSequences
<1>5. QED
  BY <1>2, <1>3, <1>4, HandleForwardStep DEF Slave

(* The end of a process empties its stream and adds no message. *)
LEMMA LeaveStep ==
    ASSUME RouteInv, NEW b \in Bus, Leave(b)
    PROVE  RouteInv'
<1>1. DOMAIN to_bus' = Bus /\ to_bus'[b] = <<>> /\ \A c \in Bus \ {b} : to_bus'[c] = to_bus[c]
  BY DEF Leave, RouteInv, StreamsAreSequences
<1>2. /\ \A c \in Bus : IsSeq(to_bus'[c])
      /\ \A c \in Bus : Elements(to_bus'[c]) \subseteq Elements(to_bus[c])
  BY <1>1, EmptyElements DEF RouteInv, StreamsAreSequences
<1>3. StreamsAreSequences' /\ RequestsAsked' /\ TablesKept
  BY <1>1, <1>2 DEF Leave, RouteInv, StreamsAreSequences, RequestsAsked, TablesKept
<1>4. QED
  BY <1>2, <1>3, OnlyNew DEF Leave

(* No step of a bus or the daemon breaks what holds of the messages.          *)
LEMMA StepRoute == RouteInv /\ [Next]_vars => RouteInv'
<1> SUFFICES ASSUME RouteInv, [Next]_vars PROVE RouteInv'
  OBVIOUS
<1>1. CASE UNCHANGED vars
  <2>1. StreamsAreSequences' /\ RequestsAsked' /\ TablesKept
    BY <1>1 DEF vars, busVars, RouteInv, StreamsAreSequences, RequestsAsked, TablesKept
  <2>2. QED
    BY <1>1, <2>1, OnlyNew DEF vars, busVars
<1>2. CASE Next
  BY <1>2, ApplicationStep, SlaveStep, BusdStep, LeaveStep DEF Next
<1>3. QED
  BY <1>1, <1>2

(* Whatever is asked of the buses and in whatever order their messages are     *)
(* read, a bus is forwarded only invocations of the object it added, and a     *)
(* reply reaches the bus that made the invocation, not the one that ran it:    *)
(* bus_handle_forward_invoke sends the descriptor it was given back, and       *)
(* busd_handle_forward_invoke_reply writes to it.                             *)
THEOREM RoutedCorrect == SafeSpec => []Routed
<1>1. RouteInv => Routed
  <2> SUFFICES ASSUME RouteInv PROVE ForwardsToProvider /\ RepliesToInvoker
    BY DEF Routed
  <2>1. ASSUME NEW b \in Bus, NEW m \in InStream(to_bus[b], "FORWARD_INVOKE")
        PROVE  table[b] # None /\ table[b].of = "object" /\ table[b].name = m.name
    <3>1. m \in Elements(to_bus[b]) /\ m.type = "FORWARD_INVOKE"
      BY DEF InStream, Elements
    <3>2. QED
      BY <3>1 DEF RouteInv, StreamsSound, ForBus, ObjectTable
  <2>2. QED
    BY <2>1 DEF ForwardsToProvider, RouteInv
<1>2. QED
  BY <1>1, InitRoute, StepRoute, PTL DEF SafeSpec

(* Only what the first request of a bus asked for is run for it, and the       *)
(* method is one that compares equal: bus_send sends the table at the head of  *)
(* the blob, and bus_get_method_handler compares with strncmp.                *)
THEOREM RanAsAskedCorrect == SafeSpec => []RanAsAsked
<1>1. RouteInv => RanAsAsked
  BY DEF RouteInv, RanAsAsked, RanOwn, InvokeTable
<1>2. QED
  BY <1>1, InitRoute, StepRoute, PTL DEF SafeSpec

-----------------------------------------------------------------------------
(* What a request that waits, or waited, has been given.                      *)
AnswerOwn(b, method, state, answer) ==
    answer # None =>
        /\ answer[1] = b
        /\ \E r \in ran : /\ r.id = answer
                          /\ Prefix[r.method] = Prefix[method]
                          /\ state = Result[r.method]

InSync(b) == call[b] # None /\ call[b].op = "sync"

(* The fields of a request.                                                  *)
IsRequest(q) == DOMAIN q = {"no", "method", "state", "buffer", "answer"}

RequestSound(b) ==
    /\ IsRequest(req_hmap[b])
    /\ req_hmap[b].method = call[b].method
    /\ \/ req_hmap[b].buffer /\ req_hmap[b].no = asked[b]
       \/ ~req_hmap[b].buffer /\ req_hmap[b].no = asked[b] + 1
    /\ AnswerOwn(b, req_hmap[b].method, req_hmap[b].state, req_hmap[b].answer)

(* What the slave has found is a reply to this bus, and if its request is     *)
(* still the one that waits, it is one for the same method.                   *)
FoundSound(b) ==
    /\ found[b].reply.id[1] = b
    /\ MethodReply(found[b].reply)
    /\ \/ found[b].request <= asked[b]
       \/ /\ InSync(b)
          /\ ~req_hmap[b].buffer
          /\ found[b].request = asked[b] + 1
    /\ InSync(b) /\ req_hmap[b].no = found[b].request
          => found[b].reply.method = req_hmap[b].method

SyncInv ==
    /\ DOMAIN req_hmap = Bus
    /\ DOMAIN found = Bus
    /\ DOMAIN asked = Bus
    /\ \A b \in Bus : asked[b] \in Nat
    /\ \A r \in ran : r.method \in Method
    /\ \A b \in Bus : found[b] # None => found[b].request \in Nat
    /\ \A b \in Bus : req_hmap[b] # None => InSync(b)
    /\ \A b \in Bus : InSync(b) => RequestSound(b)
    /\ \A b \in Bus : found[b] # None => FoundSound(b)
    /\ \A s \in returned : AnswerOwn(s.bus, s.method, s.state, s.answer)

(* The state of a method fits in the short it is stored in.                   *)
LEMMA StateFits ==
    ASSUME NEW method \in Method
    PROVE  /\ AsShort(Result[method]) = Result[method]
           /\ Result[method] # Unanswered
<1>1. PICK n : n = Result[method]
  OBVIOUS
<1>2. n \in Nat /\ n < 32768
  BY <1>1, BusAssumption DEF BusAssumption
<1>3. n % 65536 = n
  BY <1>2, SmallModulo
<1>4. QED
  BY <1>1, <1>2, <1>3 DEF AsShort, Unanswered

(* No request is pending when the buses are created. *)
LEMMA InitSync == Init => SyncInv
  BY DEF Init, SyncInv, InSync

(* Where requests and replies are kept does not matter to a bus that does     *)
(* nothing.                                                                  *)
LEMMA OtherBus ==
    ASSUME SyncInv, ran \subseteq ran', NEW c \in Bus,
           call'[c] = call[c], req_hmap'[c] = req_hmap[c], asked'[c] = asked[c]
    PROVE  /\ InSync(c) <=> InSync(c)'
           /\ RequestSound(c) => RequestSound(c)'
           /\ found'[c] = found[c] /\ FoundSound(c) => FoundSound(c)'
           /\ \A method, state, answer :
                 AnswerOwn(c, method, state, answer) => AnswerOwn(c, method, state, answer)'
<1>1. \A method, state, answer :
          AnswerOwn(c, method, state, answer) => AnswerOwn(c, method, state, answer)'
  BY DEF AnswerOwn
<1>2. InSync(c) <=> InSync(c)'
  BY DEF InSync
<1>3. \A m : MethodReply(m) => MethodReply(m)'
  BY DEF MethodReply
<1>4. RequestSound(c) => RequestSound(c)'
  BY <1>1 DEF RequestSound
<1>5. found'[c] = found[c] /\ FoundSound(c) => FoundSound(c)'
  BY <1>2, <1>3 DEF FoundSound
<1>6. QED
  BY <1>1, <1>2, <1>4, <1>5

(* So it is enough to look at the bus that does something.                    *)
LEMMA OnlyThisBus ==
    ASSUME SyncInv, NEW b \in Bus,
           \A c \in Bus \ {b} : /\ call'[c] = call[c] /\ req_hmap'[c] = req_hmap[c]
                                /\ asked'[c] = asked[c] /\ found'[c] = found[c],
           DOMAIN req_hmap' = Bus, DOMAIN found' = Bus, DOMAIN asked' = Bus,
           asked'[b] \in Nat, ran' = ran,
           found'[b] # None => found'[b].request \in Nat /\ FoundSound(b)',
           req_hmap'[b] # None => InSync(b)',
           InSync(b)' => RequestSound(b)',
           \A s \in returned' : s \in returned \/ AnswerOwn(s.bus, s.method, s.state, s.answer)'
    PROVE  SyncInv'
<1>1. \A c \in Bus \ {b} :
          /\ asked'[c] \in Nat
          /\ found'[c] # None => found'[c].request \in Nat
          /\ req_hmap'[c] # None => InSync(c)'
          /\ InSync(c)' => RequestSound(c)'
          /\ found'[c] # None => FoundSound(c)'
  <2> SUFFICES ASSUME NEW c \in Bus \ {b}
               PROVE  /\ asked'[c] \in Nat
                      /\ found'[c] # None => found'[c].request \in Nat
                      /\ req_hmap'[c] # None => InSync(c)'
                      /\ InSync(c)' => RequestSound(c)'
                      /\ found'[c] # None => FoundSound(c)'
    OBVIOUS
  <2>1. /\ InSync(c) <=> InSync(c)'
        /\ RequestSound(c) => RequestSound(c)'
        /\ FoundSound(c) => FoundSound(c)'
    BY OtherBus
  <2>2. QED
    BY <2>1 DEF SyncInv
<1>2. \A s \in returned' : AnswerOwn(s.bus, s.method, s.state, s.answer)'
  <2>1. \A d, method, state, answer :
            AnswerOwn(d, method, state, answer) => AnswerOwn(d, method, state, answer)'
    BY DEF AnswerOwn
  <2>2. QED
    BY <2>1 DEF SyncInv
<1>3. QED
  BY <1>1, <1>2 DEF SyncInv

(* Steps that leave the requests, their stacks and the replies alone. *)
LEMMA SyncUnchanged ==
    ASSUME SyncInv, ran \subseteq ran', \A r \in ran' : r.method \in Method,
           UNCHANGED <<asked, call, req_hmap, found, returned>>
    PROVE  SyncInv'
<1>1. \A s \in returned' : AnswerOwn(s.bus, s.method, s.state, s.answer)'
  BY DEF SyncInv, AnswerOwn
<1>2. \A c \in Bus : /\ InSync(c) <=> InSync(c)'
                     /\ RequestSound(c) => RequestSound(c)'
                     /\ FoundSound(c) => FoundSound(c)'
  <2> SUFFICES ASSUME NEW c \in Bus
               PROVE  /\ InSync(c) <=> InSync(c)'
                      /\ RequestSound(c) => RequestSound(c)'
                      /\ FoundSound(c) => FoundSound(c)'
    OBVIOUS
  <2>1. QED
    BY OtherBus
<1>3. QED
  BY <1>1, <1>2 DEF SyncInv

(* A bus that waits for nobody asks for something else.                       *)
LEMMA OutOfSync ==
    ASSUME SyncInv, NEW b \in Bus, ~InSync(b), ~InSync(b)',
           UNCHANGED <<req_hmap, found, ran, returned>>,
           asked' = asked \/ asked' = [asked EXCEPT ![b] = @ + 1],
           \A c \in Bus \ {b} : call'[c] = call[c]
    PROVE  SyncInv'
<1>1. /\ \A c \in Bus \ {b} : asked'[c] = asked[c]
      /\ DOMAIN asked' = Bus /\ asked'[b] \in Nat /\ asked[b] \in Nat
      /\ asked[b] <= asked'[b]
  BY DEF SyncInv
<1>2. found'[b] # None => found'[b].request \in Nat /\ FoundSound(b)'
  <2> SUFFICES ASSUME found'[b] # None PROVE found'[b].request \in Nat /\ FoundSound(b)'
    OBVIOUS
  <2>1. FoundSound(b) /\ found[b].request \in Nat
    BY DEF SyncInv
  <2>2. found[b].request <= asked'[b]
    BY <1>1, <2>1 DEF FoundSound
  <2>3. QED
    BY <2>1, <2>2 DEF FoundSound, MethodReply
<1>3. QED
  BY <1>1, <1>2, OnlyThisBus DEF SyncInv

(* bus_invoke_sync begins: its request has no answer yet. *)
LEMMA InsertRequestStep ==
    ASSUME RouteInv, SyncInv, NEW b \in Bus, NEW r \in Asks[b], InsertRequest(b, r)
    PROVE  SyncInv'
<1>1. /\ call[b] = None /\ call'[b] = r /\ r.op = "sync"
      /\ \A c \in Bus \ {b} : call'[c] = call[c]
      /\ UNCHANGED <<asked, found, ran, returned>>
  BY DEF InsertRequest, MayAsk, RouteInv, RequestsAsked
<1>2. r # None
  BY BusAssumption DEF BusAssumption
<1>3. PICK q : q = [no     |-> asked[b] + 1,
                    method |-> r.method,
                    state  |-> AsShort(Unanswered),
                    buffer |-> FALSE,
                    answer |-> None]
  OBVIOUS
<1>4. /\ req_hmap'[b] = q /\ DOMAIN req_hmap' = Bus
      /\ \A c \in Bus \ {b} : req_hmap'[c] = req_hmap[c]
  BY <1>3 DEF InsertRequest, SyncInv
<1>5. InSync(b)' /\ ~InSync(b)
  BY <1>1, <1>2 DEF InSync
<1>6. RequestSound(b)'
  <2>1. IsRequest(q)
    BY <1>3 DEF IsRequest
  <2>2. q.method = r.method /\ ~q.buffer /\ q.no = asked[b] + 1 /\ q.answer = None
    BY <1>3
  <2>3. AnswerOwn(b, q.method, q.state, q.answer)'
    BY <2>2 DEF AnswerOwn
  <2>4. QED
    BY <1>1, <1>4, <2>1, <2>2, <2>3 DEF RequestSound
<1>7. found'[b] # None => found'[b].request \in Nat /\ FoundSound(b)'
  <2> SUFFICES ASSUME found'[b] # None PROVE found'[b].request \in Nat /\ FoundSound(b)'
    OBVIOUS
  <2>1. FoundSound(b) /\ found[b].request \in Nat /\ asked[b] \in Nat
    BY <1>1 DEF SyncInv
  <2>2. found[b].request <= asked[b]
    BY <1>5, <2>1 DEF FoundSound
  <2>3. req_hmap'[b].no # found[b].request
    BY <1>3, <1>4, <2>1, <2>2
  <2>4. QED
    BY <1>1, <2>1, <2>2, <2>3 DEF FoundSound, MethodReply
<1>8. QED
  BY <1>1, <1>4, <1>5, <1>6, <1>7, OnlyThisBus DEF SyncInv

(* Its message is sent, with the next request number. *)
LEMMA InvokeForRequestStep ==
    ASSUME RouteInv, SyncInv, NEW b \in Bus, InvokeForRequest(b)
    PROVE  SyncInv'
<1>1. /\ InSync(b) /\ ~req_hmap[b].buffer
      /\ UNCHANGED <<call, found, ran, returned>>
      /\ asked' = [asked EXCEPT ![b] = @ + 1]
      /\ req_hmap' = [req_hmap EXCEPT ![b].buffer = TRUE]
  BY DEF InvokeForRequest, SendRequest, InSync
<1>2. RequestSound(b) /\ req_hmap[b].no = asked[b] + 1 /\ asked[b] \in Nat
  BY <1>1 DEF SyncInv, RequestSound
<1>3. PICK old : old = req_hmap[b] /\ IsRequest(old)
  BY <1>2 DEF RequestSound
<1>4. PICK q : q = [old EXCEPT !.buffer = TRUE]
  OBVIOUS
<1>5. /\ req_hmap'[b] = q /\ DOMAIN req_hmap' = Bus
      /\ \A c \in Bus \ {b} : req_hmap'[c] = req_hmap[c]
  BY <1>1, <1>3, <1>4 DEF SyncInv
<1>6. /\ \A c \in Bus \ {b} : asked'[c] = asked[c]
      /\ DOMAIN asked' = Bus /\ asked'[b] = asked[b] + 1
  BY <1>1 DEF SyncInv
<1>7. InSync(b)'
  BY <1>1 DEF InSync
<1>8. RequestSound(b)'
  <2>1. /\ IsRequest(q) /\ q.buffer /\ q.no = old.no /\ q.method = old.method
        /\ q.state = old.state /\ q.answer = old.answer
    BY <1>3, <1>4 DEF IsRequest
  <2>2. /\ q.method = req_hmap[b].method /\ q.no = asked'[b]
        /\ q.state = req_hmap[b].state /\ q.answer = req_hmap[b].answer
    BY <1>2, <1>3, <1>6, <2>1
  <2>3. AnswerOwn(b, q.method, q.state, q.answer)'
    BY <1>1, <1>2, <2>2 DEF AnswerOwn, RequestSound
  <2>4. QED
    BY <1>1, <1>2, <1>5, <2>1, <2>2, <2>3 DEF RequestSound
<1>9. found'[b] # None => found'[b].request \in Nat /\ FoundSound(b)'
  <2> SUFFICES ASSUME found'[b] # None PROVE found'[b].request \in Nat /\ FoundSound(b)'
    OBVIOUS
  <2>1. FoundSound(b) /\ found[b].request \in Nat
    BY <1>1 DEF SyncInv
  <2>2. found[b].request <= asked'[b]
    BY <1>2, <1>6, <2>1 DEF FoundSound
  <2>3. req_hmap'[b].no = req_hmap[b].no /\ req_hmap'[b].method = req_hmap[b].method
    BY <1>3, <1>4, <1>5 DEF IsRequest
  <2>4. QED
    BY <1>1, <2>1, <2>2, <2>3 DEF FoundSound, MethodReply
<1>10. QED
  BY <1>1, <1>2, <1>5, <1>6, <1>7, <1>8, <1>9, OnlyThisBus DEF SyncInv

(* The call returns what its request holds: its own answer, or none. *)
LEMMA ReturnStep ==
    ASSUME RouteInv, SyncInv, NEW b \in Bus, ReturnFromSync(b)
    PROVE  SyncInv'
<1>1. InSync(b) /\ req_hmap[b].buffer /\ RequestSound(b)
  BY DEF ReturnFromSync, InSync, SyncInv
<1>2. PICK q : q = req_hmap[b]
  OBVIOUS
<1>3. PICK s : s = [bus    |-> b,
                    method |-> call[b].method,
                    state  |-> StateReturned(q.state),
                    answer |-> q.answer]
  OBVIOUS
<1>4. /\ returned' = returned \cup {s}
      /\ req_hmap' = [req_hmap EXCEPT ![b] = None]
      /\ call' = [call EXCEPT ![b] = None]
      /\ UNCHANGED <<asked, found, ran>>
  BY <1>2, <1>3 DEF ReturnFromSync, DeleteRequest
<1>5. AnswerOwn(s.bus, s.method, s.state, s.answer)
  <2>1. s.bus = b /\ s.method = q.method /\ s.state = StateReturned(q.state) /\ s.answer = q.answer
    BY <1>1, <1>2, <1>3 DEF RequestSound
  <2>2. AnswerOwn(b, q.method, q.state, q.answer)
    BY <1>1, <1>2 DEF RequestSound
  <2>3. CASE q.answer = None
    BY <2>1, <2>3 DEF AnswerOwn
  <2>4. CASE q.answer # None
    <3>1. PICK r \in ran : /\ r.id = q.answer
                           /\ Prefix[r.method] = Prefix[q.method]
                           /\ q.state = Result[r.method]
      BY <2>2, <2>4 DEF AnswerOwn
    <3>2. Result[r.method] # Unanswered
      BY StateFits DEF SyncInv
    <3>3. QED
      BY <2>1, <2>2, <3>1, <3>2 DEF AnswerOwn, StateReturned
  <2>5. QED
    BY <2>3, <2>4
<1>6. /\ req_hmap'[b] = None /\ call'[b] = None
      /\ DOMAIN req_hmap' = Bus
      /\ \A c \in Bus \ {b} : req_hmap'[c] = req_hmap[c] /\ call'[c] = call[c]
  BY <1>4 DEF SyncInv, RouteInv, RequestsAsked
<1>7. ~InSync(b)'
  BY <1>6 DEF InSync
<1>8. found'[b] # None => found'[b].request \in Nat /\ FoundSound(b)'
  BY <1>1, <1>4, <1>7 DEF FoundSound, SyncInv, MethodReply
<1>9. \A t \in returned' : t \in returned \/ AnswerOwn(t.bus, t.method, t.state, t.answer)'
  BY <1>4, <1>5 DEF AnswerOwn
<1>10. QED
  BY <1>4, <1>6, <1>7, <1>8, <1>9, OnlyThisBus DEF SyncInv

(* A reply is matched with the request that waits for it. *)
LEMMA HandleReplyStep ==
    ASSUME RouteInv, SyncInv, NEW b \in Bus, HandleReply(b)
    PROVE  SyncInv'
<1> PICK m : m = Head(to_bus[b])
  OBVIOUS
<1>1. BusRead(b, {"REPLY_INVOKE"}) /\ UNCHANGED <<asked, call, req_hmap, ran, returned>>
  BY DEF HandleReply
<1>2. m.id[1] = b /\ MethodReply(m)
  BY <1>1, BusReads DEF ForBus
<1>3. PICK f : f = [reply |-> m, request |-> req_hmap[b].no]
  OBVIOUS
<1>4. /\ found'[b] = IF WaitsFor(b, m) THEN f ELSE None
      /\ DOMAIN found' = Bus /\ \A c \in Bus \ {b} : found'[c] = found[c]
  BY <1>3 DEF HandleReply, SyncInv
<1>5. InSync(b) <=> InSync(b)'
  BY <1>1 DEF InSync
<1>6. found'[b] # None => found'[b].request \in Nat /\ FoundSound(b)'
  <2> SUFFICES ASSUME found'[b] # None PROVE found'[b].request \in Nat /\ FoundSound(b)'
    OBVIOUS
  <2>1. req_hmap[b] # None /\ req_hmap[b].method = m.method /\ found'[b] = f
    BY <1>4 DEF WaitsFor
  <2>2. InSync(b) /\ RequestSound(b) /\ asked[b] \in Nat
    BY <2>1 DEF SyncInv
  <2>3. f.reply = m /\ f.request = req_hmap[b].no
    BY <1>3
  <2>4. MethodReply(m)'
    BY <1>1, <1>2 DEF MethodReply
  <2>5. \/ req_hmap[b].no = asked[b]
        \/ ~req_hmap[b].buffer /\ req_hmap[b].no = asked[b] + 1
    BY <2>2 DEF RequestSound
  <2>6. f.request \in Nat
    BY <2>2, <2>3, <2>5
  <2>7. \/ f.request <= asked[b]
        \/ ~req_hmap[b].buffer /\ f.request = asked[b] + 1
    BY <2>2, <2>3, <2>5
  <2>8. QED
    BY <1>1, <1>2, <1>5, <2>1, <2>2, <2>3, <2>4, <2>6, <2>7 DEF FoundSound
<1>7. RequestSound(b) => RequestSound(b)'
  BY <1>1 DEF RequestSound, AnswerOwn
<1>8. QED
  BY <1>1, <1>4, <1>5, <1>6, <1>7, OnlyThisBus DEF SyncInv

(* The state and the data of a reply go into the request it was matched with. *)
LEMMA StoreReplyStep ==
    ASSUME RouteInv, SyncInv, NEW b \in Bus, StoreReply(b)
    PROVE  SyncInv'
<1> PICK f : f = found[b]
  OBVIOUS
<1>1. /\ f # None /\ found' = [found EXCEPT ![b] = None]
      /\ UNCHANGED <<asked, call, ran, returned>>
  BY DEF StoreReply, Stored
<1>2. FoundSound(b) /\ f.request \in Nat
  BY <1>1 DEF SyncInv
<1>3. /\ found'[b] = None /\ DOMAIN found' = Bus
      /\ \A c \in Bus \ {b} : found'[c] = found[c]
  BY <1>1 DEF SyncInv
<1>4. InSync(b) <=> InSync(b)'
  BY <1>1 DEF InSync
<1>5. CASE UNCHANGED req_hmap
  <2>1. RequestSound(b) => RequestSound(b)'
    BY <1>1, <1>5 DEF RequestSound, AnswerOwn
  <2>2. QED
    BY <1>1, <1>3, <1>4, <1>5, <2>1, OnlyThisBus DEF SyncInv
<1>6. CASE /\ req_hmap[b] # None
           /\ req_hmap[b].no = f.request
           /\ req_hmap' = [req_hmap EXCEPT ![b].state  = AsShort(f.reply.state),
                                           ![b].answer = f.reply.id]
  <2>1. InSync(b) /\ RequestSound(b) /\ f.reply.method = req_hmap[b].method
    BY <1>2, <1>6 DEF SyncInv, FoundSound
  <2>2. PICK old : old = req_hmap[b] /\ IsRequest(old)
    BY <2>1 DEF RequestSound
  <2>3. PICK q : q = [old EXCEPT !.state = AsShort(f.reply.state), !.answer = f.reply.id]
    OBVIOUS
  <2>4. /\ req_hmap'[b] = q /\ DOMAIN req_hmap' = Bus
        /\ \A c \in Bus \ {b} : req_hmap'[c] = req_hmap[c]
    BY <1>6, <2>2, <2>3 DEF SyncInv
  <2>5. /\ IsRequest(q) /\ q.buffer = old.buffer /\ q.no = old.no /\ q.method = old.method
        /\ q.state = AsShort(f.reply.state) /\ q.answer = f.reply.id
    BY <2>2, <2>3 DEF IsRequest
  <2>6. PICK r \in ran : /\ r.id = f.reply.id
                         /\ Prefix[r.method] = Prefix[f.reply.method]
                         /\ f.reply.state = Result[r.method]
    BY <1>2 DEF FoundSound, MethodReply
  <2>7. AsShort(f.reply.state) = Result[r.method]
    BY <2>6, StateFits DEF SyncInv
  <2>8. AnswerOwn(b, q.method, q.state, q.answer)'
    BY <1>1, <1>2, <2>1, <2>2, <2>5, <2>6, <2>7 DEF AnswerOwn, FoundSound
  <2>9. RequestSound(b)'
    BY <1>1, <2>1, <2>2, <2>4, <2>5, <2>8 DEF RequestSound
  <2>10. QED
    BY <1>1, <1>3, <1>4, <2>1, <2>4, <2>9, OnlyThisBus DEF SyncInv
<1>7. QED
  BY <1>5, <1>6 DEF StoreReply

(* The objects a bus has entered are ones that it was asked to add.           *)
(* The objects a bus has entered have names. *)
ObjectsNamed == obj_hmap \in [Bus -> SUBSET Name]

(* A bus starts without objects. *)
LEMMA InitObjects == Init => ObjectsNamed
  BY DEF Init, ObjectsNamed

(* A bus enters an object under the name its application added. *)
LEMMA StepObjects == RouteInv /\ ObjectsNamed /\ [Next]_vars => ObjectsNamed'
<1> SUFFICES ASSUME RouteInv, ObjectsNamed, [Next]_vars PROVE ObjectsNamed'
  OBVIOUS
<1>1. ASSUME NEW b \in Bus, EnterObject(b) PROVE ObjectsNamed'
  <2>1. call[b] \in Request
    <3>1. call[b] \in Asks[b]
      BY <1>1 DEF EnterObject, RouteInv, RequestsAsked
    <3>2. Asks[b] \subseteq Request
      BY BusAssumption DEF BusAssumption
    <3>3. QED
      BY <3>1, <3>2
  <2>2. call[b].name \in Name
    BY <2>1 DEF Request
  <2>3. QED
    BY <1>1, <2>2 DEF EnterObject, ObjectsNamed
<1>2. CASE UNCHANGED obj_hmap
  BY <1>2 DEF ObjectsNamed
<1>3. ASSUME NEW b \in Bus, Application(b) PROVE ObjectsNamed'
  BY SMTT(60), <1>1, <1>2, <1>3 DEF Application, LookupOrInvoke, AddObject, InsertRequest,
     InvokeForRequest, ReturnFromSync
<1>4. ASSUME NEW b \in Bus, Slave(b) PROVE ObjectsNamed'
  BY ZenonT(60), <1>2, <1>4 DEF Slave, LogReply, HandleForward, HandleReply, StoreReply, busVars
<1>5. ASSUME NEW b \in Bus, Busd(b) PROVE ObjectsNamed'
  BY <1>2, <1>5 DEF Busd, BusdAddObject, BusdLookup, BusdInvoke, BusdForwardReply,
     BusdRead, busVars
<1>6. ASSUME NEW b \in Bus, Leave(b) PROVE ObjectsNamed'
  BY <1>2, <1>6 DEF Leave
<1>7. CASE UNCHANGED vars
  BY <1>2, <1>7 DEF vars, busVars
<1>8. QED
  BY <1>3, <1>4, <1>5, <1>6, <1>7 DEF Next

(* No step of a bus or the daemon gives a request the reply to another.        *)
LEMMA StepSync == RouteInv /\ ObjectsNamed /\ SyncInv /\ [Next]_vars => SyncInv'
<1> SUFFICES ASSUME RouteInv, ObjectsNamed, SyncInv, [Next]_vars PROVE SyncInv'
  OBVIOUS
<1>1. ASSUME NEW b \in Bus, NEW r \in Asks[b], LookupOrInvoke(b, r) PROVE SyncInv'
  BY <1>1, OutOfSync DEF LookupOrInvoke, MayAsk, SendRequest, InSync
<1>2. ASSUME NEW b \in Bus, NEW r \in Asks[b], AddObject(b, r) PROVE SyncInv'
  BY <1>2, OutOfSync DEF AddObject, MayAsk, SendRequest, InSync, RouteInv, RequestsAsked
<1>3. ASSUME NEW b \in Bus, EnterObject(b) PROVE SyncInv'
  BY <1>3, OutOfSync DEF EnterObject, InSync, RouteInv, RequestsAsked
<1>4. ASSUME NEW b \in Bus, Application(b) PROVE SyncInv'
  BY <1>1, <1>2, <1>3, <1>4, InsertRequestStep, InvokeForRequestStep, ReturnStep
     DEF Application
<1>5. ASSUME NEW b \in Bus, HandleForward(b) PROVE SyncInv'
  <2> PICK m : m = Head(to_bus[b])
    BY SMTT(60)
  <2>1. UNCHANGED <<asked, call, req_hmap, found, returned>>
    BY ZenonT(60), <1>5 DEF HandleForward, busVars
  <2>2. ran' = ran \/ /\ m.name \in obj_hmap[b]
                      /\ \E k \in DOMAIN MethodsOf[m.name] :
                            ran' = ran \cup {[id |-> m.id, by |-> b, name |-> m.name,
                                              method |-> MethodsOf[m.name][k]]}
    BY ZenonT(60), <1>5 DEF HandleForward
  <2>3. m.name \in obj_hmap[b] =>
            \A k \in DOMAIN MethodsOf[m.name] : MethodsOf[m.name][k] \in Method
    <3> SUFFICES ASSUME m.name \in obj_hmap[b], NEW k \in DOMAIN MethodsOf[m.name]
                 PROVE  MethodsOf[m.name][k] \in Method
      OBVIOUS
    <3>1. MethodsOf[m.name] \in Seq(Method)
      BY SMTT(60), BusAssumption DEF BusAssumption, ObjectsNamed
    <3>2. QED
      BY <3>1, LenProperties, ElementOfSeq
  <2>4. ran \subseteq ran' /\ \A r \in ran' : r.method \in Method
    BY <2>2, <2>3 DEF SyncInv
  <2>5. QED
    BY <2>1, <2>4, SyncUnchanged
<1>6. ASSUME UNCHANGED <<asked, call, req_hmap, found, returned, ran>> PROVE SyncInv'
  BY <1>6, SyncUnchanged DEF SyncInv
<1>7. ASSUME NEW b \in Bus, Slave(b) PROVE SyncInv'
  BY <1>5, <1>6, <1>7, HandleReplyStep, StoreReplyStep DEF Slave, LogReply, busVars
<1>8. ASSUME NEW b \in Bus, Busd(b) PROVE SyncInv'
  BY <1>6, <1>8 DEF Busd, BusdAddObject, BusdLookup, BusdInvoke, BusdForwardReply,
     BusdRead, busVars
<1>9. ASSUME NEW b \in Bus, Leave(b) PROVE SyncInv'
  BY <1>6, <1>9 DEF Leave
<1>10. CASE UNCHANGED vars
  BY <1>6, <1>10 DEF vars, busVars
<1>11. QED
  BY <1>4, <1>7, <1>8, <1>9, <1>10 DEF Next

(* What bus_invoke_sync returns, if a reply was stored, is the state that a    *)
(* method returned to an invocation of the same bus and the same method:       *)
(* whatever thread comes first, and however late the replies to earlier calls  *)
(* are.                                                                      *)
THEOREM SyncAnswerOwnCorrect == SafeSpec => []SyncAnswerOwn
<1>1. SyncInv => SyncAnswerOwn
  BY DEF SyncInv, AnswerOwn, SyncAnswerOwn
<1>2. QED
  BY <1>1, InitRoute, StepRoute, InitObjects, StepObjects, InitSync, StepSync, PTL DEF SafeSpec

-----------------------------------------------------------------------------
(***************************************************************************)
(* Invocations.  One that was sent and is not run is a message to the      *)
(* daemon or one that it forwards; how many there are is a matter of places *)
(* in the streams.                                                         *)
(***************************************************************************)
Side == {"busd", "bus"}

(* The i-th message of a stream of b to the daemon, or to b, is an invocation. *)
Sent(x, b, i, c) ==
    \/ /\ x = "busd"
       /\ i \in DOMAIN to_busd[b]
       /\ to_busd[b][i].type = "INVOKE"
       /\ to_busd[b][i].id = c
    \/ /\ x = "bus"
       /\ i \in DOMAIN to_bus[b]
       /\ to_bus[b][i].type = "FORWARD_INVOKE"
       /\ to_bus[b][i].id = c

IsSent(c) == \E x \in Side, b \in Bus, i \in Nat : Sent(x, b, i, c)

IsReplied(c) ==
    \E b \in Bus :
        \/ \E m \in Elements(to_busd[b]) : m.type = "REPLY_FORWARD_INVOKE" /\ m.id = c
        \/ \E m \in Elements(to_bus[b]) : m.type = "REPLY_INVOKE" /\ m.id = c

HasRun(c) == \E r \in ran : r.id = c

(* An invocation is under way at most once ...                               *)
SentOnce ==
    \A c : \A x, y \in Side : \A b, d \in Bus : \A i, j \in Nat :
        Sent(x, b, i, c) /\ Sent(y, d, j, c) => x = y /\ b = d /\ i = j

Numbered ==
    /\ DOMAIN asked = Bus /\ \A b \in Bus : asked[b] \in Nat
    /\ \A c \in invoked : \E b \in Bus : \E n \in Nat : c = <<b, n>> /\ n <= asked[b]

(* ... and not after it was run; what is run was invoked, what is answered    *)
(* was run, and the numbers of requests to come are not used.                *)
InvocationInv ==
    /\ SentOnce
    /\ \A c : IsSent(c) => c \in invoked /\ ~HasRun(c)
    /\ \A r \in ran : r.id \in invoked
    /\ \A a \in answered : HasRun(a.id)
    /\ Numbered

(* What a step may do to an invocation.                                      *)
Moves ==
    /\ invoked \subseteq invoked' /\ ran \subseteq ran' /\ answered \subseteq answered'
    /\ \A c : IsSent(c)' => IsSent(c) \/ (c \in invoked' /\ c \notin invoked)
    /\ \A c : IsReplied(c)' => IsReplied(c) \/ IsSent(c)
    /\ \A r \in ran' : r \in ran \/ (IsSent(r.id) /\ ~IsSent(r.id)')
    /\ \A a \in answered' : a \in answered \/ IsReplied(a.id)
    /\ \A c \in invoked' : c \in invoked \/ IsSent(c)'

(* Where the messages of a stream are after something was appended to it ...  *)
LEMMA AppendedAt ==
    ASSUME NEW q, DOMAIN q = Bus, \A d \in Bus : IsSeq(q[d]), NEW b \in Bus, NEW m,
           NEW p, p = [q EXCEPT ![b] = Append(@, m)]
    PROVE  \E n \in Nat :
              /\ n \notin DOMAIN q[b] /\ n \in DOMAIN p[b] /\ p[b][n] = m
              /\ \A d \in Bus : \A i \in DOMAIN p[d] :
                    \/ i \in DOMAIN q[d] /\ p[d][i] = q[d][i]
                    \/ d = b /\ i = n /\ p[d][i] = m
              /\ \A d \in Bus : \A i \in DOMAIN q[d] : i \in DOMAIN p[d] /\ p[d][i] = q[d][i]
<1>1. p[b] = Append(q[b], m) /\ \A d \in Bus : d # b => p[d] = q[d]
  OBVIOUS
<1>2. PICK s : s = q[b] /\ IsSeq(s)
  OBVIOUS
<1>3. s \in Seq(Elements(s))
  BY <1>2 DEF IsSeq
<1>4. PICK n \in Nat : n = Len(s) + 1
  BY <1>3, LenProperties
<1>5. PICK S : s \in Seq(S) /\ m \in S
  <2>1. s \in Seq(Elements(s) \cup {m})
    BY <1>3, LenProperties
  <2>2. QED
    BY <2>1
<1>6. /\ Len(s) \in Nat /\ DOMAIN s = 1..Len(s)
      /\ DOMAIN Append(s, m) = 1..(Len(s) + 1)
      /\ \A i \in 1..Len(s) : Append(s, m)[i] = s[i]
      /\ Append(s, m)[n] = m
  BY <1>4, <1>5, AppendProperties, LenProperties
<1>7. /\ n \notin DOMAIN s /\ n \in DOMAIN Append(s, m)
      /\ \A i \in DOMAIN Append(s, m) : i \in DOMAIN s \/ i = n
      /\ DOMAIN s \subseteq DOMAIN Append(s, m)
  BY <1>4, <1>6
<1>8. QED
  BY <1>1, <1>2, <1>6, <1>7

(* ... and after a read.                                                     *)
LEMMA ReadAt ==
    ASSUME NEW q, DOMAIN q = Bus, \A d \in Bus : IsSeq(q[d]), NEW b \in Bus,
           NEW k \in 1..Len(q[b]), NEW p, p = [q EXCEPT ![b] = Rest(@, k)]
    PROVE  /\ k \in Nat /\ k > 0
           /\ \A i \in DOMAIN p[b] :
                 i \in Nat /\ i > 0 /\ i + k \in DOMAIN q[b] /\ p[b][i] = q[b][i + k]
           /\ \A d \in Bus : d # b => p[d] = q[d]
<1>1. p[b] = Rest(q[b], k) /\ \A d \in Bus : d # b => p[d] = q[d]
  OBVIOUS
<1>2. PICK s : s = q[b] /\ IsSeq(s)
  OBVIOUS
<1>3. s \in Seq(Elements(s)) /\ Len(s) \in Nat /\ DOMAIN s = 1..Len(s)
  BY <1>2, LenProperties DEF IsSeq
<1>4. PICK t : t = SubSeq(s, k + 1, Len(s))
  OBVIOUS
<1>5. /\ DOMAIN t = 1..(IF k + 1 <= Len(s) THEN Len(s) - k ELSE 0)
      /\ \A i \in DOMAIN t : t[i] = s[i + k]
  <2>1. k \in 1..Len(s)
    BY <1>2
  <2>2. CASE k + 1 <= Len(s)
    BY <1>3, <1>4, <2>1, <2>2, SubSeqProperties
  <2>3. CASE k = Len(s)
    BY <1>3, <1>4, <2>1, <2>3, SubSeqProperties
  <2>4. k + 1 <= Len(s) \/ k = Len(s)
    <3>1. PICK n \in Nat : n = Len(s)
      BY ZenonT(60), <1>3
    <3>2. k \in 1..n
      BY <2>1, <3>1
    <3>3. k + 1 <= n \/ k = n
      BY <3>2
    <3>4. QED
      BY SMTT(60), <3>1, <3>3
  <2>5. QED
    BY <2>2, <2>3, <2>4
<1>6. k \in Nat /\ k > 0
  BY <1>2, <1>3
<1>7. \A i \in DOMAIN t : i \in Nat /\ i > 0 /\ i + k \in DOMAIN s /\ t[i] = s[i + k]
  BY SMTT(60), <1>3, <1>5, <1>6
<1>8. QED
  BY <1>1, <1>2, <1>4, <1>6, <1>7 DEF Rest

(* A step that takes k messages from one stream and sends at most one          *)
(* invocation, which is under way nowhere else then, keeps them single.        *)
Shift(x, b, y, a, k) == IF x = y /\ b = a THEN k ELSE 0

Carried(y, a, k, place, e) ==
    /\ \A c : \A x \in Side : \A b \in Bus : \A i \in Nat :
          Sent(x, b, i, c)' => \/ Sent(x, b, i + Shift(x, b, y, a, k), c)
                               \/ c = e /\ place = <<x, b, i>>
    /\ \A x \in Side : \A b \in Bus : \A i \in Nat :
          Sent(x, b, i, e)' => place \in {<<x, b, i>>, <<>>}

LEMMA SentOnceKept ==
    ASSUME SentOnce, NEW y, NEW a, NEW k \in Nat, NEW place, NEW e, Carried(y, a, k, place, e)
    PROVE  SentOnce'
<1> SUFFICES ASSUME NEW c, NEW x \in Side, NEW z \in Side, NEW b \in Bus, NEW d \in Bus,
                    NEW i \in Nat, NEW j \in Nat, Sent(x, b, i, c)', Sent(z, d, j, c)'
             PROVE  x = z /\ b = d /\ i = j
  BY DEF SentOnce
<1> USE DEF Carried
<1>1. Shift(x, b, y, a, k) \in Nat /\ Shift(z, d, y, a, k) \in Nat
  BY DEF Shift
<1>2. i + Shift(x, b, y, a, k) \in Nat /\ j + Shift(z, d, y, a, k) \in Nat
  BY <1>1
<1>3. CASE Sent(x, b, i + Shift(x, b, y, a, k), c) /\ Sent(z, d, j + Shift(z, d, y, a, k), c)
  <2>1. x = z /\ b = d /\ i + Shift(x, b, y, a, k) = j + Shift(z, d, y, a, k)
    BY <1>2, <1>3 DEF SentOnce
  <2>2. QED
    BY <1>1, <2>1
<1>4. CASE c = e /\ (place = <<x, b, i>> \/ place = <<z, d, j>>)
  <2>1. place \in {<<x, b, i>>, <<>>} /\ place \in {<<z, d, j>>, <<>>}
    BY <1>4
  <2>2. place = <<x, b, i>> /\ place = <<z, d, j>>
    BY <1>4, <2>1
  <2>3. QED
    BY <2>2
<1>5. QED
  BY <1>3, <1>4

(* Replies are of methods that have run.                                     *)
LEMMA RepliedHasRun == ASSUME RouteInv, NEW c, IsReplied(c) PROVE HasRun(c)
  BY DEF RouteInv, StreamsSound, IsReplied, FromBus, ForBus, MethodReply, HasRun

(* The rest of the invariant follows from what a step may do.                 *)
LEMMA InvocationKept ==
    ASSUME RouteInv, InvocationInv, Moves, SentOnce', Numbered'
    PROVE  InvocationInv'
<1>1. \A c : HasRun(c) => c \in invoked /\ HasRun(c)'
  BY DEF InvocationInv, HasRun, Moves
<1>2. \A c : IsSent(c)' => c \in invoked' /\ ~HasRun(c)'
  <2> SUFFICES ASSUME NEW c, IsSent(c)' PROVE c \in invoked' /\ ~HasRun(c)'
    OBVIOUS
  <2>1. HasRun(c)' => HasRun(c)
    BY DEF HasRun, Moves
  <2>2. QED
    BY <1>1, <2>1 DEF InvocationInv, Moves
<1>3. \A r \in ran' : r.id \in invoked'
  BY DEF InvocationInv, Moves
<1>4. \A a \in answered' : HasRun(a.id)'
  BY <1>1, RepliedHasRun DEF InvocationInv, Moves
<1>5. QED
  BY <1>2, <1>3, <1>4 DEF InvocationInv

(* Nothing happens to invocations where the streams stay as they are.         *)
LEMMA InvocationsRest ==
    ASSUME RouteInv, InvocationInv,
           UNCHANGED <<to_busd, to_bus, asked, invoked, ran, answered>>
    PROVE  InvocationInv' /\ Moves
<1>1. \A x, b, i, c : Sent(x, b, i, c)' <=> Sent(x, b, i, c)
  BY DEF Sent
<1>2. SentOnce'
  BY <1>1 DEF InvocationInv, SentOnce
<1>3. \A c : (IsSent(c)' <=> IsSent(c)) /\ (IsReplied(c)' <=> IsReplied(c))
  BY <1>1 DEF IsSent, IsReplied
<1>4. Moves /\ Numbered'
  BY <1>3 DEF Moves, InvocationInv, Numbered
<1>5. QED
  BY <1>2, <1>4, InvocationKept

(* A request is the next of its bus, so that an invocation is a new one.       *)
LEMMA InvocationSent ==
    ASSUME RouteInv, InvocationInv, NEW b \in Bus, NEW r, SendRequest(b, r),
           UNCHANGED <<to_bus, ran, answered>>
    PROVE  InvocationInv' /\ Moves
<1>1. PICK e : e = <<b, asked[b] + 1>>
  OBVIOUS
<1>2. PICK m : m = [type |-> TypeFor(r), id |-> e, table |-> table'[b]]
  OBVIOUS
<1>3. /\ to_busd' = [to_busd EXCEPT ![b] = Append(@, m)]
      /\ asked' = [asked EXCEPT ![b] = @ + 1]
      /\ invoked' = IF TypeFor(r) = "INVOKE" THEN invoked \cup {e} ELSE invoked
      /\ m.type = TypeFor(r) /\ m.id = e /\ TypeFor(r) # "REPLY_FORWARD_INVOKE"
  BY <1>1, <1>2 DEF SendRequest, TypeFor
<1>4. /\ DOMAIN asked' = Bus /\ asked'[b] = asked[b] + 1
      /\ \A d \in Bus : asked'[d] \in Nat /\ asked[d] <= asked'[d]
  BY <1>3 DEF InvocationInv, Numbered
<1>5. e \notin invoked
  <2> SUFFICES ASSUME e \in invoked PROVE FALSE
    OBVIOUS
  <2>1. PICK d \in Bus, n \in Nat : e = <<d, n>> /\ n <= asked[d]
    BY DEF InvocationInv, Numbered
  <2>2. d = b /\ n = asked[b] + 1
    BY <1>1, <2>1
  <2>3. QED
    BY <2>1, <2>2 DEF InvocationInv, Numbered
<1>6. Numbered'
  <2>1. ASSUME NEW c \in invoked'
        PROVE  \E d \in Bus : \E n \in Nat : c = <<d, n>> /\ n <= asked'[d]
    <3>1. CASE c \in invoked
      <4>1. PICK d \in Bus, n \in Nat : c = <<d, n>> /\ n <= asked[d]
        BY <3>1 DEF InvocationInv, Numbered
      <4>2. asked[d] \in Nat
        BY DEF InvocationInv, Numbered
      <4>3. QED
        BY <1>4, <4>1, <4>2
    <3>2. CASE c = e
      <4>1. asked[b] + 1 \in Nat /\ asked[b] + 1 <= asked'[b]
        BY <1>4 DEF InvocationInv, Numbered
      <4>2. QED
        BY <1>1, <3>2, <4>1
    <3>3. QED
      BY <1>3, <2>1, <3>1, <3>2
  <2>2. QED
    BY <1>4, <2>1 DEF Numbered
<1>7. PICK n \in Nat :
         /\ n \in DOMAIN to_busd'[b] /\ to_busd'[b][n] = m
         /\ \A d \in Bus : \A i \in DOMAIN to_busd'[d] :
               \/ i \in DOMAIN to_busd[d] /\ to_busd'[d][i] = to_busd[d][i]
               \/ d = b /\ i = n /\ to_busd'[d][i] = m
         /\ \A d \in Bus : \A i \in DOMAIN to_busd[d] :
               i \in DOMAIN to_busd'[d] /\ to_busd'[d][i] = to_busd[d][i]
  BY <1>3, AppendedAt DEF RouteInv, StreamsAreSequences
<1>8. \A c : \A x \in Side : \A d \in Bus : \A i \in Nat :
          Sent(x, d, i, c)' => \/ Sent(x, d, i, c)
                               \/ c = e /\ <<"busd", b, n>> = <<x, d, i>> /\ TypeFor(r) = "INVOKE"
  BY <1>3, <1>7 DEF Sent, Side
<1>9. \A x \in Side : \A d \in Bus : \A i \in Nat : ~Sent(x, d, i, e)
  BY <1>5 DEF InvocationInv, IsSent
<1>10. SentOnce'
  <2>1. PICK k, place, y : k = 0 /\ k \in Nat /\ place = <<"busd", b, n>> /\ y = "busd"
    OBVIOUS
  <2>2. \A x \in Side : \A d \in Bus : \A i \in Nat : i + Shift(x, d, y, b, k) = i
    BY <2>1 DEF Shift
  <2>3. \A c : \A x \in Side : \A d \in Bus : \A i \in Nat :
            Sent(x, d, i, c)' => \/ Sent(x, d, i + Shift(x, d, y, b, k), c)
                                 \/ c = e /\ place = <<x, d, i>>
    BY <1>8, <2>1, <2>2
  <2>4. \A x \in Side : \A d \in Bus : \A i \in Nat :
            Sent(x, d, i, e)' => place \in {<<x, d, i>>, <<>>}
    BY <1>8, <1>9, <2>1
  <2>5. SentOnce
    BY DEF InvocationInv
  <2>6. Carried(y, b, k, place, e)
    BY <2>3, <2>4 DEF Carried
  <2>7. QED
    BY <2>1, <2>5, <2>6, SentOnceKept
<1>11. \A c : IsSent(c)' => IsSent(c) \/ (c = e /\ TypeFor(r) = "INVOKE")
  BY <1>8 DEF IsSent
<1>12. TypeFor(r) = "INVOKE" => IsSent(e)'
  BY <1>3, <1>7 DEF IsSent, Sent, Side
<1>13. \A c : IsReplied(c)' => IsReplied(c)
  BY <1>3, <1>7 DEF IsReplied, Elements
<1>14. Moves
  BY <1>3, <1>5, <1>11, <1>12, <1>13 DEF Moves
<1>15. QED
  BY <1>6, <1>10, <1>14, InvocationKept

(* The first message of a stream.                                            *)
LEMMA HeadAt ==
    ASSUME NEW s, IsSeq(s), s # <<>>
    PROVE  1 \in DOMAIN s /\ s[1] = Head(s) /\ Head(s) \in Elements(s)
<1>1. s \in Seq(Elements(s))
  BY DEF IsSeq
<1>2. Len(s) \in Nat /\ Len(s) # 0 /\ DOMAIN s = 1..Len(s)
  BY <1>1, LenProperties, EmptySeq
<1>3. QED
  BY <1>1, <1>2, HeadElement, HeadTailProperties

(* The daemon takes a message and sends none or one: of an invocation that is  *)
(* forwarded, or of a reply.                                                 *)
LEMMA DaemonPasses ==
    ASSUME RouteInv, InvocationInv, NEW b \in Bus, NEW type, BusdRead(b, type),
           NEW fd, NEW m, Write(fd, m) \/ UNCHANGED to_bus,
           m.type = "FORWARD_INVOKE" => type = "INVOKE" /\ m.id = Head(to_busd[b]).id,
           m.type = "REPLY_INVOKE" =>
               type = "REPLY_FORWARD_INVOKE" /\ m.id = Head(to_busd[b]).id
    PROVE  InvocationInv' /\ Moves
<1>1. PICK h : h = Head(to_busd[b])
  OBVIOUS
<1>2. PICK k \in 1..Len(to_busd[b]) : to_busd' = [to_busd EXCEPT ![b] = Rest(@, k)]
  BY DEF BusdRead
<1>3. /\ h.type = type /\ UNCHANGED <<asked, ran, answered, invoked>>
      /\ 1 \in DOMAIN to_busd[b] /\ to_busd[b][1] = h /\ h \in Elements(to_busd[b])
  BY <1>1, HeadAt DEF BusdRead, busVars, RouteInv, StreamsAreSequences
<1>4. /\ k \in Nat /\ k > 0
      /\ \A i \in DOMAIN to_busd'[b] :
            i \in Nat /\ i > 0 /\ i + k \in DOMAIN to_busd[b] /\ to_busd'[b][i] = to_busd[b][i + k]
      /\ \A d \in Bus : d # b => to_busd'[d] = to_busd[d]
  BY <1>2, ReadAt DEF RouteInv, StreamsAreSequences
<1>5. PICK place :
         /\ \A d \in Bus : \A i \in DOMAIN to_bus'[d] :
               \/ i \in DOMAIN to_bus[d] /\ to_bus'[d][i] = to_bus[d][i]
               \/ place = <<"bus", d, i>> /\ to_bus'[d][i] = m
  <2>1. CASE UNCHANGED to_bus
    BY <2>1
  <2>2. CASE \E c \in Bus : to_bus' = [to_bus EXCEPT ![c] = Append(@, m)]
    <3>1. PICK c \in Bus : to_bus' = [to_bus EXCEPT ![c] = Append(@, m)]
      BY <2>2
    <3>2. PICK n \in Nat :
            \A d \in Bus : \A i \in DOMAIN to_bus'[d] :
               \/ i \in DOMAIN to_bus[d] /\ to_bus'[d][i] = to_bus[d][i]
               \/ d = c /\ i = n /\ to_bus'[d][i] = m
      BY <3>1, AppendedAt DEF RouteInv, StreamsAreSequences
    <3>3. PICK q : q = <<"bus", c, n>>
      OBVIOUS
    <3>4. \A d \in Bus : \A i \in DOMAIN to_bus'[d] :
               \/ i \in DOMAIN to_bus[d] /\ to_bus'[d][i] = to_bus[d][i]
               \/ q = <<"bus", d, i>> /\ to_bus'[d][i] = m
      BY <3>2, <3>3
    <3>5. QED
      BY <3>4
  <2>3. QED
    BY <2>1, <2>2 DEF Write
<1>6. PICK p : p = IF m.type = "FORWARD_INVOKE" THEN place ELSE <<>>
  OBVIOUS
<1>7. \A c : \A x \in Side : \A d \in Bus : \A i \in Nat :
          Sent(x, d, i, c)' =>
              \/ /\ Sent(x, d, i + Shift(x, d, "busd", b, k), c)
                 /\ x = "busd" /\ d = b => i > 0
              \/ c = h.id /\ p = <<x, d, i>> /\ m.type = "FORWARD_INVOKE"
  <2> SUFFICES ASSUME NEW c, NEW x \in Side, NEW d \in Bus, NEW i \in Nat, Sent(x, d, i, c)'
               PROVE  \/ /\ Sent(x, d, i + Shift(x, d, "busd", b, k), c)
                         /\ x = "busd" /\ d = b => i > 0
                      \/ c = h.id /\ p = <<x, d, i>> /\ m.type = "FORWARD_INVOKE"
    OBVIOUS
  <2>1. CASE x = "busd" /\ d = b
    BY <1>4, <2>1 DEF Sent, Shift
  <2>2. CASE x = "busd" /\ d # b
    <3>1. Shift(x, d, "busd", b, k) = 0 /\ i + 0 = i
      BY <2>2 DEF Shift
    <3>2. QED
      BY <1>4, <2>2, <3>1 DEF Sent
  <2>3. CASE x = "bus"
    <3>1. Shift(x, d, "busd", b, k) = 0 /\ i + 0 = i
      BY <2>3 DEF Shift
    <3>2. QED
      BY <1>1, <1>5, <1>6, <2>3, <3>1 DEF Sent
  <2>4. QED
    BY <2>1, <2>2, <2>3 DEF Side
<1>8. m.type = "FORWARD_INVOKE" => Sent("busd", b, 1, h.id)
  BY <1>1, <1>3 DEF Sent
<1>9. SentOnce'
  <2>1. \A x \in Side : \A d \in Bus : \A i \in Nat :
            Sent(x, d, i, h.id)' => p \in {<<x, d, i>>, <<>>}
    <3> SUFFICES ASSUME NEW x \in Side, NEW d \in Bus, NEW i \in Nat, Sent(x, d, i, h.id)',
                        m.type = "FORWARD_INVOKE",
                        Sent(x, d, i + Shift(x, d, "busd", b, k), h.id),
                        x = "busd" /\ d = b => i > 0
                 PROVE  FALSE
      BY <1>6, <1>7
    <3>1. i + Shift(x, d, "busd", b, k) \in Nat /\ 1 \in Nat
      BY <1>4 DEF Shift
    <3>2. x = "busd" /\ d = b /\ i + Shift(x, d, "busd", b, k) = 1
      BY SMTT(60), <1>8, <3>1 DEF InvocationInv, SentOnce, Side
    <3>3. Shift(x, d, "busd", b, k) = k
      BY <3>2 DEF Shift
    <3>4. QED
      BY <1>4, <3>2, <3>3
  <2>2. PICK y, e : y = "busd" /\ e = h.id
    OBVIOUS
  <2>3. Carried(y, b, k, p, e)
    BY <1>7, <2>1, <2>2 DEF Carried
  <2>4. QED
    BY <1>4, <2>3, SentOnceKept DEF InvocationInv
<1>10. \A c : IsSent(c)' => IsSent(c)
  <2>1. \A x, d : Shift(x, d, "busd", b, k) \in Nat
    BY <1>4 DEF Shift
  <2>2. \A i \in Nat : \A x, d : i + Shift(x, d, "busd", b, k) \in Nat
    BY <2>1
  <2>3. QED
    BY <1>7, <1>8, <2>2 DEF IsSent, Side
<1>11. \A c : IsReplied(c)' => IsReplied(c)
  <2>1. \A d \in Bus : Elements(to_busd'[d]) \subseteq Elements(to_busd[d])
    BY <1>4 DEF Elements
  <2>2. \A d \in Bus : \A g \in Elements(to_bus'[d]) : g \in Elements(to_bus[d]) \/ g = m
    BY <1>5 DEF Elements
  <2>3. m.type = "REPLY_INVOKE" => IsReplied(m.id)
    BY <1>1, <1>3 DEF IsReplied
  <2>4. QED
    BY <2>1, <2>2, <2>3 DEF IsReplied
<1>12. Moves /\ Numbered'
  BY <1>3, <1>10, <1>11 DEF Moves, InvocationInv, Numbered
<1>13. QED
  BY <1>9, <1>12, InvocationKept

(* The handlers of the daemon.                                               *)
LEMMA DaemonMoves ==
    ASSUME RouteInv, InvocationInv, NEW b \in Bus, Busd(b)
    PROVE  InvocationInv' /\ Moves
<1> PICK h : h = Head(to_busd[b])
  OBVIOUS
<1> DEFINE Quiet == [type |-> "none"]
<1>1. ASSUME NEW type, BusdRead(b, type), UNCHANGED to_bus PROVE InvocationInv' /\ Moves
  <2>1. Quiet.type # "FORWARD_INVOKE" /\ Quiet.type # "REPLY_INVOKE"
    OBVIOUS
  <2> HIDE DEF Quiet
  <2>2. QED
    BY <1>1, <2>1, DaemonPasses
<1>2. ASSUME BusdAddObject(b) PROVE InvocationInv' /\ Moves
  <2>1. BusdRead(b, "ADD_OBJECT")
    BY <1>2 DEF BusdAddObject
  <2>2. PICK m : m = [type |-> "REPLY_ADD_OBJECT", name |-> h.table.name]
    OBVIOUS
  <2>3. m.type = "REPLY_ADD_OBJECT"
    BY <2>2
  <2>4. Write(FdOf[b], m) \/ UNCHANGED to_bus
    BY <1>2, <2>2 DEF BusdAddObject, NoAttribute
  <2>5. QED
    BY <2>1, <2>3, <2>4, DaemonPasses
<1>3. ASSUME BusdLookup(b) PROVE InvocationInv' /\ Moves
  <2>1. BusdRead(b, "LOOKUP")
    BY <1>3 DEF BusdLookup
  <2>2. PICK m : m = [type |-> "REPLY_LOOKUP", name |-> h.table.name]
    OBVIOUS
  <2>3. m.type = "REPLY_LOOKUP"
    BY <2>2
  <2>4. Write(FdOf[b], m) \/ UNCHANGED to_bus
    BY <1>3, <2>2 DEF BusdLookup, NoAttribute
  <2>5. QED
    BY <2>1, <2>3, <2>4, DaemonPasses
<1>4. ASSUME BusdInvoke(b) PROVE InvocationInv' /\ Moves
  <2>1. BusdRead(b, "INVOKE")
    BY <1>4 DEF BusdInvoke
  <2>2. PICK m : m = [type |-> "FORWARD_INVOKE", id |-> h.id, name |-> h.table.name,
                      method |-> h.table.method, src |-> FdOf[b]]
    OBVIOUS
  <2>3. m.type = "FORWARD_INVOKE" /\ m.id = h.id
    BY <2>2
  <2>4. UNCHANGED to_bus \/ \E k \in DOMAIN objects : Write(objects[k].fd, m)
    BY <1>4, <2>2 DEF BusdInvoke, NoAttribute, NoObject
  <2>5. QED
    BY <2>1, <2>3, <2>4, DaemonPasses
<1>5. ASSUME BusdForwardReply(b) PROVE InvocationInv' /\ Moves
  <2>1. BusdRead(b, "REPLY_FORWARD_INVOKE")
    BY <1>5 DEF BusdForwardReply
  <2>2. PICK m : m = [type |-> "REPLY_INVOKE", id |-> h.id, name |-> h.name,
                      method |-> h.method, state |-> h.state]
    OBVIOUS
  <2>3. m.type = "REPLY_INVOKE" /\ m.id = h.id
    BY <2>2
  <2>4. Write(ReplyTo(b, h), m)
    BY <1>5, <2>2 DEF BusdForwardReply
  <2>5. QED
    BY <2>1, <2>3, <2>4, DaemonPasses
<1>6. QED
  BY <1>2, <1>3, <1>4, <1>5 DEF Busd

(* A bus takes a message and sends a reply to an invocation, or none.          *)
LEMMA BusTakes ==
    ASSUME RouteInv, InvocationInv, NEW b \in Bus, NEW types, BusRead(b, types),
           NEW h, h = Head(to_bus[b]), NEW m,
           \/ UNCHANGED to_busd
           \/ /\ to_busd' = [to_busd EXCEPT ![b] = Append(@, m)]
              /\ m.type = "REPLY_FORWARD_INVOKE" /\ m.id = h.id
              /\ h.type = "FORWARD_INVOKE",
           UNCHANGED <<asked, invoked>>
    PROVE  /\ SentOnce' /\ Numbered'
           /\ \A c : IsSent(c)' => IsSent(c)
           /\ \A c : IsReplied(c)' => IsReplied(c) \/ IsSent(c)
           /\ h.type = "FORWARD_INVOKE" => IsSent(h.id) /\ ~IsSent(h.id)'
           /\ h.type = "REPLY_INVOKE" => IsReplied(h.id)
<1>1. PICK k \in 1..Len(to_bus[b]) : to_bus' = [to_bus EXCEPT ![b] = Rest(@, k)]
  BY DEF BusRead
<1>2. 1 \in DOMAIN to_bus[b] /\ to_bus[b][1] = h /\ h \in Elements(to_bus[b])
  BY HeadAt DEF BusRead, RouteInv, StreamsAreSequences
<1>3. /\ k \in Nat /\ k > 0
      /\ \A i \in DOMAIN to_bus'[b] :
            i \in Nat /\ i > 0 /\ i + k \in DOMAIN to_bus[b] /\ to_bus'[b][i] = to_bus[b][i + k]
      /\ \A d \in Bus : d # b => to_bus'[d] = to_bus[d]
  BY <1>1, ReadAt DEF RouteInv, StreamsAreSequences
<1>4. \A d \in Bus : \A i \in DOMAIN to_busd'[d] :
          \/ i \in DOMAIN to_busd[d] /\ to_busd'[d][i] = to_busd[d][i]
          \/ /\ to_busd'[d][i] = m /\ m.type = "REPLY_FORWARD_INVOKE" /\ m.id = h.id
             /\ h.type = "FORWARD_INVOKE"
  <2>1. CASE UNCHANGED to_busd
    BY <2>1
  <2>2. CASE to_busd' = [to_busd EXCEPT ![b] = Append(@, m)]
    <3>1. \A d \in Bus : \A i \in DOMAIN to_busd'[d] :
               \/ i \in DOMAIN to_busd[d] /\ to_busd'[d][i] = to_busd[d][i]
               \/ to_busd'[d][i] = m
      BY <2>2, AppendedAt DEF RouteInv, StreamsAreSequences
    <3>2. UNCHANGED to_busd \/ (m.type = "REPLY_FORWARD_INVOKE" /\ m.id = h.id
                                /\ h.type = "FORWARD_INVOKE")
      OBVIOUS
    <3>3. QED
      BY <3>1, <3>2
  <2>3. QED
    BY <2>1, <2>2
<1>5. \A c : \A x \in Side : \A d \in Bus : \A i \in Nat :
          Sent(x, d, i, c)' => /\ Sent(x, d, i + Shift(x, d, "bus", b, k), c)
                               /\ x = "bus" /\ d = b => i > 0
  <2> SUFFICES ASSUME NEW c, NEW x \in Side, NEW d \in Bus, NEW i \in Nat, Sent(x, d, i, c)'
               PROVE  /\ Sent(x, d, i + Shift(x, d, "bus", b, k), c)
                      /\ x = "bus" /\ d = b => i > 0
    OBVIOUS
  <2>1. CASE x = "bus" /\ d = b
    BY <1>3, <2>1 DEF Sent, Shift
  <2>2. CASE x = "bus" /\ d # b
    <3>1. Shift(x, d, "bus", b, k) = 0 /\ i + 0 = i
      BY <2>2 DEF Shift
    <3>2. QED
      BY <1>3, <2>2, <3>1 DEF Sent
  <2>3. CASE x = "busd"
    <3>1. Shift(x, d, "bus", b, k) = 0 /\ i + 0 = i
      BY <2>3 DEF Shift
    <3>2. QED
      BY <1>4, <2>3, <3>1 DEF Sent
  <2>4. QED
    BY <2>1, <2>2, <2>3 DEF Side
<1>6. \A i \in Nat : \A x, d : i + Shift(x, d, "bus", b, k) \in Nat
  <2>1. \A x, d : Shift(x, d, "bus", b, k) \in Nat
    BY <1>3 DEF Shift
  <2>2. QED
    BY <2>1
<1>7. SentOnce'
  <2>1. PICK y, p, e : y = "bus" /\ p = <<>> /\ e = h.id
    OBVIOUS
  <2>2. Carried(y, b, k, p, e)
    BY <1>5, <2>1 DEF Carried
  <2>3. QED
    BY <1>3, <2>2, SentOnceKept DEF InvocationInv
<1>8. \A c : IsSent(c)' => IsSent(c)
  BY ZenonT(60), <1>5, <1>6 DEF IsSent, Side
<1>9. \A c : IsReplied(c)' => IsReplied(c) \/ IsSent(c)
  <2>1. \A d \in Bus : Elements(to_bus'[d]) \subseteq Elements(to_bus[d])
    BY <1>3 DEF Elements
  <2>2. \A d \in Bus : \A g \in Elements(to_busd'[d]) :
            \/ g \in Elements(to_busd[d])
            \/ g.id = h.id /\ h.type = "FORWARD_INVOKE"
    BY <1>4 DEF Elements
  <2>3. h.type = "FORWARD_INVOKE" => IsSent(h.id)
    BY <1>2 DEF IsSent, Sent, Side
  <2>4. QED
    BY <2>1, <2>2, <2>3 DEF IsReplied
<1>10. ASSUME h.type = "FORWARD_INVOKE" PROVE IsSent(h.id) /\ ~IsSent(h.id)'
  <2>1. Sent("bus", b, 1, h.id)
    BY <1>2, <1>10 DEF Sent
  <2>2. ASSUME IsSent(h.id)' PROVE FALSE
    <3>1. PICK x \in Side, d \in Bus, i \in Nat : Sent(x, d, i, h.id)'
      BY <2>2 DEF IsSent
    <3>2. x = "bus" /\ d = b /\ i + Shift(x, d, "bus", b, k) = 1 /\ i > 0
      <4>1. PICK j \in Nat : j = i + Shift(x, d, "bus", b, k)
        BY <1>6
      <4>2. Sent(x, d, j, h.id)
        BY <1>5, <3>1, <4>1
      <4>3. x = "bus" /\ d = b /\ j = 1
        BY <2>1, <4>2 DEF InvocationInv, SentOnce, Side
      <4>4. QED
        BY <1>5, <3>1, <4>1, <4>3
    <3>3. Shift(x, d, "bus", b, k) = k
      BY <3>2 DEF Shift
    <3>4. QED
      BY <1>3, <3>2, <3>3
  <2>3. QED
    BY <2>1, <2>2 DEF IsSent, Side
<1>11. h.type = "REPLY_INVOKE" => IsReplied(h.id)
  BY <1>2 DEF IsReplied
<1>12. Numbered'
  BY DEF InvocationInv, Numbered
<1>13. QED
  BY <1>7, <1>8, <1>9, <1>10, <1>11, <1>12

(* The handlers of a bus.                                                    *)
LEMMA SlaveMoves ==
    ASSUME RouteInv, InvocationInv, NEW b \in Bus, Slave(b)
    PROVE  InvocationInv' /\ Moves
<1> PICK h : h = Head(to_bus[b])
  OBVIOUS
<1>1. CASE StoreReply(b)
  BY <1>1, InvocationsRest DEF StoreReply
<1>2. ASSUME NEW types, BusRead(b, types), NEW m,
             \/ UNCHANGED <<to_busd, ran>>
             \/ /\ to_busd' = [to_busd EXCEPT ![b] = Append(@, m)]
                /\ m.type = "REPLY_FORWARD_INVOKE" /\ m.id = h.id
                /\ h.type = "FORWARD_INVOKE"
                /\ ran \subseteq ran' /\ \A r \in ran' : r \in ran \/ r.id = h.id,
             UNCHANGED <<asked, invoked>>,
             answered \subseteq answered',
             \A a \in answered' : a \in answered \/ (a.id = h.id /\ h.type = "REPLY_INVOKE")
      PROVE  InvocationInv' /\ Moves
  <2>1. /\ SentOnce' /\ Numbered'
        /\ \A c : IsSent(c)' => IsSent(c)
        /\ \A c : IsReplied(c)' => IsReplied(c) \/ IsSent(c)
        /\ h.type = "FORWARD_INVOKE" => IsSent(h.id) /\ ~IsSent(h.id)'
        /\ h.type = "REPLY_INVOKE" => IsReplied(h.id)
    BY <1>2, BusTakes
  <2>2. Moves
    BY <1>2, <2>1 DEF Moves
  <2>3. QED
    BY <2>1, <2>2, InvocationKept
<1>3. CASE LogReply(b)
  <2>1. BusRead(b, {"REPLY_ADD_OBJECT", "REPLY_LOOKUP"})
        /\ UNCHANGED <<to_busd, ran, asked, invoked, answered>>
    BY <1>3 DEF LogReply, busVars
  <2>2. QED
    BY <1>2, <2>1
<1>4. CASE HandleReply(b)
  <2>1. PICK a : a = [id |-> h.id, at |-> b]
    OBVIOUS
  <2>2. /\ BusRead(b, {"REPLY_INVOKE"}) /\ UNCHANGED <<to_busd, ran, asked, invoked>>
        /\ answered' = answered \cup {a} /\ a.id = h.id
    BY <1>4, <2>1 DEF HandleReply
  <2>3. h.type = "REPLY_INVOKE"
    BY <2>2 DEF BusRead
  <2>4. answered \subseteq answered' /\ \A e \in answered' : e \in answered \/ e.id = h.id
    BY <2>2
  <2>5. QED
    BY <1>2, <2>2, <2>3, <2>4
<1>5. CASE HandleForward(b)
  <2>1. BusRead(b, {"FORWARD_INVOKE"}) /\ UNCHANGED <<asked, invoked, answered>>
    BY ZenonT(60), <1>5 DEF HandleForward, busVars
  <2>2. h.type = "FORWARD_INVOKE"
    BY <2>1 DEF BusRead
  <2>3. CASE UNCHANGED <<to_busd, ran>>
    BY <1>2, <2>1, <2>3
  <2>4. CASE ~UNCHANGED <<to_busd, ran>>
    <3>1. PICK k \in DOMAIN MethodsOf[h.name] :
             /\ ran' = ran \cup {[id |-> h.id, by |-> b, name |-> h.name,
                                  method |-> MethodsOf[h.name][k]]}
             /\ to_busd' = [to_busd EXCEPT ![b] =
                               Append(@, [type   |-> "REPLY_FORWARD_INVOKE",
                                          id     |-> h.id,
                                          name   |-> h.name,
                                          method |-> h.method,
                                          state  |-> Result[MethodsOf[h.name][k]],
                                          src    |-> h.src])]
      BY ZenonT(60), <1>5, <2>4 DEF HandleForward
    <3>2. PICK m, r : /\ m = [type   |-> "REPLY_FORWARD_INVOKE",
                              id     |-> h.id,
                              name   |-> h.name,
                              method |-> h.method,
                              state  |-> Result[MethodsOf[h.name][k]],
                              src    |-> h.src]
                      /\ r = [id |-> h.id, by |-> b, name |-> h.name,
                              method |-> MethodsOf[h.name][k]]
      OBVIOUS
    <3>3. /\ ran' = ran \cup {r} /\ r.id = h.id
          /\ to_busd' = [to_busd EXCEPT ![b] = Append(@, m)]
          /\ m.type = "REPLY_FORWARD_INVOKE" /\ m.id = h.id
      BY <3>1, <3>2
    <3>4. ran \subseteq ran' /\ \A q \in ran' : q \in ran \/ q.id = h.id
      BY <3>3
    <3>5. QED
      BY ZenonT(60), <1>2, <2>1, <2>2, <3>3, <3>4
  <2>5. QED
    BY <2>3, <2>4
<1>6. QED
  BY <1>1, <1>3, <1>4, <1>5 DEF Slave

(* What was on its way to a bus that ends is lost.                           *)
LEMMA LeaveMoves ==
    ASSUME RouteInv, InvocationInv, NEW b \in Bus, Leave(b)
    PROVE  InvocationInv' /\ Moves
<1>1. /\ to_bus' = [to_bus EXCEPT ![b] = <<>>]
      /\ UNCHANGED <<to_busd, asked, invoked, ran, answered>>
  BY DEF Leave
<1>2. to_bus'[b] = <<>> /\ \A d \in Bus : d # b => to_bus'[d] = to_bus[d]
  BY <1>1 DEF RouteInv, StreamsAreSequences
<1>3. \A c : \A x \in Side : \A d \in Bus : \A i \in Nat : Sent(x, d, i, c)' => Sent(x, d, i, c)
  BY <1>1, <1>2 DEF Sent
<1>4. SentOnce'
  BY <1>3 DEF InvocationInv, SentOnce
<1>5. \A c : IsSent(c)' => IsSent(c)
  BY <1>3 DEF IsSent
<1>6. \A d \in Bus : Elements(to_bus'[d]) \subseteq Elements(to_bus[d])
  BY <1>2, EmptyElements
<1>7. \A c : IsReplied(c)' => IsReplied(c)
  BY <1>1, <1>6 DEF IsReplied
<1>8. Moves /\ Numbered'
  BY <1>1, <1>5, <1>7 DEF Moves, InvocationInv, Numbered
<1>9. QED
  BY <1>4, <1>8, InvocationKept

(* Any step.                                                                 *)
LEMMA StepInvocations ==
    ASSUME RouteInv, InvocationInv, [Next]_vars
    PROVE  InvocationInv' /\ Moves
<1>1. ASSUME NEW b \in Bus, Application(b) PROVE InvocationInv' /\ Moves
  <2>1. ASSUME NEW r \in Asks[b], LookupOrInvoke(b, r) \/ AddObject(b, r)
        PROVE  InvocationInv' /\ Moves
    BY <2>1, InvocationSent DEF LookupOrInvoke, AddObject
  <2>2. CASE InvokeForRequest(b)
    BY <2>2, InvocationSent DEF InvokeForRequest
  <2>3. ASSUME NEW r \in Asks[b], InsertRequest(b, r) PROVE InvocationInv' /\ Moves
    BY <2>3, InvocationsRest DEF InsertRequest
  <2>4. CASE EnterObject(b) \/ ReturnFromSync(b)
    BY <2>4, InvocationsRest DEF EnterObject, ReturnFromSync
  <2>5. QED
    BY <1>1, <2>1, <2>2, <2>3, <2>4 DEF Application
<1>2. CASE UNCHANGED vars
  BY <1>2, InvocationsRest DEF vars, busVars
<1>3. QED
  BY <1>1, <1>2, SlaveMoves, DaemonMoves, LeaveMoves DEF Next

(* At first nothing is under way.                                            *)
LEMMA InitInvocations == Init => InvocationInv /\ \A c : ~IsSent(c) /\ ~IsReplied(c)
<1> SUFFICES ASSUME Init PROVE InvocationInv /\ \A c : ~IsSent(c) /\ ~IsReplied(c)
  OBVIOUS
<1>1. \A b \in Bus : /\ Elements(to_busd[b]) = {} /\ Elements(to_bus[b]) = {}
                     /\ DOMAIN to_busd[b] = {} /\ DOMAIN to_bus[b] = {}
  BY EmptyElements DEF Init
<1>2. \A c : \A x \in Side : \A b \in Bus : \A i \in Nat : ~Sent(x, b, i, c)
  BY <1>1 DEF Sent
<1>3. \A c : ~IsSent(c) /\ ~IsReplied(c)
  BY <1>1, <1>2 DEF IsSent, IsReplied
<1>4. SentOnce /\ Numbered
  BY <1>2 DEF SentOnce, Numbered, Init
<1>5. QED
  BY <1>3, <1>4 DEF InvocationInv, Init

(* How far an invocation is, in these words.                                 *)
StatusIs(c) ==
    StatusOf(c) = IF \E a \in answered : a.id = c THEN "answered"
                  ELSE IF HasRun(c) /\ IsReplied(c) THEN "run"
                  ELSE IF IsSent(c) THEN "sent"
                  ELSE IF c \notin invoked THEN "none"
                  ELSE "lost"

LEMMA StatusFound == RouteInv => \A c : StatusIs(c)
<1> SUFFICES ASSUME RouteInv, NEW c PROVE StatusIs(c)
  OBVIOUS
<1>1. IsReplied(c) <=>
          \/ \E b \in Bus : \E m \in InStream(to_busd[b], "REPLY_FORWARD_INVOKE") : m.id = c
          \/ \E b \in Bus : \E m \in InStream(to_bus[b], "REPLY_INVOKE") : m.id = c
  BY DEF IsReplied, InStream, Elements
<1>2. \A b \in Bus : \A i \in DOMAIN to_busd[b] : i \in Nat
  BY LenProperties DEF RouteInv, StreamsAreSequences, IsSeq
<1>3. \A b \in Bus : \A i \in DOMAIN to_bus[b] : i \in Nat
  BY LenProperties DEF RouteInv, StreamsAreSequences, IsSeq
<1>4. IsSent(c) <=>
          \/ \E b \in Bus : \E m \in InStream(to_busd[b], "INVOKE") : m.id = c
          \/ \E b \in Bus : \E m \in InStream(to_bus[b], "FORWARD_INVOKE") : m.id = c
  BY <1>2, <1>3 DEF IsSent, Sent, Side, InStream
<1>5. QED
  BY <1>1, <1>4 DEF StatusIs, StatusOf, HasRun

(* An invocation over the bus is sent once, run at most once and after that,   *)
(* and answered only after it was run: the refinement of Rpc, though each read *)
(* of the daemon or a bus may lose what follows the message it handles.        *)
THEOREM RpcImplemented == SafeSpec => RpcSpec
<1> DEFINE status == [c \in Id |-> StatusOf(c)]
<1>1. Init => RouteInv /\ InvocationInv /\ Calls!Init
  <2> SUFFICES ASSUME Init PROVE RouteInv /\ InvocationInv /\ Calls!Init
    OBVIOUS
  <2>1. RouteInv /\ InvocationInv /\ \A c : ~IsSent(c) /\ ~IsReplied(c)
    BY InitRoute, InitInvocations
  <2>2. invoked = {} /\ answered = {}
    BY DEF Init
  <2>3. ASSUME NEW c PROVE StatusOf(c) = "none"
    BY <2>1, <2>2, StatusFound DEF StatusIs
  <2>4. QED
    BY <2>1, <2>3 DEF Calls!Init
<1>2. (RouteInv => \A c : StatusIs(c))'
  BY StatusFound, PTL
<1>3. RouteInv /\ InvocationInv /\ [Next]_vars => (RouteInv /\ InvocationInv)' /\ [Calls!Next]_status
  <2> SUFFICES ASSUME RouteInv, InvocationInv, [Next]_vars
               PROVE  (RouteInv /\ InvocationInv)' /\ Calls!Next
    OBVIOUS
  <2>1. RouteInv' /\ InvocationInv' /\ Moves
    BY StepRoute, StepInvocations
  <2>2. ASSUME NEW c PROVE StatusOf(c)' \in Calls!Onward[StatusOf(c)] /\ StatusOf(c)' \in Calls!Status
    <3>1. StatusIs(c)
      BY StatusFound
    <3>2. StatusIs(c)'
      BY <1>2, <2>1
    <3>3. /\ IsSent(c) => c \in invoked /\ ~HasRun(c)
          /\ IsSent(c)' => c \in invoked' /\ ~HasRun(c)'
          /\ HasRun(c) => c \in invoked
          /\ IsReplied(c) => HasRun(c)
          /\ \A a \in answered : a.id = c => HasRun(c)
      BY <2>1, RepliedHasRun DEF InvocationInv, HasRun
    <3>4. /\ c \in invoked => c \in invoked'
          /\ HasRun(c) => HasRun(c)'
          /\ (\E a \in answered : a.id = c) => \E a \in answered' : a.id = c
          /\ IsSent(c)' => IsSent(c) \/ c \notin invoked
          /\ IsReplied(c)' => IsReplied(c) \/ IsSent(c)
          /\ HasRun(c)' => HasRun(c) \/ IsSent(c)
          /\ (\E a \in answered' : a.id = c) => (\E a \in answered : a.id = c) \/ IsReplied(c)
          /\ c \in invoked' => c \in invoked \/ IsSent(c)'
      BY <2>1 DEF Moves, HasRun
    <3>5. QED
      BY <3>1, <3>2, <3>3, <3>4 DEF StatusIs, Calls!Onward, Calls!Status
  <2>3. QED
    BY <2>1, <2>2 DEF Calls!Next
<1>4. QED
  BY <1>1, <1>3, PTL DEF SafeSpec, RpcSpec, Calls!Spec

-----------------------------------------------------------------------------
(***************************************************************************)
(* Types.  What the buses keep ...                                         *)
(***************************************************************************)
BusTypes ==
    /\ table \in [Bus -> Table \cup {None}]
    /\ DOMAIN asked = Bus /\ \A b \in Bus : asked[b] \in 0..MaxRequests[b]
    /\ DOMAIN call = Bus
    /\ \A b \in Bus : call[b] = None \/ (call[b] \in Asks[b] /\ Busy(call[b]))
    /\ req_hmap \in [Bus -> Waiting \cup {None}]
    /\ \A b \in Bus : req_hmap[b] # None <=> InSync(b)
    /\ \A b \in Bus : InSync(b) /\ ~req_hmap[b].buffer => asked[b] < MaxRequests[b]
    /\ invoked \subseteq Id

(* ... and what the daemon and the streams do.                               *)
DaemonTypes ==
    /\ connected \subseteq Bus
    /\ objects \in Seq([name : Name, fd : 0..(FdWidth - 1)])
    /\ fault \in {"none", "SIGPIPE", "no attribute", "no object", "no method", "stray write"}
    /\ answered \subseteq [id : Id, at : Bus]

(* The requests of the application are requests, and their tables are tables.  *)
LEMMA RequestTypes ==
    ASSUME NEW b \in Bus, NEW r \in Asks[b]
    PROVE  r \in Request /\ r # None /\ TableOf(r) \in Table
<1>1. r \in Request
  BY BusAssumption DEF BusAssumption
<1>2. TableOf(r) \in Table
  BY <1>1 DEF TableOf, Table, Request, Op
<1>3. QED
  BY <1>1, <1>2, BusAssumption DEF BusAssumption

(* What is sent is counted within its bound.                                 *)
LEMMA SendTypes ==
    ASSUME BusTypes, NEW b \in Bus, NEW r \in Asks[b], SendRequest(b, r),
           asked[b] < MaxRequests[b]
    PROVE  /\ table' \in [Bus -> Table \cup {None}]
           /\ DOMAIN asked' = Bus /\ \A c \in Bus : asked'[c] \in 0..MaxRequests[c]
           /\ \A c \in Bus : c # b => asked'[c] = asked[c]
           /\ invoked' \subseteq Id
<1>1. table' \in [Bus -> Table \cup {None}]
  BY RequestTypes DEF SendRequest, BusTypes
<1>2. MaxRequests[b] \in Nat /\ asked[b] \in 0..MaxRequests[b]
  BY BusAssumption DEF BusAssumption, BusTypes
<1>3. asked[b] + 1 \in 1..MaxRequests[b] /\ asked[b] + 1 \in 0..MaxRequests[b]
  BY <1>2
<1>4. <<b, asked[b] + 1>> \in Id
  BY <1>3 DEF Id
<1>5. asked' = [asked EXCEPT ![b] = @ + 1] /\ invoked' \subseteq invoked \cup {<<b, asked[b] + 1>>}
  BY DEF SendRequest
<1>6. /\ DOMAIN asked' = Bus /\ asked'[b] = asked[b] + 1
      /\ \A c \in Bus : c # b => asked'[c] = asked[c]
  BY <1>5 DEF BusTypes
<1>7. \A c \in Bus : asked'[c] \in 0..MaxRequests[c]
  BY <1>3, <1>6 DEF BusTypes
<1>8. QED
  BY <1>1, <1>4, <1>5, <1>6, <1>7 DEF BusTypes

(* The steps of the application.                                             *)
LEMMA ApplicationTypes ==
    ASSUME BusTypes, NEW b \in Bus, Application(b)
    PROVE  BusTypes'
<1>1. ASSUME NEW r \in Asks[b], LookupOrInvoke(b, r) PROVE BusTypes'
  <2>1. /\ SendRequest(b, r) /\ asked[b] < MaxRequests[b] /\ call[b] = None
        /\ UNCHANGED <<call, req_hmap>>
    BY <1>1 DEF LookupOrInvoke, MayAsk
  <2>2. \A c \in Bus : InSync(c)' /\ ~req_hmap'[c].buffer => asked'[c] < MaxRequests[c]
    BY <2>1, SendTypes DEF BusTypes, InSync
  <2>3. QED
    BY <2>1, <2>2, SendTypes DEF BusTypes, InSync
<1>2. ASSUME NEW r \in Asks[b], AddObject(b, r) PROVE BusTypes'
  <2>1. /\ SendRequest(b, r) /\ asked[b] < MaxRequests[b] /\ call[b] = None /\ r.op = "add"
        /\ call' = [call EXCEPT ![b] = r] /\ UNCHANGED req_hmap
    BY <1>2 DEF AddObject, MayAsk
  <2>2. /\ DOMAIN call' = Bus /\ call'[b] = r /\ Busy(r)
        /\ \A c \in Bus : c # b => call'[c] = call[c]
    BY <2>1 DEF BusTypes, Busy
  <2>3. ~InSync(b) /\ ~InSync(b)' /\ \A c \in Bus : c # b => (InSync(c)' <=> InSync(c))
    BY <2>1, <2>2 DEF InSync
  <2>4. \A c \in Bus : InSync(c)' /\ ~req_hmap'[c].buffer => asked'[c] < MaxRequests[c]
    BY <2>1, <2>3, SendTypes DEF BusTypes
  <2>5. QED
    BY <2>1, <2>2, <2>3, <2>4, SendTypes DEF BusTypes
<1>3. CASE EnterObject(b)
  <2>1. /\ call[b] # None /\ call[b].op = "add" /\ call' = [call EXCEPT ![b] = None]
        /\ UNCHANGED <<table, asked, req_hmap, invoked>>
    BY <1>3 DEF EnterObject
  <2>2. /\ DOMAIN call' = Bus /\ call'[b] = None
        /\ \A c \in Bus : c # b => call'[c] = call[c]
    BY <2>1 DEF BusTypes
  <2>3. ~InSync(b) /\ ~InSync(b)' /\ \A c \in Bus : c # b => (InSync(c)' <=> InSync(c))
    BY <2>1, <2>2 DEF InSync
  <2>4. QED
    BY <2>1, <2>2, <2>3 DEF BusTypes
<1>4. ASSUME NEW r \in Asks[b], InsertRequest(b, r) PROVE BusTypes'
  <2>1. PICK q : q = [no     |-> asked[b] + 1,
                      method |-> r.method,
                      state  |-> AsShort(Unanswered),
                      buffer |-> FALSE,
                      answer |-> None]
    OBVIOUS
  <2>2. /\ req_hmap' = [req_hmap EXCEPT ![b] = q]
        /\ call[b] = None /\ asked[b] < MaxRequests[b] /\ r.op = "sync"
        /\ call' = [call EXCEPT ![b] = r]
        /\ UNCHANGED <<table, asked, invoked>>
    BY <1>4, <2>1 DEF InsertRequest, MayAsk
  <2>3. q \in Waiting
    <3>1. r.method \in Method \cup {None}
      BY RequestTypes DEF Request
    <3>2. asked[b] + 1 \in Nat /\ AsShort(Unanswered) \in Int
      BY BusAssumption DEF BusAssumption, BusTypes, AsShort, Unanswered
    <3>3. QED
      BY <2>1, <3>1, <3>2 DEF Waiting
  <2>4. q # None /\ r # None
    BY <2>3, BusAssumption, RequestTypes DEF BusAssumption
  <2>5. /\ DOMAIN call' = Bus /\ call'[b] = r /\ Busy(r)
        /\ \A c \in Bus : c # b => call'[c] = call[c]
    BY <2>2 DEF BusTypes, Busy
  <2>6. /\ req_hmap' \in [Bus -> Waiting \cup {None}] /\ req_hmap'[b] = q
        /\ \A c \in Bus : c # b => req_hmap'[c] = req_hmap[c]
    BY <2>2, <2>3 DEF BusTypes
  <2>7. InSync(b)' /\ \A c \in Bus : c # b => (InSync(c)' <=> InSync(c))
    BY <2>2, <2>4, <2>5 DEF InSync
  <2>8. QED
    BY <2>2, <2>4, <2>5, <2>6, <2>7 DEF BusTypes
<1>5. CASE InvokeForRequest(b)
  <2>1. /\ InSync(b) /\ ~req_hmap[b].buffer /\ SendRequest(b, call[b])
        /\ req_hmap' = [req_hmap EXCEPT ![b].buffer = TRUE] /\ UNCHANGED call
    BY <1>5 DEF InvokeForRequest, InSync
  <2>2. call[b] \in Asks[b] /\ asked[b] < MaxRequests[b] /\ req_hmap[b] \in Waiting
    BY <2>1 DEF BusTypes, InSync
  <2>3. PICK q : q = [req_hmap[b] EXCEPT !.buffer = TRUE]
    OBVIOUS
  <2>4. q \in Waiting /\ q.buffer = TRUE
    BY <2>2, <2>3 DEF Waiting
  <2>5. /\ req_hmap' \in [Bus -> Waiting \cup {None}] /\ req_hmap'[b] = q
        /\ \A c \in Bus : c # b => req_hmap'[c] = req_hmap[c]
    BY <2>1, <2>3, <2>4 DEF BusTypes
  <2>6. q # None
    BY <2>4, BusAssumption DEF BusAssumption
  <2>7. \A c \in Bus : InSync(c)' <=> InSync(c)
    BY <2>1 DEF InSync
  <2>8. /\ table' \in [Bus -> Table \cup {None}]
        /\ DOMAIN asked' = Bus /\ \A c \in Bus : asked'[c] \in 0..MaxRequests[c]
        /\ \A c \in Bus : c # b => asked'[c] = asked[c]
        /\ invoked' \subseteq Id
    BY <2>1, <2>2, SendTypes
  <2>9. QED
    BY <2>1, <2>4, <2>5, <2>6, <2>7, <2>8 DEF BusTypes
<1>6. CASE ReturnFromSync(b)
  <2>1. /\ InSync(b) /\ call' = [call EXCEPT ![b] = None]
        /\ req_hmap' = [req_hmap EXCEPT ![b] = None]
        /\ UNCHANGED <<table, asked, invoked>>
    BY <1>6 DEF ReturnFromSync, DeleteRequest, InSync
  <2>2. /\ DOMAIN call' = Bus /\ call'[b] = None /\ req_hmap'[b] = None
        /\ req_hmap' \in [Bus -> Waiting \cup {None}]
        /\ \A c \in Bus : c # b => call'[c] = call[c] /\ req_hmap'[c] = req_hmap[c]
    BY <2>1 DEF BusTypes
  <2>3. ~InSync(b)' /\ \A c \in Bus : c # b => (InSync(c)' <=> InSync(c))
    BY <2>2 DEF InSync
  <2>4. QED
    BY <2>1, <2>2, <2>3 DEF BusTypes
<1>7. QED
  BY <1>1, <1>2, <1>3, <1>4, <1>5, <1>6 DEF Application

(* A reply that is stored is a state and an answer.                          *)
LEMMA StoreTypes ==
    ASSUME BusTypes, InvocationInv, SyncInv, NEW b \in Bus, StoreReply(b)
    PROVE  BusTypes'
<1> PICK f : f = found[b]
  OBVIOUS
<1>1. f # None /\ UNCHANGED <<table, asked, call, invoked>>
  BY DEF StoreReply
<1>2. \A c \in Bus : InSync(c)' <=> InSync(c)
  BY <1>1 DEF InSync
<1>3. CASE UNCHANGED req_hmap
  BY <1>1, <1>2, <1>3 DEF BusTypes
<1>4. CASE /\ req_hmap[b] # None
           /\ req_hmap' = [req_hmap EXCEPT ![b].state  = AsShort(f.reply.state),
                                           ![b].answer = f.reply.id]
  <2>1. PICK r \in ran : r.id = f.reply.id /\ f.reply.state = Result[r.method]
    BY <1>1 DEF SyncInv, FoundSound, MethodReply
  <2>2. r.method \in Method /\ r.id \in Id
    BY DEF SyncInv, InvocationInv, BusTypes
  <2>3. AsShort(f.reply.state) \in Int
    BY <2>1, <2>2, StateFits, BusAssumption DEF BusAssumption
  <2>4. PICK old : old = req_hmap[b] /\ old \in Waiting
    BY <1>4 DEF BusTypes
  <2>5. PICK q : q = [old EXCEPT !.state = AsShort(f.reply.state), !.answer = f.reply.id]
    OBVIOUS
  <2>6. q \in Waiting /\ q.buffer = old.buffer
    BY <2>1, <2>2, <2>3, <2>4, <2>5 DEF Waiting
  <2>7. q # None
    BY <2>6, BusAssumption DEF BusAssumption
  <2>8. /\ req_hmap' \in [Bus -> Waiting \cup {None}] /\ req_hmap'[b] = q
        /\ \A c \in Bus : c # b => req_hmap'[c] = req_hmap[c]
    BY <1>4, <2>4, <2>5, <2>6 DEF BusTypes
  <2>9. QED
    BY <1>1, <1>2, <1>4, <2>4, <2>6, <2>7, <2>8 DEF BusTypes
<1>5. QED
  BY <1>3, <1>4 DEF StoreReply

LEMMA StepBusTypes ==
    ASSUME BusTypes, InvocationInv, SyncInv, [Next]_vars
    PROVE  BusTypes'
<1>1. ASSUME UNCHANGED <<table, asked, call, req_hmap, invoked>> PROVE BusTypes'
  BY SMTT(60), <1>1 DEF BusTypes, InSync
<1>2. ASSUME NEW b \in Bus, Slave(b) PROVE BusTypes'
  BY ZenonT(60), <1>1, <1>2, StoreTypes DEF Slave, LogReply, HandleForward, HandleReply, busVars
<1>3. ASSUME NEW b \in Bus, Busd(b) PROVE BusTypes'
  BY <1>1, <1>3 DEF Busd, BusdAddObject, BusdLookup, BusdInvoke, BusdForwardReply, BusdRead,
                    busVars
<1>4. ASSUME NEW b \in Bus, Leave(b) PROVE BusTypes'
  BY <1>1, <1>4 DEF Leave
<1>5. CASE UNCHANGED vars
  BY <1>1, <1>5 DEF vars, busVars
<1>6. QED
  BY <1>2, <1>3, <1>4, <1>5, ApplicationTypes DEF Next

LEMMA StepDaemonTypes ==
    ASSUME RouteInv, InvocationInv, BusTypes, DaemonTypes, [Next]_vars
    PROVE  DaemonTypes'
<1>1. ASSUME UNCHANGED <<objects, answered>>, connected' \subseteq connected,
             fault' \in {fault, "none", "SIGPIPE", "no attribute", "no object", "no method",
                        "stray write"}
      PROVE  DaemonTypes'
  BY <1>1 DEF DaemonTypes
<1>2. ASSUME NEW b \in Bus, Application(b) PROVE DaemonTypes'
  BY ZenonT(60), <1>1, <1>2 DEF Application, LookupOrInvoke, AddObject, InsertRequest, EnterObject,
                    InvokeForRequest, ReturnFromSync
<1>3. ASSUME NEW b \in Bus, Slave(b) PROVE DaemonTypes'
  <2>1. CASE HandleReply(b)
    <3>1. PICK h : h = Head(to_bus[b])
      OBVIOUS
    <3>2. /\ BusRead(b, {"REPLY_INVOKE"}) /\ UNCHANGED <<objects, fault, connected>>
          /\ answered' = answered \cup {[id |-> h.id, at |-> b]}
      BY <2>1, <3>1 DEF HandleReply
    <3>3. ForBus(b, h) /\ h.type = "REPLY_INVOKE"
      BY <3>1, <3>2, BusReads
    <3>4. h.id \in Id
      BY <3>3 DEF ForBus, MethodReply, InvocationInv, BusTypes
    <3>5. PICK a : a = [id |-> h.id, at |-> b]
      OBVIOUS
    <3>6. a \in [id : Id, at : Bus]
      BY <3>4, <3>5
    <3>7. answered' \subseteq [id : Id, at : Bus]
      BY <3>2, <3>5, <3>6 DEF DaemonTypes
    <3>8. QED
      BY <3>2, <3>7 DEF DaemonTypes
  <2>2. QED
    BY ZenonT(60), <1>1, <1>3, <2>1 DEF Slave, LogReply, HandleForward, StoreReply, Crash, busVars
<1>4. ASSUME NEW b \in Bus, BusdAddObject(b) PROVE DaemonTypes'
  <2>1. PICK h : h = Head(to_busd[b])
    OBVIOUS
  <2>2. BusdRead(b, "ADD_OBJECT") /\ UNCHANGED <<connected, answered>>
    BY <1>4 DEF BusdAddObject, BusdRead, busVars
  <2>3. CASE NoAttribute
    BY <1>1, <2>2, <2>3 DEF NoAttribute, Crash
  <2>4. CASE h.table.of = "object" /\ ~NoAttribute
    <3>1. objects' = <<ObjectOf(b, h)>> \o objects
      BY <1>4, <2>1, <2>4 DEF BusdAddObject
    <3>2. fault' \in {fault, "none", "SIGPIPE"}
      BY <1>4, <2>1, <2>4 DEF BusdAddObject, Write
    <3>3. h.table \in Table
      BY <2>1, <2>2, BusdReads DEF FromBus, BusTypes
    <3>4. PICK o : o = ObjectOf(b, h)
      OBVIOUS
    <3>5. o \in [name : Name, fd : 0..(FdWidth - 1)]
      <4>1. FdOf[b] \in 0..(FdWidth - 1)
        <5>1. FdOf[b] \in Nat /\ FdOf[b] < 256
          BY BusAssumption DEF BusAssumption, FdWidth
        <5>2. QED
          BY <5>1 DEF FdWidth
      <4>2. FdOf[b] % FdWidth \in 0..(FdWidth - 1)
        BY <4>1, ByteRoundTrip
      <4>3. QED
        BY <3>3, <3>4, <4>2 DEF ObjectOf, Table
    <3>6. <<o>> \o objects \in Seq([name : Name, fd : 0..(FdWidth - 1)])
      <4>1. PICK S : S = [name : Name, fd : 0..(FdWidth - 1)]
        OBVIOUS
      <4>2. o \in S /\ objects \in Seq(S)
        BY <3>5, <4>1 DEF DaemonTypes
      <4>3. <<o>> \o objects \in Seq(S)
        BY <4>2
      <4>4. QED
        BY <4>1, <4>3
    <3>7. QED
      BY <2>2, <3>1, <3>2, <3>4, <3>6 DEF DaemonTypes
  <2>5. QED
    BY <1>4, <2>1, <2>3, <2>4 DEF BusdAddObject
<1>5. ASSUME NEW b \in Bus, BusdLookup(b) \/ BusdInvoke(b) \/ BusdForwardReply(b)
      PROVE  DaemonTypes'
  <2>1. UNCHANGED <<objects, connected, answered>>
    BY <1>5 DEF BusdLookup, BusdInvoke, BusdForwardReply, BusdRead, NoAttribute, busVars
  <2>2. fault' \in {fault, "none", "SIGPIPE", "no attribute", "no object"}
    BY <1>5 DEF BusdLookup, BusdInvoke, BusdForwardReply, NoAttribute, NoObject, Crash, Write
  <2>3. QED
    BY <1>1, <2>1, <2>2
<1>6. ASSUME NEW b \in Bus, Leave(b) PROVE DaemonTypes'
  BY <1>1, <1>6 DEF Leave
<1>7. CASE UNCHANGED vars
  BY <1>1, <1>7 DEF vars, busVars
<1>8. QED
  BY <1>2, <1>3, <1>4, <1>5, <1>6, <1>7 DEF Next, Busd

(* Every variable has its type: no bus makes more requests than its bound,     *)
(* though bus_invoke_sync counts its own only when it invokes, a request is in *)
(* the map just while its bus_invoke_sync runs, and descriptors fit in a byte. *)
THEOREM BusTypesCorrect == SafeSpec => []TypeOK
<1>1. Init => BusTypes /\ DaemonTypes
  <2> SUFFICES ASSUME Init PROVE BusTypes /\ DaemonTypes
    OBVIOUS
  <2>1. \A b \in Bus : 0 \in 0..MaxRequests[b]
    BY BusAssumption DEF BusAssumption
  <2>2. QED
    BY <2>1 DEF Init, BusTypes, DaemonTypes, InSync
<1>2. BusTypes /\ DaemonTypes /\ ObjectsNamed => TypeOK
  <2> SUFFICES ASSUME BusTypes, DaemonTypes, ObjectsNamed PROVE TypeOK
    OBVIOUS
  <2>1. \A b \in Bus : req_hmap[b] # None <=> call[b] # None /\ call[b].op = "sync"
    BY DEF BusTypes, InSync
  <2>2. \A b \in Bus : asked[b] \in 0..MaxRequests[b]
    BY DEF BusTypes
  <2>3. QED
    BY <2>1, <2>2 DEF BusTypes, DaemonTypes, ObjectsNamed, TypeOK
<1>3. QED
  BY <1>1, <1>2, InitRoute, StepRoute, InitObjects, StepObjects, InitSync, StepSync,
     InitInvocations, StepInvocations, StepBusTypes, StepDaemonTypes, PTL DEF SafeSpec
=============================================================================
