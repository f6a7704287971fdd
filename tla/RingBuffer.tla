----------------------------- MODULE RingBuffer -----------------------------
(***************************************************************************)
(* The ring buffer of libdata_structure/ring_buffer: messages of different *)
(* lengths, each with a head that holds its length, in a buffer whose      *)
(* write index and read index go from zero to its length, both included.   *)
(* It has no lock and is used by one thread.                               *)
(***************************************************************************)
EXTENDS Integers, Sequences, FiniteSets

CONSTANTS Message,
          LenOf,     (* LenOf[m]: the length of a message, with its head    *)
          HeadLen,   (* the length of a head: the length field, 4 bytes     *)
          BufferLen,
          Nothing

ASSUME RingAssumption ==
    /\ BufferLen \in Nat \ {0}
    /\ HeadLen \in Nat \ {0}
    /\ LenOf \in [Message -> Nat]
    /\ \A m \in Message : LenOf[m] >= HeadLen
    /\ Nothing \notin Message \cup [of : Message, place : Nat]

VARIABLES
    buffer,      (* buffer[i]: a byte, by message and place in the message  *)
    write_index,
    read_index,
    rw_flag,     (* "INIT", "READ" or "WRITE": the last operation           *)
    wild,        (* a length was read that is not that of a message         *)
    queued,      (* history: the messages written and not read              *)
    result       (* history: what the last operation gave                   *)

ringVars == <<buffer, write_index, read_index, rw_flag, wild, queued, result>>

RingInit ==
    /\ buffer = [i \in 0..(BufferLen - 1) |-> Nothing]
    /\ write_index = 0
    /\ read_index = 0
    /\ rw_flag = "INIT"
    /\ wild = FALSE
    /\ queued = <<>>
    /\ result = [op |-> "init"]

(* Variant for mutation: the modulus is the length of the buffer.             *)
BytesByLen == (read_index - write_index + BufferLen) % BufferLen

(* rbuf_is_full.  The sum is not negative, so that its 32 bits are all of it.  *)
BytesFree == (read_index - write_index + BufferLen) % (BufferLen + 1)

IsFull(len) ==
    \/ BytesFree < len
    \/ read_index = write_index /\ rw_flag = "WRITE"

IsNull == read_index = write_index /\ rw_flag = "READ"

(* The index after the next len bytes, and where the i-th of them is.         *)
Advanced(index, len) ==
    IF index + len > BufferLen THEN index + len - BufferLen ELSE index + len

ByteAt(index, i) ==
    IF index + i >= BufferLen THEN index + i - BufferLen ELSE index + i

WriteMessage(m) ==
    /\ ~wild
    /\ ~IsFull(LenOf[m])
    /\ LET written == [i \in 0..(LenOf[m] - 1) |-> ByteAt(write_index, i)] IN
       buffer' = [j \in DOMAIN buffer |->
                    IF \E i \in DOMAIN written : written[i] = j
                    THEN [of |-> m, place |-> CHOOSE i \in DOMAIN written : written[i] = j]
                    ELSE buffer[j]]
    /\ write_index' = Advanced(write_index, LenOf[m])
    /\ rw_flag' = "WRITE"
    /\ queued' = Append(queued, m)
    /\ result' = [op |-> "write", message |-> m]
    /\ UNCHANGED <<read_index, wild>>

RefuseMessage(m) ==
    /\ ~wild
    /\ IsFull(LenOf[m])
    /\ result' = [op |-> "full", message |-> m]
    /\ UNCHANGED <<buffer, write_index, read_index, rw_flag, wild, queued>>

(* The head is read from where it begins on, past the end of the buffer too:   *)
(* it gives the length of m only if all its bytes are there.                  *)
HeadIs(m) ==
    \A i \in 0..(HeadLen - 1) :
        /\ read_index + i < BufferLen
        /\ buffer[read_index + i] = [of |-> m, place |-> i]

Whole(m) ==
    \A i \in 0..(LenOf[m] - 1) : buffer[ByteAt(read_index, i)] = [of |-> m, place |-> i]

ReadMessage ==
    /\ ~wild
    /\ ~IsNull
    /\ \E m \in Message :
          /\ HeadIs(m)
          /\ read_index' = Advanced(read_index, LenOf[m])
          /\ result' = [op |-> "read", message |-> IF Whole(m) THEN m ELSE Nothing]
    /\ rw_flag' = "READ"
    /\ queued' = Tail(queued)
    /\ UNCHANGED <<buffer, write_index, wild>>

(* Any number of bytes may be copied then, and the read index be anywhere.     *)
ReadWild ==
    /\ ~wild
    /\ ~IsNull
    /\ \A m \in Message : ~HeadIs(m)
    /\ wild' = TRUE
    /\ UNCHANGED <<buffer, write_index, read_index, rw_flag, queued, result>>

ReadNull ==
    /\ ~wild
    /\ IsNull
    /\ result' = [op |-> "read", message |-> Nothing]
    /\ UNCHANGED <<buffer, write_index, read_index, rw_flag, wild, queued>>

RingNext ==
    \/ \E m \in Message : WriteMessage(m) \/ RefuseMessage(m)
    \/ ReadMessage \/ ReadWild \/ ReadNull

RingSpec == RingInit /\ [][RingNext]_ringVars
-----------------------------------------------------------------------------
Promise == INSTANCE Fifo WITH
               Room <- BufferLen, queue <- queued, at <- read_index,
               fresh <- rw_flag = "INIT", broken <- wild, last <- result

(* The ring buffer is a queue of messages: whatever their lengths and wherever  *)
(* they wrap, no byte of a message that was not read is overwritten, full and  *)
(* empty are told apart when the indices are equal, and all but one byte of    *)
(* the buffer is used, up to a read of a head that the end of the buffer cuts  *)
(* off, or of a fresh buffer.                                                  *)
RingIsFifo == Promise!Spec
=============================================================================
