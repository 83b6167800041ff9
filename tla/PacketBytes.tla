---------------------------- MODULE PacketBytes ----------------------------
(***************************************************************************)
(* What an Sbuf does with its bytes (Sbuf.h/.cpp): a value goes in at      *)
(* rearPos and out at frontPos, the header is put in front of dataPos, and *)
(* Encode scrambles the data in place.  One packet is followed from the    *)
(* thread that fills it over the wire to the thread that reads it; the     *)
(* packet the receiver allocates takes the place of the sender's.          *)
(*                                                                         *)
(* The class checks little: misused is set where it goes wrong without     *)
(* saying so, and the model ends there.  A call that throws 4960 changes   *)
(* nothing and is left out.  Sbuf models who has the packet, and           *)
(* encodeFlag.                                                             *)
(***************************************************************************)
EXTENDS Integers, SequencesExt, Bitwise

CONSTANTS
  defaultBuffer,  \* bytes in the buffer, less than Base * Base
  Base,           \* the number of values of a byte, a power of 2
  Code, Key,      \* the packet code, and Key1 ^ Key2
  Rands,          \* what rand() % 256 yields
  Inputs          \* the values that callers put in, as bytes

defaultHeader == 5
lanHeader == 2
ByteValues == 0 .. Base - 1
Positions == 0 .. defaultBuffer - 1

VARIABLES
  buf,      \* the packet: its bytes, positions and sizes
  stage,    \* "open", "encoded" or "lan" when handed to SendPacket, "refused"
  got,      \* what the last pop copied out
  last,     \* the last call and its number of bytes
  misused   \* history: a call the class should have refused

vars == <<buf, stage, got, last, misused>>

Called(call, n) == last' = [call |-> call, n |-> n]

(* clear and lanClear.  The old bytes stay, but nothing reads them again:   *)
(* here they are 0.                                                         *)
Cleared(h) ==
  [bytes |-> [i \in Positions |-> 0], dataPos |-> h, frontPos |-> h, rearPos |-> h,
   dataSize |-> 0, headerSize |-> h]

Init ==
  /\ buf \in {Cleared(defaultHeader), Cleared(lanHeader)}
  /\ stage = "open"
  /\ got = <<>> /\ last = [call |-> "none", n |-> 0]
  /\ misused = FALSE

(* Outside the buffer any value will do: the model ends there. *)
Read(bytes, pos, n) ==
  [i \in 1 .. n |-> IF pos + i - 1 \in Positions THEN bytes[pos + i - 1] ELSE 0]

Written(bytes, pos, s) ==
  [i \in Positions |-> IF i - pos \in 0 .. Len(s) - 1 THEN s[i - pos + 1] ELSE bytes[i]]

(* The bytes from pos on, n of them, lie between two positions. *)
Within(pos, n, from, to) == from <= pos /\ pos + n <= to

Open == stage = "open" /\ ~misused
-----------------------------------------------------------------------------
(* Filling and reading *)

Clear(h) ==
  /\ ~misused
  /\ buf' = Cleared(h)
  /\ stage' = "open"
  /\ Called("clear", 0)
  /\ UNCHANGED <<got, misused>>

(* The test of l.103 and 114 knows the size of the data only, not where it  *)
(* starts.                                                                  *)
Room(n) == defaultBuffer - buf.dataSize >= n

Grown(b, n) == [b EXCEPT !.rearPos = @ + n, !.dataSize = @ + n]

push(s) ==
  /\ Open /\ Room(Len(s))
  /\ buf' = Grown([buf EXCEPT !.bytes = Written(@, buf.rearPos, s)], Len(s))
  /\ misused' = ~Within(buf.rearPos, Len(s), buf.dataPos, defaultBuffer)
  /\ Called("put", Len(s))
  /\ UNCHANGED <<stage, got>>

(* Bytes written at getDataPtr() of an empty packet, then moveRearPos. *)
moveRearPos(s) ==
  /\ Open /\ Room(Len(s))
  /\ buf.rearPos = buf.dataPos
  /\ buf' = Grown([buf EXCEPT !.bytes = Written(@, buf.dataPos, s)], Len(s))
  /\ misused' = ~Within(buf.dataPos, Len(s), buf.dataPos, defaultBuffer)
  /\ Called("receive", Len(s))
  /\ UNCHANGED <<stage, got>>

Shrunk(n) == [buf EXCEPT !.frontPos = @ + n, !.dataSize = @ - n]

pop(n) ==
  /\ Open /\ n <= buf.dataSize
  /\ got' = Read(buf.bytes, buf.frontPos, n)
  /\ buf' = Shrunk(n)
  /\ Called("get", n)
  /\ UNCHANGED <<stage, misused>>

moveFrontPos(n) ==
  /\ Open /\ n <= buf.dataSize
  /\ buf' = Shrunk(n)
  /\ Called("skip", n)
  /\ UNCHANGED <<stage, got, misused>>

(* operator<< and operator>> of the twelve types *)
ShiftIn == \E s \in Inputs : push(s)
ShiftOut == \E s \in Inputs : pop(Len(s))
-----------------------------------------------------------------------------
(* The header *)

(* A header of size n put at pos; it must lie in front of the data. *)
PutHeader(pos, s, n) ==
  /\ Open
  /\ buf' = [buf EXCEPT !.bytes = Written(@, pos, s), !.headerSize = n]
  /\ misused' = (~Within(pos, Len(s), 0, buf.dataPos) \/ n # buf.dataPos)
  /\ UNCHANGED <<stage, got, last>>

Zeros(n) == [i \in 1 .. n |-> 0]
Low(n) == n % Base
High(n) == (n \div Base) % Base

setHeader == PutHeader(0, Zeros(defaultHeader), defaultHeader)

setHeaderCustom(n) == n <= defaultHeader /\ PutHeader(buf.dataPos - n, Zeros(n), n)

setHeaderShort == PutHeader(0, <<Low(buf.dataSize), High(buf.dataSize)>>, defaultHeader)
-----------------------------------------------------------------------------
(* Sending and receiving *)

CheckSum(s) == FoldLeft(LAMBDA a, b : a + b, 0, s) % Base
Scrambled(s, rand) == [i \in 1 .. Len(s) |-> s[i] ^^ rand]

(* Not popped from, and the header is what is in front of the data. *)
Sendable(h) ==
  buf.dataPos = h /\ buf.frontPos = h /\ buf.headerSize = h

(* A mutant: the sum of the scrambled bytes. *)
EncodeSumLate(rand) ==
  LET s == Scrambled(Read(buf.bytes, defaultHeader, buf.dataSize), rand)
      header == <<Code, Low(buf.dataSize), High(buf.dataSize), rand ^^ Key, CheckSum(s) ^^ rand>>
  IN  /\ Open
      /\ misused' = ~Sendable(defaultHeader)
      /\ buf' = [buf EXCEPT !.bytes = Written(@, 0, header \o s)]
      /\ stage' = "encoded"
      /\ UNCHANGED <<got, last>>

Encode(rand) ==
  LET s == Read(buf.bytes, defaultHeader, buf.dataSize)
      header == <<Code, Low(buf.dataSize), High(buf.dataSize), rand ^^ Key, CheckSum(s) ^^ rand>>
  IN  /\ Open
      /\ misused' = ~Sendable(defaultHeader)
      /\ buf' = [buf EXCEPT !.bytes = Written(@, 0, header \o Scrambled(s, rand))]
      /\ stage' = "encoded"
      /\ UNCHANGED <<got, last>>

lanEncode ==
  /\ Open
  /\ misused' = ~Sendable(lanHeader)
  /\ buf' = [buf EXCEPT !.bytes = Written(@, 0, <<Low(buf.dataSize), High(buf.dataSize)>>)]
  /\ stage' = "lan"
  /\ UNCHANGED <<got, last>>

(* What sendPost gives to WSASend: getPacketSize bytes from getHeaderPtr. *)
Wire == Read(buf.bytes, buf.dataPos - buf.headerSize, buf.headerSize + buf.dataSize)

(* Decode of a packet as it is in the buffer: the plain data, and whether  *)
(* code and sum are right.                                                 *)
Decoded(bytes, size) ==
  LET rand == bytes[3] ^^ Key
      s == Scrambled(Read(bytes, defaultHeader, size), rand)
  IN  [data |-> s, ok |-> bytes[0] = Code /\ CheckSum(s) = bytes[4] ^^ rand]

(* completeRecv: Alloc, the packet as it came, moveRearPos and Decode. *)
Receive ==
  LET len == Wire[2] + Base * Wire[3]
      fresh == Cleared(defaultHeader)
      bytes == Written(fresh.bytes, 0, SubSeq(Wire, 1, defaultHeader + len))
      plain == Decoded(bytes, len)
  IN  /\ stage = "encoded" /\ ~misused
      /\ buf' = Grown([fresh EXCEPT !.bytes = Written(bytes, defaultHeader, plain.data)], len)
      /\ stage' = IF plain.ok THEN "open" ELSE "refused"
      /\ UNCHANGED <<got, last, misused>>

(* LanServer's and LanClient's: the length is taken off before. *)
LanReceive ==
  LET len == Wire[1] + Base * Wire[2]
      fresh == Cleared(lanHeader)
  IN  /\ stage = "lan" /\ ~misused
      /\ buf' = Grown([fresh EXCEPT
                  !.bytes = Written(@, lanHeader, SubSeq(Wire, lanHeader + 1, lanHeader + len))], len)
      /\ stage' = "open"
      /\ UNCHANGED <<got, last, misused>>

Next ==
  \/ \E h \in {defaultHeader, lanHeader} : Clear(h)
  \/ ShiftIn \/ ShiftOut
  \/ \E s \in Inputs : moveRearPos(s) \/ moveFrontPos(Len(s))
  \/ setHeader \/ setHeaderShort \/ \E n \in 0 .. defaultHeader : setHeaderCustom(n)
  \/ \E rand \in Rands : Encode(rand)
  \/ lanEncode \/ Receive \/ LanReceive

Spec == Init /\ [][Next]_vars
-----------------------------------------------------------------------------
(* The properties *)

(* The data not yet popped, unscrambled; of a packet that does not decode   *)
(* nothing is left.                                                         *)
Contents ==
  LET s == Read(buf.bytes, buf.frontPos, buf.dataSize)
  IN  CASE stage = "encoded" -> Scrambled(s, buf.bytes[3] ^^ Key)
        [] stage = "refused" -> <<>>
        [] OTHER -> s

Queue == INSTANCE ByteQueue WITH
  Bytes <- ByteValues, Capacity <- defaultBuffer, queue <- Contents

(* A packet is a queue of bytes, across the wire: what is popped after      *)
(* Decode is what was pushed before Encode (Sbuf.cpp:112-140, 342-401).     *)
ImplementsQueue == [][~misused' => [Queue!Next]_(Queue!vars)]_vars
=============================================================================
