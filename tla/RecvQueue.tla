----------------------------- MODULE RecvQueue -----------------------------
(***************************************************************************)
(* How IOCPServer receives: recvPost offers the free room of recvQ to the  *)
(* kernel, completeRecv moves Rear by what came, takes the complete        *)
(* packets off and posts the next receive (IOCPServer.cpp:320-467).        *)
(* IOCPClient and the virtual client receive in the same way.              *)
(*                                                                         *)
(* A packet is a header of HeaderSize bytes, one of which is the length of *)
(* the data, and the data.  TCP cuts the stream anywhere.  A part of a     *)
(* header is taken for a packet (l.447): from then on the connection may   *)
(* be read off the boundaries of its packets, and what OnRecv gets is      *)
(* anybody's guess.                                                        *)
(***************************************************************************)
EXTENDS WinBuffer

Seqs == INSTANCE SequencesExt

CONSTANTS
  HeaderSize,  \* sizeof(netHeader)
  LengthAt,    \* which byte of the header is netHeader::len
  SbufSize,    \* how much data a packet buffer takes
  Window       \* how many bytes a client sends before it waits

ASSUME HeaderAssumption ==
  /\ HeaderSize \in Nat /\ LengthAt \in 1 .. HeaderSize
  /\ SbufSize \in Nat /\ Window \in Nat

(* Lengths are not negative: netHeader::len is a WORD. *)
ASSUME BytesAssumption == Bytes \subseteq Nat

(* What the clients send: Encode puts the length of the data in the header. *)
ASSUME PacketsAssumption ==
  \A p \in Inputs : /\ Len(p) >= HeaderSize
                    /\ p[LengthAt] = Len(p) - HeaderSize /\ p[LengthAt] <= SbufSize

VARIABLES
  phase,       \* what the connection is doing
  room,        \* the lengths of the two buffers given to WSARecv
  net,         \* external: bytes sent and not yet received
  outstanding, \* external: packets sent and not yet given to OnRecv
  astray       \* history: a part of a header was taken for a packet;
               \* outstanding is not followed after that

recvVars == <<vars, phase, room, net, outstanding, astray>>

RecvInit ==
  /\ Init
  /\ phase = "post"
  /\ room = <<0, 0>>
  /\ net = <<>>
  /\ outstanding = <<>>
  /\ astray = FALSE

(* The client sends a packet. *)
Send(p) ==
  /\ Len(net) + getUsedSize + Len(p) <= Window
  /\ net' = net \o p
  /\ outstanding' = IF astray THEN outstanding ELSE Append(outstanding, p)
  /\ UNCHANGED <<vars, phase, room, astray>>

(* recvPost, l.327-343: up to the end of the buffer, and from its start. *)
RecvPost ==
  /\ phase = "post"
  /\ phase' = "pending"
  /\ room' = <<getNotBrokenFreeSize,
               IF getFreeSize > getNotBrokenFreeSize
               THEN getFreeSize - getNotBrokenFreeSize ELSE 0>>
  /\ UNCHANGED <<vars, net, outstanding, astray>>

(* The kernel fills the buffers, in part or in full; l.442.  The second    *)
(* buffer starts where the first one ends, or is empty.  A receive that    *)
(* fills the byte that must stay free leaves Rear = Front: the ring looks  *)
(* empty, all that was in it is lost, and the model ends there.            *)
Arrive(n) ==
  LET s == SubSeq(net, 1, n)
  IN  /\ phase = "pending"
      /\ n <= room[1] + room[2]
      /\ net' = SubSeq(net, n + 1, Len(net))
      /\ buffer' = Written(Rear, s)
      /\ Rear' = IF Rear + n >= bufSize THEN Ahead(Rear, n) ELSE Rear + n
      /\ phase' = IF n > getFreeSize THEN "overrun" ELSE "parse"
      /\ UNCHANGED <<Front, dest, ret, room, outstanding, astray>>

(* No room: the receive ends with 0 bytes, which looks like a client that  *)
(* has closed, and the session is shut down (l.436-440).                   *)
NoRoom ==
  /\ phase = "pending"
  /\ net # <<>>
  /\ room[1] + room[2] = 0
  /\ phase' = "closed"
  /\ UNCHANGED <<vars, room, net, outstanding, astray>>

(* l.445-446: the length in the header, or, if it was not received yet,    *)
(* what the uninitialised local variable holds.                            *)
HeadLens ==
  IF getUsedSize < LengthAt THEN 0 .. SbufSize + 1 ELSE {Read(Front, LengthAt)[LengthAt]}

(* A mutant: the header is not counted. *)
CompleteEarly(len) ==
  /\ getUsedSize # 0
  /\ getUsedSize < HeaderSize \/ getUsedSize >= len

(* l.443-448.  usedSize - sizeof(netHeader) is unsigned: it is huge, not   *)
(* negative, when less than a header is there.                             *)
Complete(len) ==
  /\ getUsedSize # 0
  /\ getUsedSize < HeaderSize \/ getUsedSize - HeaderSize >= len

(* Decode (Sbuf.cpp:378-401) accepts a packet.  Of anything else it looks  *)
(* at one byte and a sum over the buffer, where older bytes follow those    *)
(* that came: it may accept that too.                                       *)
Decodes(s) == IF s \in Inputs /\ ~astray THEN {TRUE} ELSE BOOLEAN

(* l.453-465: the packet goes to OnRecv.  With a length that no buffer     *)
(* takes moveRearPos throws (Sbuf.cpp:104), the bytes are gone and the loop *)
(* goes on.                                                                 *)
Take ==
  \E len \in HeadLens :
    /\ phase = "parse"
    /\ Complete(len)
    /\ dequeue(HeaderSize + len)
    /\ astray' = (astray \/ getUsedSize < HeaderSize)
    /\ \/ len > SbufSize /\ UNCHANGED <<phase, outstanding>>
       \/ /\ len <= SbufSize
          /\ \E decoded \in Decodes(dest') :
               /\ phase' = IF decoded THEN phase ELSE "crashed"
               /\ outstanding' =
                    IF decoded /\ ~astray' THEN Tail(outstanding) ELSE outstanding
    /\ UNCHANGED <<room, net>>

(* Nothing more to take. *)
Waits == phase = "parse" /\ \A len \in HeadLens : ~Complete(len)

(* A mutant: completeRecv returns without recvPost, as LanServer's does    *)
(* after an exception (LanServer.cpp:470).                                 *)
NoMoreReturns ==
  /\ Waits
  /\ phase' = "returned"
  /\ UNCHANGED <<vars, room, net, outstanding, astray>>

(* l.448, 467 *)
NoMore ==
  /\ Waits
  /\ phase' = "post"
  /\ UNCHANGED <<vars, room, net, outstanding, astray>>

RecvNext ==
  \/ \E p \in Inputs : Send(p)
  \/ RecvPost \/ NoRoom \/ Take \/ NoMore
  \/ \E n \in 1 .. Len(net) : Arrive(n)

(* The worker runs, and the network delivers. *)
RecvSpec ==
  /\ RecvInit
  /\ [][RecvNext]_recvVars
  /\ WF_recvVars(RecvPost \/ NoRoom \/ Take \/ NoMore \/ \E n \in 1 .. Len(net) : Arrive(n))
-----------------------------------------------------------------------------
(* What is in the ring and what is on the way are the packets not yet      *)
(* taken, whole: no receive overwrites what is not read yet, OnRecv gets    *)
(* every packet once, in order, and none fails to decode (l.458); until a   *)
(* receive fills the ring, or a part of a header is taken for a packet.     *)
StreamIntact ==
  phase # "overrun" /\ ~astray =>
    /\ phase # "crashed"
    /\ Contents \o net = Seqs!FlattenSeq(outstanding)

(* A connection does not hang: packets go on to be given to OnRecv, or all *)
(* that were sent have been, or it was cut, or a receive filled the ring,   *)
(* or a part of a header was taken for a packet.                            *)
ReceivesGoOn ==
  []<>(outstanding = <<>> \/ astray \/ phase \in {"closed", "overrun"})
  \/ []<><<Take>>_recvVars
=============================================================================
