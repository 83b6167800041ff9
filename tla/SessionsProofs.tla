--------------------------- MODULE SessionsProofs ---------------------------
(***************************************************************************)
(* What the steps of Sessions do to what Sessions counts: lemmas for the   *)
(* engines.  A lemma is about any set T of threads, any set D of slots,    *)
(* any kinds K of completion packets and any tally k.                      *)
(***************************************************************************)
EXTENDS Sessions, OccurrencesProofs

(* A tally counts for each slot the frames with operations of holding, less *)
(* those of owing, and what the kernel has of the kinds of kernel; a field  *)
(* of the session is to hold the number.                                    *)
Refs == [field |-> "iocpCount", holding |-> Holding, owing |-> Owing, kernel |-> Referring]
Sends == [field |-> "sendFlag", holding |-> SendOps, owing |-> {}, kernel |-> {"send"}]

Tally(k, Q, P, R, s) ==
  InThreads(Q, k.holding, s) - InThreads(Q, k.owing, s)
  + InFlight(P, k.kernel, s) + InPort(R, k.kernel, s)

(* Lists of frames, of operations of A, and the packets of the port. *)
Todo(A, D) == [op : A, s : D]
Packets(D, K) == [s : D, op : K, trans : Nat]

IsList(q) == \E S : q \in Seq(S)
IsFrames(q, D) == \E A : q \in Seq(Todo(A, D))

(* The threads and the kernel work on slots of D. *)
Running(T, D, K, Q, P, R) ==
  /\ \E A : Q \in Queues(T, Todo(A, D))
  /\ IsFiniteSet(P) /\ \A p \in P : p.s \in D /\ p.op \in {"recv", "send"}
  /\ R \in Seq(Packets(D, K))
-----------------------------------------------------------------------------
(* Lists of operations, and of frames *)

(* What one operation counts, a list of them, and a list of frames. *)
Weight(k, op) ==
  IF op \in k.holding THEN IF op \in k.owing THEN 0 ELSE 1
  ELSE IF op \in k.owing THEN -1 ELSE 0

Net(k, ops) == Occ(ops, k.holding) - Occ(ops, k.owing)
Held(k, q, r) == Occ(q, FramesWith(k.holding, r)) - Occ(q, FramesWith(k.owing, r))

LEMMA WeightInt == \A k, op : Weight(k, op) \in Int
BY DEF Weight

LEMMA NetInt ==
  ASSUME NEW k, NEW ops, IsList(ops)
  PROVE  Net(k, ops) \in Int
<1>1. \A O : Occ(ops, O) \in Nat
  BY PositionsFinite DEF IsList
<1> QED BY <1>1 DEF Net

LEMMA NetEmpty == \A k : IsList(<<>>) /\ Net(k, <<>>) = 0
<1>1. <<>> \in Seq({})
  OBVIOUS
<1>2. \A O : Occ(<<>>, O) = 0
  BY OccEmpty
<1> QED BY <1>1, <1>2 DEF IsList, Net

LEMMA NetOne == \A k, a : IsList(<<a>>) /\ Net(k, <<a>>) = Weight(k, a)
<1> TAKE k, a
<1>1. <<a>> \in Seq({a})
  OBVIOUS
<1>2. \A O : Occ(<<a>>, O) = IF a \in O THEN 1 ELSE 0
  BY OccOne
<1>3. PICK H, W : H = k.holding /\ W = k.owing
  OBVIOUS
<1>4. PICK x, y : x = Occ(<<a>>, H) /\ y = Occ(<<a>>, W)
  OBVIOUS
<1>5. (x = IF a \in H THEN 1 ELSE 0) /\ (y = IF a \in W THEN 1 ELSE 0)
  BY <1>2, <1>4
<1>6. x - y = Weight(k, a)
  BY <1>3, <1>5 DEF Weight
<1> QED BY <1>1, <1>3, <1>4, <1>6 DEF IsList, Net

LEMMA NetConcat ==
  ASSUME NEW k, NEW p, IsList(p), NEW q, IsList(q)
  PROVE  IsList(p \o q) /\ Net(k, p \o q) = Net(k, p) + Net(k, q)
<1>1. PICK A : p \in Seq(A)
  BY DEF IsList
<1>2. PICK B : q \in Seq(B)
  BY DEF IsList
<1>3. PICK S : S = A \cup B
  OBVIOUS
<1>4. p \in Seq(S) /\ q \in Seq(S) /\ p \o q \in Seq(S)
  BY <1>1, <1>2, <1>3
<1>5. \A O : /\ Occ(p, O) \in Nat /\ Occ(q, O) \in Nat
             /\ Occ(p \o q, O) = Occ(p, O) + Occ(q, O)
  BY <1>4, OccConcat, PositionsFinite
<1>6. PICK H, W : H = k.holding /\ W = k.owing
  OBVIOUS
<1>7. /\ Occ(p, H) \in Nat /\ Occ(q, H) \in Nat /\ Occ(p \o q, H) = Occ(p, H) + Occ(q, H)
      /\ Occ(p, W) \in Nat /\ Occ(q, W) \in Nat /\ Occ(p \o q, W) = Occ(p, W) + Occ(q, W)
  BY <1>5
<1> QED BY <1>4, <1>6, <1>7 DEF IsList, Net

(* The first operation counts, and the rest. *)
LEMMA NetFirst ==
  ASSUME NEW k, NEW S, NEW q \in Seq(S), q # <<>>
  PROVE  /\ IsList(q) /\ IsList(Tail(q))
         /\ Net(k, q) = Weight(k, Head(q)) + Net(k, Tail(q))
<1>1. PICK a, f, z : a = Head(q) /\ f = <<a>> /\ z = Tail(q)
  OBVIOUS
<1>2. IsList(f) /\ Net(k, f) = Weight(k, a)
  BY <1>1, NetOne
<1>3. IsList(z)
  BY <1>1 DEF IsList
<1>4. q = f \o z
  BY <1>1
<1>5. IsList(f \o z) /\ Net(k, f \o z) = Net(k, f) + Net(k, z)
  BY <1>2, <1>3, NetConcat
<1> QED BY <1>1, <1>2, <1>3, <1>4, <1>5

LEMMA Net2 == \A k, a, b :
  IsList(<<a, b>>) /\ Net(k, <<a, b>>) = Weight(k, a) + Weight(k, b)
<1> TAKE k, a, b
<1>1. PICK q, r, S : q = <<a, b>> /\ r = <<b>> /\ S = {a, b}
  OBVIOUS
<1>2. q \in Seq(S) /\ q # <<>> /\ Head(q) = a /\ Tail(q) = r
  BY <1>1
<1>3. Net(k, r) = Weight(k, b)
  BY <1>1, NetOne
<1>4. IsList(q) /\ Net(k, q) = Weight(k, a) + Net(k, r)
  BY <1>2, NetFirst
<1> QED BY <1>1, <1>3, <1>4, WeightInt

LEMMA Net3 == \A k, a, b, c :
  IsList(<<a, b, c>>) /\ Net(k, <<a, b, c>>) = Weight(k, a) + Weight(k, b) + Weight(k, c)
<1> TAKE k, a, b, c
<1>1. PICK q, r, S : q = <<a, b, c>> /\ r = <<b, c>> /\ S = {a, b, c}
  OBVIOUS
<1>2. q \in Seq(S) /\ q # <<>> /\ Head(q) = a /\ Tail(q) = r
  BY <1>1
<1>3. Net(k, r) = Weight(k, b) + Weight(k, c)
  BY <1>1, Net2
<1>4. IsList(q) /\ Net(k, q) = Weight(k, a) + Net(k, r)
  BY <1>2, NetFirst
<1> QED BY <1>1, <1>3, <1>4, WeightInt

LEMMA Net4 == \A k, a, b, c, d :
  IsList(<<a, b, c, d>>) /\ Net(k, <<a, b, c, d>>) = Weight(k, a) + Weight(k, b) + Weight(k, c) + Weight(k, d)
<1> TAKE k, a, b, c, d
<1>1. PICK q, r, S : q = <<a, b, c, d>> /\ r = <<b, c, d>> /\ S = {a, b, c, d}
  OBVIOUS
<1>2. q \in Seq(S) /\ q # <<>> /\ Head(q) = a /\ Tail(q) = r
  BY <1>1
<1>3. Net(k, r) = Weight(k, b) + Weight(k, c) + Weight(k, d)
  BY <1>1, Net3
<1>4. IsList(q) /\ Net(k, q) = Weight(k, a) + Net(k, r)
  BY <1>2, NetFirst
<1> QED BY <1>1, <1>3, <1>4, WeightInt

LEMMA Net5 == \A k, a, b, c, d, e :
  IsList(<<a, b, c, d, e>>) /\ Net(k, <<a, b, c, d, e>>) = Weight(k, a) + Weight(k, b) + Weight(k, c) + Weight(k, d) + Weight(k, e)
<1> TAKE k, a, b, c, d, e
<1>1. PICK q, r, S : q = <<a, b, c, d, e>> /\ r = <<b, c, d, e>> /\ S = {a, b, c, d, e}
  OBVIOUS
<1>2. q \in Seq(S) /\ q # <<>> /\ Head(q) = a /\ Tail(q) = r
  BY <1>1
<1>3. Net(k, r) = Weight(k, b) + Weight(k, c) + Weight(k, d) + Weight(k, e)
  BY <1>1, Net4
<1>4. IsList(q) /\ Net(k, q) = Weight(k, a) + Net(k, r)
  BY <1>2, NetFirst
<1> QED BY <1>1, <1>3, <1>4, WeightInt

LEMMA Net6 == \A k, a, b, c, d, e, f :
  IsList(<<a, b, c, d, e, f>>) /\ Net(k, <<a, b, c, d, e, f>>) = Weight(k, a) + Weight(k, b) + Weight(k, c) + Weight(k, d) + Weight(k, e) + Weight(k, f)
<1> TAKE k, a, b, c, d, e, f
<1>1. PICK q, r, S : q = <<a, b, c, d, e, f>> /\ r = <<b, c, d, e, f>> /\ S = {a, b, c, d, e, f}
  OBVIOUS
<1>2. q \in Seq(S) /\ q # <<>> /\ Head(q) = a /\ Tail(q) = r
  BY <1>1
<1>3. Net(k, r) = Weight(k, b) + Weight(k, c) + Weight(k, d) + Weight(k, e) + Weight(k, f)
  BY <1>1, Net5
<1>4. IsList(q) /\ Net(k, q) = Weight(k, a) + Net(k, r)
  BY <1>2, NetFirst
<1> QED BY <1>1, <1>3, <1>4, WeightInt

LEMMA Net7 == \A k, a, b, c, d, e, f, g :
  IsList(<<a, b, c, d, e, f, g>>) /\ Net(k, <<a, b, c, d, e, f, g>>) = Weight(k, a) + Weight(k, b) + Weight(k, c) + Weight(k, d) + Weight(k, e) + Weight(k, f) + Weight(k, g)
<1> TAKE k, a, b, c, d, e, f, g
<1>1. PICK q, r, S : q = <<a, b, c, d, e, f, g>> /\ r = <<b, c, d, e, f, g>> /\ S = {a, b, c, d, e, f, g}
  OBVIOUS
<1>2. q \in Seq(S) /\ q # <<>> /\ Head(q) = a /\ Tail(q) = r
  BY <1>1
<1>3. Net(k, r) = Weight(k, b) + Weight(k, c) + Weight(k, d) + Weight(k, e) + Weight(k, f) + Weight(k, g)
  BY <1>1, Net6
<1>4. IsList(q) /\ Net(k, q) = Weight(k, a) + Net(k, r)
  BY <1>2, NetFirst
<1> QED BY <1>1, <1>3, <1>4, WeightInt

LEMMA HeldEmpty == \A k, D, r : IsFrames(<<>>, D) /\ Held(k, <<>>, r) = 0
<1> TAKE k, D, r
<1>1. <<>> \in Seq(Todo({}, D))
  OBVIOUS
<1>2. \A M : Occ(<<>>, M) = 0
  BY OccEmpty
<1> QED BY <1>1, <1>2 DEF IsFrames, Held

LEMMA FramesAre ==
  ASSUME NEW D, NEW s \in D, NEW A, NEW ops \in Seq(A)
  PROVE  Frames(ops, s) \in Seq(Todo(A, D))
BY DEF Frames, Frame, Todo

(* The frames of slot s are counted for s, and for no other slot. *)
LEMMA FramesCount ==
  ASSUME NEW s, NEW A, NEW ops \in Seq(A), NEW O, NEW r
  PROVE  Occ(Frames(ops, s), FramesWith(O, r)) = IF r = s THEN Occ(ops, O) ELSE 0
<1>1. /\ Frames(ops, s) \in Seq(Todo(A, {s})) /\ Len(Frames(ops, s)) = Len(ops)
      /\ \A i \in 1 .. Len(ops) : Frames(ops, s)[i] = [op |-> ops[i], s |-> s]
  BY DEF Frames, Frame, Todo
<1>2. \A i \in 1 .. Len(ops) :
        Frames(ops, s)[i] \in FramesWith(O, r) <=> r = s /\ ops[i] \in O
  <2> TAKE i \in 1 .. Len(ops)
  <2>1. [op |-> ops[i], s |-> s] \in FramesWith(O, r) <=> r = s /\ ops[i] \in O
    BY DEF FramesWith
  <2> QED BY <1>1, <2>1
<1>3. CASE r = s
  <2> Positions(Frames(ops, s), FramesWith(O, r)) = Positions(ops, O)
    BY <1>1, <1>2, <1>3 DEF Positions
  <2> QED BY <1>1, <1>3 DEF Occ
<1>4. CASE r # s
  <2> Occ(Frames(ops, s), FramesWith(O, r)) = 0
    BY <1>1, <1>2, <1>4, PositionsFinite
  <2> QED BY <1>1, <1>4
<1> QED BY <1>3, <1>4

LEMMA HeldFrames ==
  ASSUME NEW k, NEW D, NEW s \in D, NEW ops, IsList(ops), NEW r
  PROVE  /\ IsFrames(Frames(ops, s), D)
         /\ Held(k, Frames(ops, s), r) = IF r = s THEN Net(k, ops) ELSE 0
<1>1. PICK A : ops \in Seq(A)
  BY DEF IsList
<1>2. PICK H, W, q : H = k.holding /\ W = k.owing /\ q = Frames(ops, s)
  OBVIOUS
<1>3. q \in Seq(Todo(A, D))
  BY <1>1, <1>2, FramesAre
<1>4. /\ Occ(q, FramesWith(H, r)) = IF r = s THEN Occ(ops, H) ELSE 0
      /\ Occ(q, FramesWith(W, r)) = IF r = s THEN Occ(ops, W) ELSE 0
  <2>1. Occ(Frames(ops, s), FramesWith(H, r)) = IF r = s THEN Occ(ops, H) ELSE 0
    BY <1>1, FramesCount
  <2>2. Occ(Frames(ops, s), FramesWith(W, r)) = IF r = s THEN Occ(ops, W) ELSE 0
    BY <1>1, FramesCount
  <2> QED BY <1>2, <2>1, <2>2
<1>5. Held(k, q, r) = IF r = s THEN Net(k, ops) ELSE 0
  <2>1. Held(k, q, r) = Occ(q, FramesWith(H, r)) - Occ(q, FramesWith(W, r))
    BY <1>2 DEF Held
  <2>2. Net(k, ops) = Occ(ops, H) - Occ(ops, W)
    BY <1>2 DEF Net
  <2> QED BY <1>4, <2>1, <2>2
<1> QED BY <1>2, <1>3, <1>5 DEF IsFrames

LEMMA OneFrame == \A op, s : <<Frame(op, s)>> = Frames(<<op>>, s)
BY DEF Frames

LEMMA FramesConcat ==
  ASSUME NEW D, NEW q, IsFrames(q, D), NEW p, IsFrames(p, D)
  PROVE  IsFrames(q \o p, D)
<1>1. PICK A, B : q \in Seq(Todo(A, D)) /\ p \in Seq(Todo(B, D))
  BY DEF IsFrames
<1>2. PICK C : C = A \cup B
  OBVIOUS
<1>3. PICK S : S = Todo(C, D)
  OBVIOUS
<1>4. Todo(A, D) \subseteq S /\ Todo(B, D) \subseteq S
  BY <1>2, <1>3 DEF Todo
<1>5. q \o p \in Seq(S)
  BY <1>1, <1>4
<1> QED BY <1>3, <1>5 DEF IsFrames

LEMMA HeldInt ==
  ASSUME NEW k, NEW D, NEW q, IsFrames(q, D), NEW r
  PROVE  Held(k, q, r) \in Int
<1>1. PICK A : q \in Seq(Todo(A, D))
  BY DEF IsFrames
<1>2. PICK H, W : H = FramesWith(k.holding, r) /\ W = FramesWith(k.owing, r)
  OBVIOUS
<1>3. Occ(q, H) \in Nat /\ Occ(q, W) \in Nat
  BY <1>1, PositionsFinite
<1> QED BY <1>2, <1>3 DEF Held

LEMMA HeldConcat ==
  ASSUME NEW k, NEW D, NEW q, IsFrames(q, D), NEW p, IsFrames(p, D), NEW r
  PROVE  Held(k, q \o p, r) = Held(k, q, r) + Held(k, p, r)
<1>1. PICK A, B : q \in Seq(Todo(A, D)) /\ p \in Seq(Todo(B, D))
  BY DEF IsFrames
<1>2. PICK S, z : S = Todo(A \cup B, D) /\ z = q \o p
  OBVIOUS
<1>3. Todo(A, D) \subseteq S /\ Todo(B, D) \subseteq S
  BY <1>2 DEF Todo
<1>4. q \in Seq(S) /\ p \in Seq(S)
  BY <1>1, <1>3
<1>6. \A M : /\ Occ(z, M) = Occ(q, M) + Occ(p, M)
             /\ Occ(q, M) \in Nat /\ Occ(p, M) \in Nat
  BY <1>2, <1>4, OccConcat, PositionsFinite
<1>7. Held(k, z, r) = Held(k, q, r) + Held(k, p, r)
  <2>1. PICK H, W : H = FramesWith(k.holding, r) /\ W = FramesWith(k.owing, r)
    OBVIOUS
  <2>2. /\ Held(k, q, r) = Occ(q, H) - Occ(q, W) /\ Held(k, p, r) = Occ(p, H) - Occ(p, W)
        /\ Held(k, z, r) = Occ(z, H) - Occ(z, W)
    BY <2>1 DEF Held
  <2>3. /\ Occ(q, H) \in Nat /\ Occ(q, W) \in Nat /\ Occ(p, H) \in Nat /\ Occ(p, W) \in Nat
        /\ Occ(z, H) = Occ(q, H) + Occ(p, H) /\ Occ(z, W) = Occ(q, W) + Occ(p, W)
    BY <1>6
  <2> QED BY <2>2, <2>3
<1> QED BY <1>2, <1>7

(* A list of frames is its first, and the rest. *)
LEMMA HeldFirst ==
  ASSUME NEW k, NEW D, NEW q, IsFrames(q, D), q # <<>>, NEW r
  PROVE  /\ IsFrames(Tail(q), D)
         /\ Head(q).s \in D
         /\ Held(k, q, r) = IF r = Head(q).s THEN Held(k, Tail(q), r) + Weight(k, Head(q).op)
                            ELSE Held(k, Tail(q), r)
<1>1. PICK A : q \in Seq(Todo(A, D))
  BY DEF IsFrames
<1>0. PICK z : z = Tail(q)
  OBVIOUS
<1>2. z \in Seq(Todo(A, D)) /\ Head(q) \in Todo(A, D)
  BY <1>0, <1>1
<1>3. Head(q).s \in D /\ IsFrames(z, D)
  BY <1>2 DEF Todo, IsFrames
<1>4. PICK s, op, f : s = Head(q).s /\ op = Head(q).op /\ f = Frames(<<op>>, s)
  OBVIOUS
<1>5. q = f \o z
  <2>1. f = <<Head(q)>>
    BY <1>2, <1>4, OneFrame DEF Todo, Frame
  <2> QED BY <1>0, <1>1, <2>1
<1>6. IsFrames(f, D) /\ Held(k, f, r) = IF r = s THEN Weight(k, op) ELSE 0
  <2>1. PICK ops : ops = <<op>>
    OBVIOUS
  <2>2. IsList(ops) /\ Net(k, ops) = Weight(k, op)
    BY <2>1, NetOne
  <2>3. s \in D /\ f = Frames(ops, s)
    BY <1>3, <1>4, <2>1
  <2>4. /\ IsFrames(Frames(ops, s), D)
        /\ Held(k, Frames(ops, s), r) = IF r = s THEN Net(k, ops) ELSE 0
    BY <2>2, <2>3, HeldFrames
  <2> QED BY <2>2, <2>3, <2>4
<1>7. /\ Held(k, f, r) \in Int /\ Held(k, z, r) \in Int
      /\ Held(k, q, r) = Held(k, f, r) + Held(k, z, r)
  <2>1. IsFrames(f, D) /\ IsFrames(z, D)
    BY <1>0, <1>3, <1>6
  <2>2. /\ Held(k, f, r) \in Int /\ Held(k, z, r) \in Int
        /\ Held(k, f \o z, r) = Held(k, f, r) + Held(k, z, r)
    BY <2>1, HeldConcat, HeldInt
  <2> QED BY <1>5, <2>2
<1>8. Held(k, q, r) = IF r = s THEN Held(k, z, r) + Weight(k, op) ELSE Held(k, z, r)
  BY <1>6, <1>7
<1> QED BY <1>0, <1>3, <1>4, <1>8

(* Frames that are not counted. *)
LEMMA NoneHeld ==
  ASSUME NEW k, NEW D, NEW A, NEW q \in Seq(Todo(A, D)),
         \A i \in 1 .. Len(q) : q[i].op \notin k.holding /\ q[i].op \notin k.owing, NEW r
  PROVE  IsFrames(q, D) /\ Held(k, q, r) = 0
<1>1. ASSUME NEW O, \A i \in 1 .. Len(q) : q[i].op \notin O
      PROVE  Occ(q, FramesWith(O, r)) = 0
  BY <1>1, PositionsFinite DEF FramesWith
<1>2. PICK H, W : H = k.holding /\ W = k.owing
  OBVIOUS
<1>3. Occ(q, FramesWith(H, r)) = 0 /\ Occ(q, FramesWith(W, r)) = 0
  BY <1>1, <1>2
<1> QED BY <1>2, <1>3 DEF IsFrames, Held

LEMMA StopSlotsHeld ==
  ASSUME NEW k, \A op \in {"shutdown", "disc_cas"} : op \notin k.holding /\ op \notin k.owing,
         NEW n \in Nat, NEW q, q = StopSlots(n), NEW r
  PROVE  IsFrames(q, 0 .. n - 1) /\ Held(k, q, r) = 0
<1>1. q \in Seq(Todo({"shutdown", "disc_cas"}, 0 .. n - 1)) /\ Len(q) = 2 * n
  <2>1. \A i \in 1 .. 2 * n : (i - 1) \div 2 \in 0 .. n - 1
    OBVIOUS
  <2> QED BY <2>1 DEF StopSlots, Frame, Todo
<1>2. \A i \in 1 .. Len(q) : q[i].op \in {"shutdown", "disc_cas"}
  BY <1>1 DEF StopSlots, Frame
<1> QED BY <1>1, <1>2, NoneHeld
-----------------------------------------------------------------------------
(* Tallies *)

LEMMA MoreFrames ==
  ASSUME NEW T, NEW D, NEW A, NEW B, A \subseteq B, NEW Q \in Queues(T, Todo(A, D))
  PROVE  Q \in Queues(T, Todo(B, D))
<1>1. Todo(A, D) \subseteq Todo(B, D)
  BY DEF Todo
<1>2. PICK S, U : S = Todo(A, D) /\ U = Todo(B, D)
  OBVIOUS
<1>3. \A q \in Seq(S) : q \in Seq(U)
  BY <1>1, <1>2
<1> QED BY <1>2, <1>3 DEF Queues

LEMMA CountsNat ==
  ASSUME NEW T, IsFiniteSet(T), NEW D, NEW K, NEW Q, NEW P, NEW R, Running(T, D, K, Q, P, R),
         NEW O, NEW r
  PROVE  InThreads(Q, O, r) \in Nat /\ InFlight(P, O, r) \in Nat /\ InPort(R, O, r) \in Nat
<1>1. R \in Seq(Packets(D, K)) /\ IsFiniteSet(P)
  BY DEF Running
<1>2. PICK A : Q \in Queues(T, Todo(A, D))
  BY DEF Running
<1>3. InThreads(Q, O, r) \in Nat
  <2>1. CASE T = {}
    BY <1>2, <2>1, TotalNone DEF InThreads
  <2>2. CASE T # {}
    BY <1>2, <2>2, TotalAtLeast DEF InThreads
  <2> QED BY <2>1, <2>2
<1>4. InFlight(P, O, r) \in Nat
  BY <1>1, CountNone DEF InFlight
<1>5. InPort(R, O, r) \in Nat
  BY <1>1, PositionsFinite DEF InPort
<1> QED BY <1>3, <1>4, <1>5

LEMMA TallyInt ==
  ASSUME NEW k, NEW T, IsFiniteSet(T), NEW D, NEW K, NEW Q, NEW P, NEW R, Running(T, D, K, Q, P, R),
         NEW r
  PROVE  Tally(k, Q, P, R, r) \in Int
<1>1. PICK H, W, X : H = k.holding /\ W = k.owing /\ X = k.kernel
  OBVIOUS
<1>2. /\ InThreads(Q, H, r) \in Nat /\ InThreads(Q, W, r) \in Nat
      /\ InFlight(P, X, r) \in Nat /\ InPort(R, X, r) \in Nat
  BY CountsNat
<1> QED BY <1>1, <1>2 DEF Tally

(* From one situation to another the tally of slot s changes by n, and that *)
(* of no other slot.                                                        *)
Shift(k, Q, P, R, Q2, P2, R2, s, n) ==
  \A r : Tally(k, Q2, P2, R2, r) =
           IF r = s THEN Tally(k, Q, P, R, r) + n ELSE Tally(k, Q, P, R, r)

LEMMA ShiftTwice ==
  ASSUME NEW k, NEW T, IsFiniteSet(T), NEW D, NEW K, NEW Q, NEW P, NEW R, Running(T, D, K, Q, P, R),
         NEW Q2, NEW P2, NEW R2, NEW Q3, NEW P3, NEW R3, NEW s, NEW n \in Int, NEW m \in Int,
         Shift(k, Q, P, R, Q2, P2, R2, s, n), Shift(k, Q2, P2, R2, Q3, P3, R3, s, m)
  PROVE  Shift(k, Q, P, R, Q3, P3, R3, s, n + m)
<1> SUFFICES ASSUME NEW r
             PROVE  Tally(k, Q3, P3, R3, r) =
                      IF r = s THEN Tally(k, Q, P, R, r) + (n + m) ELSE Tally(k, Q, P, R, r)
  BY DEF Shift
<1>1. Tally(k, Q, P, R, r) \in Int
  BY TallyInt
<1>2. Tally(k, Q2, P2, R2, r) =
        IF r = s THEN Tally(k, Q, P, R, r) + n ELSE Tally(k, Q, P, R, r)
  BY DEF Shift
<1>3. Tally(k, Q3, P3, R3, r) =
        IF r = s THEN Tally(k, Q2, P2, R2, r) + m ELSE Tally(k, Q2, P2, R2, r)
  BY DEF Shift
<1> QED BY <1>1, <1>2, <1>3

(* A thread's list is replaced: the tally changes as what the list counts. *)
Puts(Q, R, t, new) == R = [Q EXCEPT ![t] = new]

Gains(k, old, new, s, n) ==
  \A r : Held(k, new, r) = IF r = s THEN Held(k, old, r) + n ELSE Held(k, old, r)

LEMMA PutTally ==
  ASSUME NEW k, NEW T, IsFiniteSet(T), NEW D, NEW K, NEW Q, NEW P, NEW R, Running(T, D, K, Q, P, R),
         NEW t \in T, NEW new, IsFrames(new, D), NEW Q2, Puts(Q, Q2, t, new),
         NEW s, NEW n \in Int, Gains(k, Q[t], new, s, n)
  PROVE  Running(T, D, K, Q2, P, R) /\ Shift(k, Q, P, R, Q2, P, R, s, n)
<1>1. PICK A, B : new \in Seq(Todo(A, D)) /\ Q \in Queues(T, Todo(B, D))
  BY DEF IsFrames, Running
<1>2. PICK C : C = A \cup B
  OBVIOUS
<1>3. Q \in Queues(T, Todo(C, D))
  BY <1>1, <1>2, MoreFrames
<1>4. PICK S : S = Todo(C, D)
  OBVIOUS
<1>5. new \in Seq(S)
  <2>1. Todo(A, D) \subseteq S
    BY <1>2, <1>4 DEF Todo
  <2> QED BY <1>1, <2>1
<1>6. Q2 \in Queues(T, S) /\ Q2[t] = new /\ \A x \in T \ {t} : Q2[x] = Q[x]
  BY <1>3, <1>4, <1>5 DEF Queues, Puts
<1>7. ChangesAt(T, S, Q, Q2, t)
  BY <1>3, <1>4, <1>6 DEF ChangesAt
<1>8. \A M : /\ Total(Q, M) \in Nat
             /\ Total(Q2, M) = Total(Q, M) - Occ(Q[t], M) + Occ(new, M)
  BY <1>6, <1>7, TotalUpdate
<1>9. PICK old : old = Q[t]
  OBVIOUS
<1>10. old \in Seq(S)
  BY <1>3, <1>4, <1>9 DEF Queues
<1>11. \A M : Occ(old, M) \in Nat /\ Occ(new, M) \in Nat
  BY <1>5, <1>10, PositionsFinite
<1>12. ASSUME NEW r
       PROVE  Tally(k, Q2, P, R, r) =
                IF r = s THEN Tally(k, Q, P, R, r) + n ELSE Tally(k, Q, P, R, r)
  <2>1. PICK H, W, h, w, f, p : /\ H = FramesWith(k.holding, r) /\ W = FramesWith(k.owing, r)
                                /\ f = InFlight(P, k.kernel, r) /\ p = InPort(R, k.kernel, r)
                                /\ h = Total(Q, H) /\ w = Total(Q, W)
    OBVIOUS
  <2>2. /\ Total(Q2, H) = h - Occ(old, H) + Occ(new, H)
        /\ Total(Q2, W) = w - Occ(old, W) + Occ(new, W)
        /\ h \in Nat /\ w \in Nat
        /\ Occ(old, H) \in Nat /\ Occ(new, H) \in Nat
        /\ Occ(old, W) \in Nat /\ Occ(new, W) \in Nat
    BY <1>8, <1>9, <1>11, <2>1
  <2>3. f \in Nat /\ p \in Nat
    BY <2>1, CountsNat
  <2>4. Tally(k, Q, P, R, r) = h - w + f + p
    BY <2>1 DEF Tally, InThreads
  <2>5. Tally(k, Q2, P, R, r) = Total(Q2, H) - Total(Q2, W) + f + p
    BY <2>1 DEF Tally, InThreads
  <2>6. /\ Held(k, new, r) = Occ(new, H) - Occ(new, W)
        /\ Held(k, old, r) = Occ(old, H) - Occ(old, W)
    BY <2>1 DEF Held
  <2>7. Held(k, new, r) = IF r = s THEN Held(k, old, r) + n ELSE Held(k, old, r)
    BY <1>9 DEF Gains
  <2> QED BY <2>2, <2>3, <2>4, <2>5, <2>6, <2>7
<1>13. Running(T, D, K, Q2, P, R)
  BY <1>4, <1>6 DEF Running
<1> QED BY <1>12, <1>13 DEF Shift

-----------------------------------------------------------------------------
(* The kernel: operations start, are done and their packets are taken *)

LEMMA InFlightMore ==
  ASSUME NEW P, IsFiniteSet(P), NEW p, p \notin P, NEW O, NEW r
  PROVE  InFlight(P \cup {p}, O, r) =
           IF p.s = r /\ p.op \in O THEN InFlight(P, O, r) + 1 ELSE InFlight(P, O, r)
<1>1. PICK A : A = {x \in P : x.s = r /\ x.op \in O}
  OBVIOUS
<1>2. CASE p.s = r /\ p.op \in O
  <2>1. {x \in P \cup {p} : x.s = r /\ x.op \in O} = A \cup {p} /\ A \in SUBSET P /\ p \notin A
    BY <1>1, <1>2
  <2>2. IsFiniteSet(P \cup {p}) /\ A \in SUBSET (P \cup {p})
    BY <2>1, FS_AddElement
  <2>3. Cardinality(A \cup {p}) = Cardinality(A) + 1
    BY <2>1, <2>2, CountOneMore
  <2> QED BY <1>1, <1>2, <2>1, <2>3 DEF InFlight
<1>3. CASE ~(p.s = r /\ p.op \in O)
  <2>1. {x \in P \cup {p} : x.s = r /\ x.op \in O} = A
    BY <1>1, <1>3
  <2> QED BY <1>1, <1>3, <2>1 DEF InFlight
<1> QED BY <1>2, <1>3

LEMMA InFlightLess ==
  ASSUME NEW P, IsFiniteSet(P), NEW p \in P, NEW O, NEW r
  PROVE  InFlight(P \ {p}, O, r) =
           IF p.s = r /\ p.op \in O THEN InFlight(P, O, r) - 1 ELSE InFlight(P, O, r)
<1>1. PICK A : A = {x \in P : x.s = r /\ x.op \in O}
  OBVIOUS
<1>2. CASE p.s = r /\ p.op \in O
  <2>1. {x \in P \ {p} : x.s = r /\ x.op \in O} = A \ {p} /\ A \in SUBSET P /\ p \in A
    BY <1>1, <1>2
  <2>2. Cardinality(A \ {p}) = Cardinality(A) - 1
    BY <2>1, CountOneLess
  <2> QED BY <1>1, <1>2, <2>1, <2>2 DEF InFlight
<1>3. CASE ~(p.s = r /\ p.op \in O)
  <2>1. {x \in P \ {p} : x.s = r /\ x.op \in O} = A
    BY <1>1, <1>3
  <2> QED BY <1>1, <1>3, <2>1 DEF InFlight
<1> QED BY <1>2, <1>3

LEMMA InPortMore ==
  ASSUME NEW D, NEW K, NEW R \in Seq(Packets(D, K)), NEW e \in Packets(D, K), NEW O, NEW r
  PROVE  /\ Append(R, e) \in Seq(Packets(D, K))
         /\ InPort(Append(R, e), O, r) =
              IF e.s = r /\ e.op \in O THEN InPort(R, O, r) + 1 ELSE InPort(R, O, r)
<1>1. PICK M : M = PacketsWith(O, r)
  OBVIOUS
<1>2. e \in M <=> e.s = r /\ e.op \in O
  BY <1>1 DEF Packets, PacketsWith
<1>3. PICK S : S = Packets(D, K)
  OBVIOUS
<1>4. Append(R, e) \in Seq(S)
  BY <1>3
<1>5. Occ(Append(R, e), M) = IF e \in M THEN Occ(R, M) + 1 ELSE Occ(R, M)
  BY <1>3, OccAppend
<1> QED BY <1>1, <1>2, <1>3, <1>4, <1>5 DEF InPort

LEMMA InPortLess ==
  ASSUME NEW D, NEW K, NEW R \in Seq(Packets(D, K)), R # <<>>, NEW O, NEW r
  PROVE  /\ Tail(R) \in Seq(Packets(D, K)) /\ Head(R) \in Packets(D, K)
         /\ InPort(Tail(R), O, r) =
              IF Head(R).s = r /\ Head(R).op \in O THEN InPort(R, O, r) - 1 ELSE InPort(R, O, r)
<1>1. PICK M : M = PacketsWith(O, r)
  OBVIOUS
<1>2. PICK S : S = Packets(D, K)
  OBVIOUS
<1>3. Tail(R) \in Seq(S) /\ Head(R) \in S
  BY <1>2
<1>4. Head(R) \in M <=> Head(R).s = r /\ Head(R).op \in O
  BY <1>1, <1>2, <1>3 DEF Packets, PacketsWith
<1>5. Occ(Tail(R), M) \in Nat /\ Occ(R, M) = IF Head(R) \in M THEN Occ(Tail(R), M) + 1 ELSE Occ(Tail(R), M)
  BY <1>2, OccTail
<1>6. Occ(Tail(R), M) = IF Head(R) \in M THEN Occ(R, M) - 1 ELSE Occ(R, M)
  BY <1>5
<1> QED BY <1>1, <1>2, <1>3, <1>4, <1>6 DEF InPort

(* What an operation or a packet of a kind counts. *)
Part(k, kind) == IF kind \in k.kernel THEN 1 ELSE 0

LEMMA PartInt == \A k, kind : Part(k, kind) \in Int
BY DEF Part

(* What the kernel has changes by n for slot s. *)
Moves(k, P, R, P2, R2, s, n) ==
  \A r : InFlight(P2, k.kernel, r) + InPort(R2, k.kernel, r) =
           IF r = s THEN InFlight(P, k.kernel, r) + InPort(R, k.kernel, r) + n
           ELSE InFlight(P, k.kernel, r) + InPort(R, k.kernel, r)

LEMMA KernelTally ==
  ASSUME NEW k, NEW T, IsFiniteSet(T), NEW D, NEW K, NEW Q, NEW P, NEW R, Running(T, D, K, Q, P, R),
         NEW P2, NEW R2, Running(T, D, K, Q, P2, R2), NEW s, NEW n \in Int,
         Moves(k, P, R, P2, R2, s, n)
  PROVE  Shift(k, Q, P, R, Q, P2, R2, s, n)
<1> SUFFICES ASSUME NEW r
             PROVE  Tally(k, Q, P2, R2, r) =
                      IF r = s THEN Tally(k, Q, P, R, r) + n ELSE Tally(k, Q, P, R, r)
  BY DEF Shift
<1>1. PICK H, W, X : H = k.holding /\ W = k.owing /\ X = k.kernel
  OBVIOUS
<1>2. PICK h, w, f, p, f2, p2 :
        /\ h = InThreads(Q, H, r) /\ w = InThreads(Q, W, r)
        /\ f = InFlight(P, X, r) /\ p = InPort(R, X, r)
        /\ f2 = InFlight(P2, X, r) /\ p2 = InPort(R2, X, r)
  OBVIOUS
<1>3. h \in Nat /\ w \in Nat /\ f \in Nat /\ p \in Nat
  BY <1>2, CountsNat
<1>4. f2 \in Nat /\ p2 \in Nat
  BY <1>2, CountsNat
<1>5. Tally(k, Q, P, R, r) = h - w + f + p /\ Tally(k, Q, P2, R2, r) = h - w + f2 + p2
  BY <1>1, <1>2 DEF Tally
<1>6. f2 + p2 = IF r = s THEN f + p + n ELSE f + p
  BY <1>1, <1>2 DEF Moves
<1> QED BY <1>3, <1>4, <1>5, <1>6

LEMMA FlightTally ==
  ASSUME NEW k, NEW T, IsFiniteSet(T), NEW D, NEW K, NEW Q, NEW P, NEW R, Running(T, D, K, Q, P, R),
         NEW p, p \notin P, p.s \in D, p.op \in {"recv", "send"}, NEW P2, P2 = P \cup {p}
  PROVE  Running(T, D, K, Q, P2, R) /\ Shift(k, Q, P, R, Q, P2, R, p.s, Part(k, p.op))
<1>1. IsFiniteSet(P) /\ IsFiniteSet(P2)
  BY FS_AddElement DEF Running
<1>2. Running(T, D, K, Q, P2, R)
  BY <1>1 DEF Running
<1>3. ASSUME NEW r
      PROVE  InFlight(P2, k.kernel, r) + InPort(R, k.kernel, r) =
               IF r = p.s THEN InFlight(P, k.kernel, r) + InPort(R, k.kernel, r) + Part(k, p.op)
               ELSE InFlight(P, k.kernel, r) + InPort(R, k.kernel, r)
  <2>1. PICK X : X = k.kernel
    OBVIOUS
  <2>2. InFlight(P2, X, r) =
          IF p.s = r /\ p.op \in X THEN InFlight(P, X, r) + 1 ELSE InFlight(P, X, r)
    BY <1>1, InFlightMore
  <2>3. InFlight(P, X, r) \in Nat /\ InPort(R, X, r) \in Nat
    BY CountsNat
  <2> QED BY <2>1, <2>2, <2>3 DEF Part
<1>4. Moves(k, P, R, P2, R, p.s, Part(k, p.op))
  BY <1>3 DEF Moves
<1> QED BY <1>2, <1>4, PartInt, KernelTally

(* An operation that is done goes with its packet to the port. *)
PacketOf(p, n) == [s |-> p.s, op |-> p.op, trans |-> n]

LEMMA DoneTally ==
  ASSUME NEW k, NEW T, IsFiniteSet(T), NEW D, NEW K, NEW Q, NEW P, NEW R, Running(T, D, K, Q, P, R),
         {"recv", "send"} \subseteq K, NEW p \in P, NEW n \in Nat,
         NEW P2, P2 = P \ {p}, NEW R2, R2 = Append(R, PacketOf(p, n)), NEW s
  PROVE  Running(T, D, K, Q, P2, R2) /\ Shift(k, Q, P, R, Q, P2, R2, s, 0)
<1>1. /\ IsFiniteSet(P) /\ p.s \in D /\ p.op \in {"recv", "send"}
      /\ R \in Seq(Packets(D, K))
  BY DEF Running
<1>2. PICK e : /\ e = PacketOf(p, n) /\ R2 = Append(R, e)
               /\ e \in Packets(D, K) /\ e.s = p.s /\ e.op = p.op
  BY <1>1 DEF Packets, PacketOf
<1>3. IsFiniteSet(P2)
  BY <1>1, FS_RemoveElement
<1>4. Running(T, D, K, Q, P2, R2)
  <2>1. R2 \in Seq(Packets(D, K))
    BY <1>1, <1>2, InPortMore
  <2> QED BY <1>3, <2>1 DEF Running
<1>5. ASSUME NEW r
      PROVE  InFlight(P2, k.kernel, r) + InPort(R2, k.kernel, r) =
               IF r = s THEN InFlight(P, k.kernel, r) + InPort(R, k.kernel, r) + 0
               ELSE InFlight(P, k.kernel, r) + InPort(R, k.kernel, r)
  <2>1. PICK X : X = k.kernel
    OBVIOUS
  <2>2. InFlight(P2, X, r) =
          IF p.s = r /\ p.op \in X THEN InFlight(P, X, r) - 1 ELSE InFlight(P, X, r)
    BY <1>1, InFlightLess
  <2>3. InPort(R2, X, r) =
          IF p.s = r /\ p.op \in X THEN InPort(R, X, r) + 1 ELSE InPort(R, X, r)
    BY <1>1, <1>2, InPortMore
  <2>4. InFlight(P, X, r) \in Nat /\ InPort(R, X, r) \in Nat
    BY CountsNat
  <2> QED BY <2>1, <2>2, <2>3, <2>4
<1>6. Moves(k, P, R, P2, R2, s, 0)
  BY <1>5 DEF Moves
<1> QED BY <1>4, <1>6, KernelTally

(* A packet comes to the port, or is taken from it. *)
LEMMA PostTally ==
  ASSUME NEW k, NEW T, IsFiniteSet(T), NEW D, NEW K, NEW Q, NEW P, NEW R, Running(T, D, K, Q, P, R),
         NEW e \in Packets(D, K), NEW R2, R2 = Append(R, e)
  PROVE  Running(T, D, K, Q, P, R2) /\ Shift(k, Q, P, R, Q, P, R2, e.s, Part(k, e.op))
<1>1. R \in Seq(Packets(D, K))
  BY DEF Running
<1>2. Running(T, D, K, Q, P, R2)
  <2>1. R2 \in Seq(Packets(D, K))
    BY <1>1, InPortMore
  <2> QED BY <2>1 DEF Running
<1>3. ASSUME NEW r
      PROVE  InFlight(P, k.kernel, r) + InPort(R2, k.kernel, r) =
               IF r = e.s THEN InFlight(P, k.kernel, r) + InPort(R, k.kernel, r) + Part(k, e.op)
               ELSE InFlight(P, k.kernel, r) + InPort(R, k.kernel, r)
  <2>1. PICK X : X = k.kernel
    OBVIOUS
  <2>2. InPort(R2, X, r) =
          IF e.s = r /\ e.op \in X THEN InPort(R, X, r) + 1 ELSE InPort(R, X, r)
    BY <1>1, InPortMore
  <2>3. InFlight(P, X, r) \in Nat /\ InPort(R, X, r) \in Nat
    BY CountsNat
  <2> QED BY <2>1, <2>2, <2>3 DEF Part
<1>4. Moves(k, P, R, P, R2, e.s, Part(k, e.op))
  BY <1>3 DEF Moves
<1> QED BY <1>2, <1>4, PartInt, KernelTally

LEMMA TakenTally ==
  ASSUME NEW k, NEW T, IsFiniteSet(T), NEW D, NEW K, NEW Q, NEW P, NEW R, Running(T, D, K, Q, P, R),
         R # <<>>, NEW e, e = Head(R), NEW R2, R2 = Tail(R)
  PROVE  /\ e \in Packets(D, K) /\ Running(T, D, K, Q, P, R2)
         /\ Shift(k, Q, P, R, Q, P, R2, e.s, 0 - Part(k, e.op))
<1>1. R \in Seq(Packets(D, K))
  BY DEF Running
<1>2. e \in Packets(D, K) /\ Running(T, D, K, Q, P, R2)
  <2>1. R2 \in Seq(Packets(D, K)) /\ e \in Packets(D, K)
    BY <1>1, InPortLess
  <2> QED BY <2>1 DEF Running
<1>3. ASSUME NEW r
      PROVE  InFlight(P, k.kernel, r) + InPort(R2, k.kernel, r) =
               IF r = e.s
               THEN InFlight(P, k.kernel, r) + InPort(R, k.kernel, r) + (0 - Part(k, e.op))
               ELSE InFlight(P, k.kernel, r) + InPort(R, k.kernel, r)
  <2>1. PICK X : X = k.kernel
    OBVIOUS
  <2>2. InPort(R2, X, r) =
          IF e.s = r /\ e.op \in X THEN InPort(R, X, r) - 1 ELSE InPort(R, X, r)
    BY <1>1, InPortLess
  <2>3. InFlight(P, X, r) \in Nat /\ InPort(R, X, r) \in Nat
    BY CountsNat
  <2> QED BY <2>1, <2>2, <2>3 DEF Part
<1>4. Moves(k, P, R, P, R2, e.s, 0 - Part(k, e.op))
  BY <1>3 DEF Moves
<1>5. 0 - Part(k, e.op) \in Int
  BY PartInt
<1> QED BY <1>2, <1>4, <1>5, KernelTally

(* Packets that are not counted come to the port. *)
LEMMA QuitTally ==
  ASSUME NEW k, NEW T, IsFiniteSet(T), NEW D, NEW K, NEW Q, NEW P, NEW R, Running(T, D, K, Q, P, R),
         NEW q \in Seq(Packets(D, K)), \A i \in 1 .. Len(q) : q[i].op \notin k.kernel,
         NEW R2, R2 = R \o q, NEW s
  PROVE  Running(T, D, K, Q, P, R2) /\ Shift(k, Q, P, R, Q, P, R2, s, 0)
<1>1. PICK S, X : S = Packets(D, K) /\ X = k.kernel
  OBVIOUS
<1>2. R \in Seq(S) /\ q \in Seq(S)
  BY <1>1 DEF Running
<1>3. R2 \in Seq(S)
  BY <1>2
<1>4. Running(T, D, K, Q, P, R2)
  BY <1>1, <1>3 DEF Running
<1>5. ASSUME NEW r PROVE InPort(R2, X, r) = InPort(R, X, r)
  <2>1. PICK M : M = PacketsWith(X, r)
    OBVIOUS
  <2>2. \A i \in 1 .. Len(q) : q[i] \notin M
    BY <1>1, <2>1 DEF PacketsWith
  <2>3. Occ(q, M) = 0
    BY <1>2, <2>2, PositionsFinite
  <2>4. Occ(R \o q, M) = Occ(R, M) + Occ(q, M) /\ Occ(R, M) \in Nat
    BY <1>2, OccConcat, PositionsFinite
  <2> QED BY <2>1, <2>3, <2>4 DEF InPort
<1>6. \A r : InFlight(P, X, r) \in Nat /\ InPort(R, X, r) \in Nat
  BY CountsNat
<1>7. Moves(k, P, R, P, R2, s, 0)
  BY <1>1, <1>5, <1>6 DEF Moves
<1> QED BY <1>4, <1>7, KernelTally
-----------------------------------------------------------------------------
(* Balanced steps *)

(* The threads work on slots of D, and the sessions have the fields F. *)
Sound(k, T, D, K, F) ==
  /\ Running(T, D, K, todo, pending, port)
  /\ DOMAIN sess = D
  /\ \A s \in D : sess[s][k.field] \in Int /\ {k.field} \cup F \subseteq DOMAIN sess[s]

(* The field says so much more than the tally. *)
Excess(k, s) == sess[s][k.field] - Tally(k, todo, pending, port, s)

(* No session changes its id. *)
SameIndex(D, F) == "Index" \in F => \A s \in D : sess'[s].Index = sess[s].Index

(* A step over which the field changes as the tally. *)
Balanced(k, T, D, K, F) ==
  /\ Sound(k, T, D, K, F)'
  /\ \A s \in D : Excess(k, s)' = Excess(k, s)
  /\ SameIndex(D, F)

(* The step changes the field of slot s by n. *)
Adds(k, D, F, s, n) ==
  /\ DOMAIN sess' = D
  /\ \A r \in D :
       /\ {k.field} \cup F \subseteq DOMAIN sess'[r]
       /\ sess'[r][k.field] = IF r = s THEN sess[r][k.field] + n ELSE sess[r][k.field]

(* How much more a thread counts when it goes on with ops after op. *)
More(k, op, ops) == Net(k, ops) - Weight(k, op)

LEMMA AtOp ==
  ASSUME NEW k, NEW T, NEW D, NEW K, NEW F, Sound(k, T, D, K, F), NEW t \in T, NEW op, At(t, op)
  PROVE  todo[t] # <<>> /\ Head(todo[t]).op = op /\ Slot(t) \in D
<1>1. PICK A : todo \in Queues(T, Todo(A, D))
  BY DEF Sound, Running
<1>2. todo[t] # <<>> /\ Head(todo[t]).op = op
  BY DEF At
<1>3. todo[t] \in Seq(Todo(A, D))
  BY <1>1 DEF Queues
<1>4. Head(todo[t]) \in Todo(A, D)
  BY <1>2, <1>3
<1> QED BY <1>2, <1>4 DEF Todo, Slot

(* The fields are as before, and the tally too. *)
LEMMA StepBalanced ==
  ASSUME NEW k, NEW T, IsFiniteSet(T), NEW D, NEW K, NEW F, Sound(k, T, D, K, F),
         NEW s, NEW n \in Int, Adds(k, D, F, s, n), SameIndex(D, F),
         NEW Q2, NEW P2, NEW R2, Q2 = todo', P2 = pending', R2 = port',
         Running(T, D, K, Q2, P2, R2), Shift(k, todo, pending, port, Q2, P2, R2, s, n)
  PROVE  Balanced(k, T, D, K, F)
<1>1. ASSUME NEW r \in D
      PROVE  /\ sess[r][k.field] \in Int
             /\ sess'[r][k.field] = IF r = s THEN sess[r][k.field] + n ELSE sess[r][k.field]
  BY DEF Sound, Adds
<1>2. ASSUME NEW r \in D PROVE Excess(k, r)' = Excess(k, r)
  <2>1. Running(T, D, K, todo, pending, port)
    BY DEF Sound
  <2>2. Tally(k, todo, pending, port, r) \in Int
    BY <2>1, TallyInt
  <2>3. Tally(k, todo', pending', port', r) =
          IF r = s THEN Tally(k, todo, pending, port, r) + n ELSE Tally(k, todo, pending, port, r)
    BY DEF Shift
  <2> QED BY <1>1, <2>2, <2>3 DEF Excess
<1>3. Sound(k, T, D, K, F)'
  BY <1>1 DEF Sound, Adds
<1> QED BY <1>2, <1>3 DEF Balanced

(* The step of a thread whose list counts n more for slot s. *)
LEMMA PutStep ==
  ASSUME NEW k, NEW T, IsFiniteSet(T), NEW D, NEW K, NEW F, Sound(k, T, D, K, F), NEW t \in T,
         NEW new, IsFrames(new, D), NEW old, old = todo[t], todo' = [todo EXCEPT ![t] = new],
         NEW s, NEW n \in Int, Gains(k, old, new, s, n), UNCHANGED <<pending, port>>,
         Adds(k, D, F, s, n), SameIndex(D, F)
  PROVE  Balanced(k, T, D, K, F)
<1>1. PICK Q, Q2, P, R : Q = todo /\ Q2 = todo' /\ P = pending /\ R = port
  OBVIOUS
<1>2. Running(T, D, K, Q, P, R) /\ Puts(Q, Q2, t, new) /\ Gains(k, Q[t], new, s, n)
  BY <1>1 DEF Sound, Puts
<1>3. Running(T, D, K, Q2, P, R) /\ Shift(k, Q, P, R, Q2, P, R, s, n)
  BY <1>2, PutTally
<1>4. P = pending' /\ R = port' /\ Shift(k, todo, pending, port, Q2, P, R, s, n)
  BY <1>1, <1>3
<1> QED BY <1>1, <1>3, <1>4, StepBalanced

(* Lists that go on with ops. *)
Goes(old, new, s, ops) == new = Frames(ops, s) \o Tail(old)

LEMMA GainsConcat ==
  ASSUME NEW k, NEW D, NEW s \in D, NEW ops, IsList(ops), NEW z, IsFrames(z, D)
  PROVE  IsFrames(Frames(ops, s) \o z, D) /\ Gains(k, z, Frames(ops, s) \o z, s, Net(k, ops))
<1>1. IsFrames(Frames(ops, s), D)
  BY HeldFrames
<1>2. ASSUME NEW r
      PROVE  Held(k, Frames(ops, s) \o z, r) =
               IF r = s THEN Held(k, z, r) + Net(k, ops) ELSE Held(k, z, r)
  <2>1. /\ IsFrames(Frames(ops, s), D)
        /\ Held(k, Frames(ops, s), r) = IF r = s THEN Net(k, ops) ELSE 0
    BY HeldFrames
  <2>2. PICK f : f = Frames(ops, s)
    OBVIOUS
  <2>3. IsFrames(f, D)
    BY <1>1, <2>2
  <2>4. /\ Held(k, f, r) \in Int /\ Held(k, z, r) \in Int
        /\ Held(k, f \o z, r) = Held(k, f, r) + Held(k, z, r)
    BY <2>3, HeldConcat, HeldInt
  <2>5. Net(k, ops) \in Int
    BY NetInt
  <2> QED BY <2>1, <2>2, <2>4, <2>5
<1>3. IsFrames(Frames(ops, s) \o z, D)
  BY <1>1, FramesConcat
<1> QED BY <1>2, <1>3 DEF Gains

LEMMA GainsHead ==
  ASSUME NEW k, NEW D, NEW q, IsFrames(q, D), q # <<>>
  PROVE  /\ IsFrames(Tail(q), D) /\ Head(q).s \in D
         /\ Gains(k, Tail(q), q, Head(q).s, Weight(k, Head(q).op))
<1>1. ASSUME NEW r
      PROVE  /\ IsFrames(Tail(q), D) /\ Head(q).s \in D
             /\ Held(k, q, r) = IF r = Head(q).s
                                THEN Held(k, Tail(q), r) + Weight(k, Head(q).op)
                                ELSE Held(k, Tail(q), r)
  BY HeldFirst
<1> QED BY <1>1 DEF Gains

LEMMA GainsInstead ==
  ASSUME NEW k, NEW D, NEW z, IsFrames(z, D), NEW old, NEW new, NEW s, NEW n \in Int, NEW m \in Int,
         Gains(k, z, old, s, n), Gains(k, z, new, s, m)
  PROVE  Gains(k, old, new, s, m - n)
<1>1. ASSUME NEW r
      PROVE  Held(k, new, r) = IF r = s THEN Held(k, old, r) + (m - n) ELSE Held(k, old, r)
  <2>1. Held(k, z, r) \in Int
    BY HeldInt
  <2>2. /\ Held(k, old, r) = IF r = s THEN Held(k, z, r) + n ELSE Held(k, z, r)
        /\ Held(k, new, r) = IF r = s THEN Held(k, z, r) + m ELSE Held(k, z, r)
    BY DEF Gains
  <2> QED BY <2>1, <2>2
<1> QED BY <1>1 DEF Gains

LEMMA GainsNothing ==
  ASSUME NEW k, NEW D, NEW z, IsFrames(z, D), NEW old, NEW a, NEW new, NEW b, NEW s,
         Gains(k, z, old, a, 0), Gains(k, z, new, b, 0)
  PROVE  Gains(k, old, new, s, 0)
<1>1. ASSUME NEW r
      PROVE  Held(k, new, r) = IF r = s THEN Held(k, old, r) + 0 ELSE Held(k, old, r)
  <2>1. Held(k, z, r) \in Int
    BY HeldInt
  <2>2. /\ Held(k, old, r) = IF r = a THEN Held(k, z, r) + 0 ELSE Held(k, z, r)
        /\ Held(k, new, r) = IF r = b THEN Held(k, z, r) + 0 ELSE Held(k, z, r)
    BY DEF Gains
  <2> QED BY <2>1, <2>2
<1> QED BY <1>1 DEF Gains

LEMMA GainsSame ==
  ASSUME NEW k, NEW D, NEW z, IsFrames(z, D), NEW s
  PROVE  Gains(k, z, z, s, 0)
<1>1. ASSUME NEW r
      PROVE  Held(k, z, r) = IF r = s THEN Held(k, z, r) + 0 ELSE Held(k, z, r)
  <2>1. Held(k, z, r) \in Int
    BY HeldInt
  <2> QED BY <2>1
<1> QED BY <1>1 DEF Gains

LEMMA GoesGains ==
  ASSUME NEW k, NEW D, NEW old, IsFrames(old, D), old # <<>>, NEW ops, IsList(ops),
         NEW new, NEW s, s = Head(old).s, Goes(old, new, s, ops)
  PROVE  /\ IsFrames(new, D)
         /\ Gains(k, old, new, s, More(k, Head(old).op, ops))
         /\ More(k, Head(old).op, ops) \in Int
<1>1. PICK z, op, n, m : z = Tail(old) /\ op = Head(old).op /\ n = Weight(k, op) /\ m = Net(k, ops)
  OBVIOUS
<1>2. IsFrames(z, D) /\ s \in D /\ Gains(k, z, old, s, n)
  <2>1. /\ IsFrames(Tail(old), D) /\ Head(old).s \in D
        /\ Gains(k, Tail(old), old, Head(old).s, Weight(k, Head(old).op))
    BY GainsHead
  <2> QED BY <1>1, <2>1
<1>3. new = Frames(ops, s) \o z
  BY <1>1 DEF Goes
<1>4. IsFrames(new, D) /\ Gains(k, z, new, s, m)
  <2>1. /\ IsFrames(Frames(ops, s) \o z, D)
        /\ Gains(k, z, Frames(ops, s) \o z, s, Net(k, ops))
    BY <1>2, GainsConcat
  <2> QED BY <1>1, <1>3, <2>1
<1>5. n \in Int /\ m \in Int /\ m - n = More(k, op, ops)
  BY <1>1, NetInt, WeightInt DEF More
<1>6. Gains(k, old, new, s, m - n)
  BY <1>2, <1>4, <1>5, GainsInstead
<1> QED BY <1>1, <1>4, <1>5, <1>6

LEMMA ThenGains ==
  ASSUME NEW k, NEW T, NEW D, NEW K, NEW F, Sound(k, T, D, K, F),
         NEW t \in T, NEW op, At(t, op), NEW ops, IsList(ops), Then(t, ops)
  PROVE  \E old, new :
           /\ old = todo[t] /\ todo' = [todo EXCEPT ![t] = new] /\ IsFrames(new, D)
           /\ Gains(k, old, new, Slot(t), More(k, op, ops)) /\ More(k, op, ops) \in Int
<1>1. PICK A : todo \in Queues(T, Todo(A, D))
  BY DEF Sound, Running
<1>2. PICK old, new, s : /\ old = todo[t] /\ s = Slot(t) /\ new = Frames(ops, s) \o Tail(old)
  OBVIOUS
<1>3. IsFrames(old, D) /\ old # <<>> /\ Head(old).op = op /\ s = Head(old).s
  BY <1>1, <1>2 DEF Queues, IsFrames, At, Slot
<1>4. todo' = [todo EXCEPT ![t] = new]
  BY <1>1, <1>2 DEF Then, Queues
<1>5. /\ IsFrames(new, D) /\ Gains(k, old, new, s, More(k, op, ops))
      /\ More(k, op, ops) \in Int
  <2>1. Goes(old, new, s, ops)
    BY <1>2 DEF Goes
  <2> QED BY <1>3, <2>1, GoesGains
<1> QED BY <1>2, <1>4, <1>5

(* A thread goes on with ops, and only its field changes. *)
LEMMA LocalStep ==
  ASSUME NEW k, NEW T, IsFiniteSet(T), NEW D, NEW K, NEW F, Sound(k, T, D, K, F),
         NEW t \in T, NEW op, At(t, op), NEW ops, IsList(ops), Then(t, ops),
         UNCHANGED <<pending, port>>, Adds(k, D, F, Slot(t), More(k, op, ops)), SameIndex(D, F)
  PROVE  Balanced(k, T, D, K, F)
<1>1. PICK s : s = Slot(t)
  OBVIOUS
<1>2. PICK old, new :
        /\ old = todo[t] /\ todo' = [todo EXCEPT ![t] = new] /\ IsFrames(new, D)
        /\ Gains(k, old, new, Slot(t), More(k, op, ops)) /\ More(k, op, ops) \in Int
  BY ThenGains
<1>3. PICK n : n = More(k, op, ops)
  OBVIOUS
<1>4. n \in Int /\ Gains(k, old, new, s, n) /\ Adds(k, D, F, s, n)
  BY <1>1, <1>2, <1>3
<1> QED BY <1>2, <1>4, PutStep

LEMMA ThenTally ==
  ASSUME NEW k, NEW T, IsFiniteSet(T), NEW D, NEW K, NEW F, Sound(k, T, D, K, F),
         NEW t \in T, NEW op, At(t, op), NEW ops, IsList(ops), Then(t, ops)
  PROVE  \E Q, Q2, P, R, n :
           /\ Q = todo /\ Q2 = todo' /\ P = pending /\ R = port
           /\ n = More(k, op, ops) /\ n \in Int
           /\ Running(T, D, K, Q, P, R) /\ Running(T, D, K, Q2, P, R)
           /\ Shift(k, Q, P, R, Q2, P, R, Slot(t), n)
<1>1. PICK s, n : s = Slot(t) /\ n = More(k, op, ops)
  OBVIOUS
<1>2. PICK old, new :
        /\ old = todo[t] /\ todo' = [todo EXCEPT ![t] = new] /\ IsFrames(new, D)
        /\ Gains(k, old, new, Slot(t), More(k, op, ops)) /\ More(k, op, ops) \in Int
  BY ThenGains
<1>3. PICK Q, Q2, P, R : Q = todo /\ Q2 = todo' /\ P = pending /\ R = port
  OBVIOUS
<1>4. Running(T, D, K, Q, P, R) /\ Puts(Q, Q2, t, new) /\ Gains(k, Q[t], new, s, n) /\ n \in Int
  BY <1>1, <1>2, <1>3 DEF Sound, Puts
<1>5. Running(T, D, K, Q2, P, R) /\ Shift(k, Q, P, R, Q2, P, R, s, n)
  BY <1>2, <1>4, PutTally
<1> QED BY <1>1, <1>3, <1>4, <1>5

(* An operation of the slot starts. *)
LEMMA StartStep ==
  ASSUME NEW k, NEW T, IsFiniteSet(T), NEW D, NEW K, NEW F, Sound(k, T, D, K, F),
         NEW t \in T, NEW op, At(t, op), NEW ops, IsList(ops), Then(t, ops),
         NEW p, p \notin pending, p.s = Slot(t), p.op \in {"recv", "send"},
         pending' = pending \cup {p}, UNCHANGED port,
         Adds(k, D, F, Slot(t), More(k, op, ops) + Part(k, p.op)), SameIndex(D, F)
  PROVE  Balanced(k, T, D, K, F)
<1>1. PICK s : s = Slot(t) /\ s \in D
  BY AtOp
<1>2. PICK Q, Q2, P, R, n :
           /\ Q = todo /\ Q2 = todo' /\ P = pending /\ R = port
           /\ n = More(k, op, ops) /\ n \in Int
           /\ Running(T, D, K, Q, P, R) /\ Running(T, D, K, Q2, P, R)
           /\ Shift(k, Q, P, R, Q2, P, R, Slot(t), n)
  BY ThenTally
<1>3. PICK m, P2 : m = Part(k, p.op) /\ P2 = P \cup {p}
  OBVIOUS
<1>4. m \in Int
  BY <1>3, PartInt
<1>5. Running(T, D, K, Q2, P2, R) /\ Shift(k, Q2, P, R, Q2, P2, R, s, m)
  <2>1. p \notin P /\ p.s \in D
    BY <1>1, <1>2
  <2>2. Running(T, D, K, Q2, P2, R) /\ Shift(k, Q2, P, R, Q2, P2, R, p.s, Part(k, p.op))
    BY <1>2, <1>3, <2>1, FlightTally
  <2> QED BY <1>1, <1>3, <2>2
<1>6. Shift(k, Q, P, R, Q2, P2, R, s, n + m)
  BY <1>1, <1>2, <1>4, <1>5, ShiftTwice
<1>7. /\ Q2 = todo' /\ P2 = pending' /\ R = port' /\ Shift(k, todo, pending, port, Q2, P2, R, s, n + m)
      /\ Adds(k, D, F, s, n + m) /\ n + m \in Int
  BY <1>1, <1>2, <1>3, <1>4, <1>6
<1> QED BY <1>5, <1>7, StepBalanced

(* An operation is done. *)
LEMMA CompleteBalanced ==
  ASSUME NEW k, NEW T, IsFiniteSet(T), NEW D, NEW K, NEW F, Sound(k, T, D, K, F),
         {"recv", "send"} \subseteq K, NEW p, NEW n \in Nat, Complete(p, n),
         NEW s, Adds(k, D, F, s, 0), SameIndex(D, F)
  PROVE  Balanced(k, T, D, K, F)
<1>1. PICK Q, P, R, P2, R2 :
        /\ Q = todo /\ P = pending /\ R = port
        /\ P2 = P \ {p} /\ R2 = Append(R, PacketOf(p, n))
  OBVIOUS
<1>2. Running(T, D, K, Q, P, R) /\ p \in P /\ Q = todo' /\ P2 = pending' /\ R2 = port'
  BY <1>1 DEF Sound, Complete, PacketOf
<1>3. Running(T, D, K, Q, P2, R2) /\ Shift(k, Q, P, R, Q, P2, R2, s, 0)
  BY <1>1, <1>2, DoneTally
<1>4. Shift(k, todo, pending, port, Q, P2, R2, s, 0) /\ 0 \in Int
  BY <1>1, <1>3
<1> QED BY <1>2, <1>3, <1>4, StepBalanced

(* A worker takes a packet: what it does then counts what the packet counted. *)
LEMMA TakePacketBalanced ==
  ASSUME NEW k, NEW T, IsFiniteSet(T), NEW D, NEW K, NEW F, Sound(k, T, D, K, F), NEW w \in T,
         NEW ops, IsList(ops), TakePacket(w, ops), Net(k, ops) = Part(k, Head(port).op)
  PROVE  Balanced(k, T, D, K, F)
<1>1. /\ Running(T, D, K, todo, pending, port) /\ port # <<>> /\ port' = Tail(port)
      /\ todo[w] = <<>> /\ todo' = [todo EXCEPT ![w] = Frames(ops, Head(port).s)]
      /\ pending' = pending /\ sess' = sess
  BY DEF Sound, TakePacket, Idle
<1>2. PICK Q, Q2, P, R, e, R2 :
        /\ Q = todo /\ Q2 = todo' /\ P = pending /\ R = port /\ e = Head(R) /\ R2 = Tail(R)
  OBVIOUS
<1>3. Running(T, D, K, Q, P, R) /\ R # <<>>
  BY <1>1, <1>2
<1>4. PICK s, n, m : s = e.s /\ n = Part(k, e.op) /\ m = 0 - n
  OBVIOUS
<1>5. n \in Int /\ m \in Int /\ m + n = 0
  <2>1. n \in Int
    BY <1>4, PartInt
  <2> QED BY <1>4, <2>1
<1>6. e \in Packets(D, K) /\ Running(T, D, K, Q, P, R2) /\ Shift(k, Q, P, R, Q, P, R2, s, m)
  <2>1. /\ e \in Packets(D, K) /\ Running(T, D, K, Q, P, R2)
        /\ Shift(k, Q, P, R, Q, P, R2, e.s, 0 - Part(k, e.op))
    BY <1>2, <1>3, TakenTally
  <2> QED BY <1>4, <2>1
<1>7. s \in D
  BY <1>4, <1>6 DEF Packets
<1>8. PICK new : new = Frames(ops, s) \o <<>>
  OBVIOUS
<1>9. new = Frames(ops, s)
  <2>1. PICK A : ops \in Seq(A)
    BY DEF IsList
  <2>2. Frames(ops, s) \in Seq(Todo(A, D))
    BY <1>7, <2>1, FramesAre
  <2> QED BY <1>8, <2>2
<1>10. IsFrames(new, D) /\ Gains(k, <<>>, new, s, n)
  <2>1. IsFrames(<<>>, D)
    BY HeldEmpty
  <2>2. /\ IsFrames(Frames(ops, s) \o <<>>, D)
        /\ Gains(k, <<>>, Frames(ops, s) \o <<>>, s, Net(k, ops))
    BY <1>7, <2>1, GainsConcat
  <2>3. Net(k, ops) = n
    BY <1>2, <1>4
  <2> QED BY <1>8, <2>2, <2>3
<1>11. Puts(Q, Q2, w, new) /\ Gains(k, Q[w], new, s, n)
  BY <1>1, <1>2, <1>4, <1>9, <1>10 DEF Puts
<1>12. Running(T, D, K, Q2, P, R2) /\ Shift(k, Q, P, R2, Q2, P, R2, s, n)
  BY <1>5, <1>6, <1>10, <1>11, PutTally
<1>13. Shift(k, Q, P, R, Q2, P, R2, s, m + n)
  BY <1>3, <1>5, <1>6, <1>12, ShiftTwice
<1>14. /\ Q2 = todo' /\ P = pending' /\ R2 = port'
       /\ Shift(k, todo, pending, port, Q2, P, R2, s, 0) /\ 0 \in Int
  BY <1>1, <1>2, <1>5, <1>13
<1>15. Adds(k, D, F, s, 0) /\ SameIndex(D, F)
  BY <1>1 DEF Sound, Adds, SameIndex
<1> QED BY <1>12, <1>14, <1>15, StepBalanced

LEMMA StillBalanced ==
  ASSUME NEW k, NEW T, NEW D, NEW K, NEW F, Sound(k, T, D, K, F),
         UNCHANGED <<sess, todo, pending, port>>
  PROVE  Balanced(k, T, D, K, F)
<1>1. sess' = sess /\ todo' = todo /\ pending' = pending /\ port' = port
  OBVIOUS
<1>2. Sound(k, T, D, K, F)' /\ SameIndex(D, F)
  BY <1>1 DEF Sound, SameIndex
<1>3. ASSUME NEW s \in D PROVE Excess(k, s)' = Excess(k, s)
  BY <1>1 DEF Excess
<1> QED BY <1>2, <1>3 DEF Balanced

(* A call on slot s takes the place of the thread's frame. *)
LEMMA CallStep ==
  ASSUME NEW k, NEW T, IsFiniteSet(T), NEW D, NEW K, NEW F, Sound(k, T, D, K, F), NEW t \in T,
         NEW op, At(t, op), Weight(k, op) = 0, NEW ops, IsList(ops), Net(k, ops) = 0, NEW s \in D,
         todo' = [todo EXCEPT ![t] = Frames(ops, s) \o Tail(@)],
         UNCHANGED <<pending, port>>, NEW r, Adds(k, D, F, r, 0), SameIndex(D, F)
  PROVE  Balanced(k, T, D, K, F)
<1>1. PICK A : todo \in Queues(T, Todo(A, D))
  BY DEF Sound, Running
<1>2. PICK q, z, new : q = todo[t] /\ z = Tail(q) /\ new = Frames(ops, s) \o z
  OBVIOUS
<1>3. q # <<>> /\ Head(q).op = op /\ IsFrames(q, D)
  BY <1>1, <1>2, AtOp DEF Queues, IsFrames
<1>4. IsFrames(z, D) /\ Gains(k, z, q, Head(q).s, 0)
  <2>1. /\ IsFrames(Tail(q), D) /\ Head(q).s \in D
        /\ Gains(k, Tail(q), q, Head(q).s, Weight(k, Head(q).op))
    BY <1>3, GainsHead
  <2> QED BY <1>2, <1>3, <2>1
<1>5. IsFrames(new, D) /\ Gains(k, z, new, s, 0)
  <2>1. /\ IsFrames(Frames(ops, s) \o z, D)
        /\ Gains(k, z, Frames(ops, s) \o z, s, Net(k, ops))
    BY <1>4, GainsConcat
  <2> QED BY <1>2, <2>1
<1>6. Gains(k, q, new, r, 0)
  BY <1>4, <1>5, GainsNothing
<1>7. todo' = [todo EXCEPT ![t] = new]
  BY <1>1, <1>2 DEF Queues
<1>8. PICK n : n = 0 /\ n \in Int
  OBVIOUS
<1>9. Gains(k, q, new, r, n) /\ Adds(k, D, F, r, n)
  BY <1>6, <1>8
<1> QED BY <1>2, <1>5, <1>7, <1>8, <1>9, PutStep

(* A call comes in front of all of it. *)
LEMMA CallbackStep ==
  ASSUME NEW k, NEW T, IsFiniteSet(T), NEW D, NEW K, NEW F, Sound(k, T, D, K, F), NEW t \in T,
         NEW ops, IsList(ops), Net(k, ops) = 0, NEW s \in D,
         todo' = [todo EXCEPT ![t] = Frames(ops, s) \o @],
         UNCHANGED <<pending, port>>, NEW r, Adds(k, D, F, r, 0), SameIndex(D, F)
  PROVE  Balanced(k, T, D, K, F)
<1>1. PICK A : todo \in Queues(T, Todo(A, D))
  BY DEF Sound, Running
<1>2. PICK q, new : q = todo[t] /\ new = Frames(ops, s) \o q
  OBVIOUS
<1>3. IsFrames(q, D)
  BY <1>1, <1>2 DEF Queues, IsFrames
<1>4. IsFrames(new, D) /\ Gains(k, q, new, s, 0)
  <2>1. /\ IsFrames(Frames(ops, s) \o q, D)
        /\ Gains(k, q, Frames(ops, s) \o q, s, Net(k, ops))
    BY <1>3, GainsConcat
  <2> QED BY <1>2, <2>1
<1>5. Gains(k, q, q, s, 0)
  BY <1>3, GainsSame
<1>6. Gains(k, q, new, r, 0)
  BY <1>3, <1>4, <1>5, GainsNothing
<1>7. todo' = [todo EXCEPT ![t] = new]
  BY <1>1, <1>2 DEF Queues
<1>8. PICK n : n = 0 /\ n \in Int
  OBVIOUS
<1>9. Gains(k, q, new, r, n) /\ Adds(k, D, F, r, n)
  BY <1>6, <1>8
<1> QED BY <1>2, <1>4, <1>7, <1>8, <1>9, PutStep

(* A thread that was idle gets something to do. *)
LEMMA BeginStep ==
  ASSUME NEW k, NEW T, IsFiniteSet(T), NEW D, NEW K, NEW F, Sound(k, T, D, K, F), NEW t \in T,
         todo[t] = <<>>, NEW new, IsFrames(new, D), \A r : Held(k, new, r) = 0,
         todo' = [todo EXCEPT ![t] = new], UNCHANGED <<pending, port>>,
         NEW s, Adds(k, D, F, s, 0), SameIndex(D, F)
  PROVE  Balanced(k, T, D, K, F)
<1>1. PICK old : old = todo[t] /\ old = <<>>
  OBVIOUS
<1>2. Gains(k, old, new, s, 0)
  BY <1>1, HeldEmpty DEF Gains
<1>3. PICK n : n = 0 /\ n \in Int
  OBVIOUS
<1>4. Gains(k, old, new, s, n) /\ Adds(k, D, F, s, n)
  BY <1>2, <1>3
<1> QED BY <1>1, <1>3, <1>4, PutStep

(* A thread posts a packet for its slot. *)
LEMMA PostStep ==
  ASSUME NEW k, NEW T, IsFiniteSet(T), NEW D, NEW K, NEW F, Sound(k, T, D, K, F), NEW t \in T,
         NEW op, At(t, op), NEW ops, IsList(ops), Then(t, ops),
         NEW e \in Packets(D, K), e.s = Slot(t), port' = Append(port, e), UNCHANGED pending,
         Adds(k, D, F, Slot(t), More(k, op, ops) + Part(k, e.op)), SameIndex(D, F)
  PROVE  Balanced(k, T, D, K, F)
<1>1. PICK s : s = Slot(t)
  OBVIOUS
<1>2. PICK Q, Q2, P, R, n :
           /\ Q = todo /\ Q2 = todo' /\ P = pending /\ R = port
           /\ n = More(k, op, ops) /\ n \in Int
           /\ Running(T, D, K, Q, P, R) /\ Running(T, D, K, Q2, P, R)
           /\ Shift(k, Q, P, R, Q2, P, R, Slot(t), n)
  BY ThenTally
<1>3. PICK m, R2 : m = Part(k, e.op) /\ R2 = Append(R, e)
  OBVIOUS
<1>4. m \in Int
  BY <1>3, PartInt
<1>5. Running(T, D, K, Q2, P, R2) /\ Shift(k, Q2, P, R, Q2, P, R2, s, m)
  <2>1. Running(T, D, K, Q2, P, R2) /\ Shift(k, Q2, P, R, Q2, P, R2, e.s, Part(k, e.op))
    BY <1>2, <1>3, PostTally
  <2> QED BY <1>1, <1>3, <2>1
<1>6. Shift(k, Q, P, R, Q2, P, R2, s, n + m)
  BY <1>1, <1>2, <1>4, <1>5, ShiftTwice
<1>7. /\ Q2 = todo' /\ P = pending' /\ R2 = port' /\ Shift(k, todo, pending, port, Q2, P, R2, s, n + m)
      /\ Adds(k, D, F, s, n + m) /\ n + m \in Int
  BY <1>1, <1>2, <1>3, <1>4, <1>6
<1> QED BY <1>5, <1>7, StepBalanced

(* It posts packets that are not counted. *)
LEMMA QuitStep ==
  ASSUME NEW k, NEW T, IsFiniteSet(T), NEW D, NEW K, NEW F, Sound(k, T, D, K, F), NEW t \in T,
         NEW op, At(t, op), More(k, op, <<>>) = 0, Then(t, <<>>),
         NEW q \in Seq(Packets(D, K)), \A i \in 1 .. Len(q) : q[i].op \notin k.kernel,
         port' = port \o q, UNCHANGED pending, Adds(k, D, F, Slot(t), 0), SameIndex(D, F)
  PROVE  Balanced(k, T, D, K, F)
<1>1. IsList(<<>>)
  BY NetEmpty
<1>2. PICK Q, Q2, P, R, n :
           /\ Q = todo /\ Q2 = todo' /\ P = pending /\ R = port
           /\ n = More(k, op, <<>>) /\ n \in Int
           /\ Running(T, D, K, Q, P, R) /\ Running(T, D, K, Q2, P, R)
           /\ Shift(k, Q, P, R, Q2, P, R, Slot(t), n)
  BY <1>1, ThenTally
<1>3. PICK R2, s : R2 = R \o q /\ s = Slot(t)
  OBVIOUS
<1>4. Running(T, D, K, Q2, P, R2) /\ Shift(k, Q2, P, R, Q2, P, R2, s, 0)
  BY <1>2, <1>3, QuitTally
<1>5. Shift(k, Q, P, R, Q2, P, R, s, 0) /\ 0 \in Int
  BY <1>2, <1>3
<1>6. Shift(k, Q, P, R, Q2, P, R2, s, 0 + 0)
  BY <1>2, <1>4, <1>5, ShiftTwice
<1>7. /\ Q2 = todo' /\ P = pending' /\ R2 = port' /\ Shift(k, todo, pending, port, Q2, P, R2, s, 0)
      /\ Adds(k, D, F, s, 0)
  BY <1>2, <1>3, <1>6
<1> QED BY <1>4, <1>5, <1>7, StepBalanced

(* Over a balanced step the field stays as far from the tally as it was. *)
LEMMA BalancedExact ==
  ASSUME NEW k, NEW T, IsFiniteSet(T), NEW D, NEW K, NEW F, Sound(k, T, D, K, F),
         Balanced(k, T, D, K, F), NEW s \in D, NEW n \in Int,
         sess[s][k.field] = Tally(k, todo, pending, port, s) + n
  PROVE  sess'[s][k.field] = Tally(k, todo', pending', port', s) + n
<1>1. PICK f, Q, P, R, Q2, P2, R2 :
        /\ f = k.field /\ Q = todo /\ P = pending /\ R = port
        /\ Q2 = todo' /\ P2 = pending' /\ R2 = port'
  OBVIOUS
<1>2. Running(T, D, K, Q, P, R) /\ sess[s][f] \in Int
  BY <1>1 DEF Sound
<1>3. Running(T, D, K, Q2, P2, R2) /\ sess'[s][f] \in Int
  BY <1>1 DEF Balanced, Sound
<1>4. Tally(k, Q, P, R, s) \in Int /\ Tally(k, Q2, P2, R2, s) \in Int
  BY <1>2, <1>3, TallyInt
<1>5. sess'[s][f] - Tally(k, Q2, P2, R2, s) = sess[s][f] - Tally(k, Q, P, R, s)
  BY <1>1 DEF Balanced, Excess
<1>6. sess[s][f] = Tally(k, Q, P, R, s) + n
  BY <1>1
<1>7. sess'[s][f] = Tally(k, Q2, P2, R2, s) + n
  BY <1>2, <1>3, <1>4, <1>5, <1>6
<1> QED BY <1>1, <1>7
-----------------------------------------------------------------------------
(* What the operations of the engines count *)

LEMMA RefWeights ==
  /\ Weight(Refs, "release") = 1 /\ Weight(Refs, "flag") = 0
  /\ Weight(Refs, "shutdown") = 0 /\ Weight(Refs, "disc_cas") = 0
  /\ Weight(Refs, "recv_post") = 0 /\ Weight(Refs, "post_test") = 0
  /\ Weight(Refs, "post_cas") = 0 /\ Weight(Refs, "post_fill") = 0
  /\ Weight(Refs, "post_unset") = 0 /\ Weight(Refs, "wsa_send") = 0
  /\ Weight(Refs, "send_failed") = 0 /\ Weight(Refs, "free_sent") = 0
  /\ Weight(Refs, "flag_dec") = 0 /\ Weight(Refs, "callback") = 1
  /\ Weight(Refs, "acquire") = 0 /\ Weight(Refs, "check_id") = 1
  /\ Weight(Refs, "check_flag") = 1 /\ Weight(Refs, "push") = 0
  /\ Weight(Refs, "mark") = 0 /\ Weight(Refs, "cut_now") = 0
  /\ Weight(Refs, "wake_test") = 0 /\ Weight(Refs, "wake_look") = 0
  /\ Weight(Refs, "wake_cas") = 0
  /\ Weight(Refs, "leave") = 0 /\ Weight(Refs, "drain") = 0
  /\ Weight(Refs, "test_id") = 0 /\ Weight(Refs, "reclaim") = 0
  /\ Weight(Refs, "push_slot") = 0 /\ Weight(Refs, "on_recv") = 0
  /\ Weight(Refs, "count_reset") = 0 /\ Weight(Refs, "cut_test") = 0
  /\ Weight(Refs, "cut_flag") = 0 /\ Weight(Refs, "cut_cas") = 0
  /\ Weight(Refs, "disc_count") = 0 /\ Weight(Refs, "pop_slot") = 0
  /\ Weight(Refs, "insert") = 0 /\ Weight(Refs, "insert_flags") = 0
  /\ Weight(Refs, "insert_ref") = -1 /\ Weight(Refs, "insert_flag") = 0
  /\ Weight(Refs, "join") = 0 /\ Weight(Refs, "pqcs_dec") = 0
  /\ Weight(Refs, "pqcs_test") = 0 /\ Weight(Refs, "pqcs_queue") = 0
  /\ Weight(Refs, "exited") = 0 /\ Weight(Refs, "post_quit") = 0
  /\ Weight(Refs, "quits") = 0 /\ Weight(Refs, "wait") = 0
  /\ Weight(Refs, "send_test") = 0 /\ Weight(Refs, "conn_set") = 0
  /\ Weight(Refs, "conn_ref") = -1 /\ Weight(Refs, "renew") = 0
  /\ Weight(Refs, "conn_clear") = 0 /\ Weight(Refs, "conn_sock") = 0
BY DEF Weight, Refs, Holding, Owing

LEMMA SendWeights ==
  /\ Weight(Sends, "release") = 0 /\ Weight(Sends, "flag") = 0
  /\ Weight(Sends, "shutdown") = 0 /\ Weight(Sends, "disc_cas") = 0
  /\ Weight(Sends, "recv_post") = 0 /\ Weight(Sends, "post_test") = 0
  /\ Weight(Sends, "post_cas") = 0 /\ Weight(Sends, "post_fill") = 1
  /\ Weight(Sends, "post_unset") = 1 /\ Weight(Sends, "wsa_send") = 1
  /\ Weight(Sends, "send_failed") = 1 /\ Weight(Sends, "free_sent") = 0
  /\ Weight(Sends, "flag_dec") = 1 /\ Weight(Sends, "callback") = 0
  /\ Weight(Sends, "acquire") = 0 /\ Weight(Sends, "check_id") = 0
  /\ Weight(Sends, "check_flag") = 0 /\ Weight(Sends, "push") = 0
  /\ Weight(Sends, "mark") = 0 /\ Weight(Sends, "cut_now") = 0
  /\ Weight(Sends, "wake_test") = 0 /\ Weight(Sends, "wake_look") = 0
  /\ Weight(Sends, "wake_cas") = 0
  /\ Weight(Sends, "leave") = 0 /\ Weight(Sends, "drain") = 0
  /\ Weight(Sends, "test_id") = 0 /\ Weight(Sends, "reclaim") = 0
  /\ Weight(Sends, "push_slot") = 0 /\ Weight(Sends, "on_recv") = 0
  /\ Weight(Sends, "count_reset") = 0 /\ Weight(Sends, "cut_test") = 0
  /\ Weight(Sends, "cut_flag") = 0 /\ Weight(Sends, "cut_cas") = 0
  /\ Weight(Sends, "disc_count") = 0 /\ Weight(Sends, "pop_slot") = 0
  /\ Weight(Sends, "insert") = 0 /\ Weight(Sends, "insert_flags") = 0
  /\ Weight(Sends, "insert_ref") = 0 /\ Weight(Sends, "insert_flag") = 0
  /\ Weight(Sends, "join") = 0 /\ Weight(Sends, "pqcs_dec") = 0
  /\ Weight(Sends, "pqcs_test") = 0 /\ Weight(Sends, "pqcs_queue") = 0
  /\ Weight(Sends, "exited") = 0 /\ Weight(Sends, "post_quit") = 0
  /\ Weight(Sends, "quits") = 0 /\ Weight(Sends, "wait") = 0
  /\ Weight(Sends, "send_test") = 0 /\ Weight(Sends, "conn_set") = 0
  /\ Weight(Sends, "conn_ref") = 0 /\ Weight(Sends, "renew") = 0
  /\ Weight(Sends, "conn_clear") = 0 /\ Weight(Sends, "conn_sock") = 0
BY DEF Weight, Sends, SendOps

LEMMA Parts ==
  /\ Refs.field = "iocpCount" /\ Sends.field = "sendFlag"
  /\ Part(Refs, "recv") = 1 /\ Part(Refs, "send") = 1
  /\ Part(Refs, "pqcs") = 1 /\ Part(Refs, "quit") = 0
  /\ Part(Sends, "recv") = 0 /\ Part(Sends, "send") = 1
  /\ Part(Sends, "pqcs") = 0 /\ Part(Sends, "quit") = 0
BY DEF Part, Refs, Sends, Referring

(* A thread that goes on with nothing, or with one operation. *)
LEMMA MoreNone == \A k, op : IsList(<<>>) /\ More(k, op, <<>>) = 0 - Weight(k, op)
BY NetEmpty, WeightInt DEF More

LEMMA MoreOne ==
  \A k, op, a : IsList(<<a>>) /\ More(k, op, <<a>>) = Weight(k, a) - Weight(k, op)
BY NetOne, WeightInt DEF More

(* The steps of Sessions that leave the kernel alone, but for the socket: *)
(* the references.                                                        *)
LEMMA LocalBalanced ==
  ASSUME NEW T, IsFiniteSet(T), NEW D, NEW K, NEW F, Sound(Refs, T, D, K, F), NEW t \in T,
         \/ Release(t) \/ Flag(t) \/ Shutdown(t)
         \/ PostTest(t) \/ PostCAS(t) \/ PostFill(t) \/ PeekFill(t) \/ PostUnset(t)
         \/ SendFailed(t) \/ FreeSent(t) \/ FlagDec(t) \/ CallbackEnds(t)
  PROVE  Balanced(Refs, T, D, K, F)
<1>1. CASE Release(t)
  <2>1. /\ More(Refs, "release", <<>>) = -1 /\ IsList(<<>>)
        /\ More(Refs, "release", <<"disc_cas">>) = -1 /\ IsList(<<"disc_cas">>)
    BY MoreNone, MoreOne, RefWeights
  <2>2. PICK ops : Then(t, ops) /\ More(Refs, "release", ops) = -1 /\ IsList(ops)
    BY <1>1, <2>1 DEF Release
  <2>3. At(t, "release") /\ UNCHANGED <<pending, port>>
    BY <1>1 DEF Release, OnlyThread, OnlySession, kernel
  <2>4. Adds(Refs, D, F, Slot(t), -1) /\ SameIndex(D, F)
    BY <1>1, <2>3, AtOp, Parts DEF Release, OnlyThread, Sound, Adds, SameIndex
  <2> QED BY <2>2, <2>3, <2>4, LocalStep
<1>2. CASE Flag(t)
  <2>1. /\ More(Refs, "flag", <<>>) = 0 /\ IsList(<<>>)
    BY MoreNone, MoreOne, RefWeights
  <2>2. PICK ops : Then(t, ops) /\ More(Refs, "flag", ops) = 0 /\ IsList(ops)
    BY <1>2, <2>1 DEF Flag, Update
  <2>3. At(t, "flag") /\ UNCHANGED <<pending, port>>
    BY <1>2 DEF Flag, Update, OnlyThread, OnlySession, kernel
  <2>4. Adds(Refs, D, F, Slot(t), 0) /\ SameIndex(D, F)
    BY <1>2, <2>3, AtOp, Parts DEF Flag, Update, OnlyThread, Sound, Adds, SameIndex
  <2> QED BY <2>2, <2>3, <2>4, LocalStep
<1>3. CASE Shutdown(t)
  <2>1. /\ More(Refs, "shutdown", <<>>) = 0 /\ IsList(<<>>)
    BY MoreNone, MoreOne, RefWeights
  <2>2. PICK ops : Then(t, ops) /\ More(Refs, "shutdown", ops) = 0 /\ IsList(ops)
    BY <1>3, <2>1 DEF Shutdown
  <2>3. At(t, "shutdown") /\ UNCHANGED <<pending, port>>
    BY <1>3 DEF Shutdown, OnlyThread, OnlySession, kernel
  <2>4. Adds(Refs, D, F, Slot(t), 0) /\ SameIndex(D, F)
    BY <1>3, <2>3, AtOp, Parts DEF Shutdown, OnlyThread, Sound, Adds, SameIndex
  <2> QED BY <2>2, <2>3, <2>4, LocalStep
<1>4. CASE PostTest(t)
  <2>1. /\ More(Refs, "post_test", <<"post_cas">>) = 0 /\ IsList(<<"post_cas">>)
        /\ More(Refs, "post_test", <<>>) = 0 /\ IsList(<<>>)
    BY MoreNone, MoreOne, RefWeights
  <2>2. PICK ops : Then(t, ops) /\ More(Refs, "post_test", ops) = 0 /\ IsList(ops)
    BY <1>4, <2>1 DEF PostTest, Test
  <2>3. At(t, "post_test") /\ UNCHANGED <<pending, port>>
    BY <1>4 DEF PostTest, Test, OnlyThread, OnlySession, kernel
  <2>4. Adds(Refs, D, F, Slot(t), 0) /\ SameIndex(D, F)
    BY <1>4, <2>3, AtOp, Parts DEF PostTest, Test, OnlyThread, Sound, Adds, SameIndex
  <2> QED BY <2>2, <2>3, <2>4, LocalStep
<1>5. CASE PostCAS(t)
  <2>1. /\ More(Refs, "post_cas", <<"post_fill">>) = 0 /\ IsList(<<"post_fill">>)
        /\ More(Refs, "post_cas", <<>>) = 0 /\ IsList(<<>>)
    BY MoreNone, MoreOne, RefWeights
  <2>2. PICK ops : Then(t, ops) /\ More(Refs, "post_cas", ops) = 0 /\ IsList(ops)
    BY <1>5, <2>1 DEF PostCAS
  <2>3. At(t, "post_cas") /\ UNCHANGED <<pending, port>>
    BY <1>5 DEF PostCAS, OnlyThread, OnlySession, kernel
  <2>4. Adds(Refs, D, F, Slot(t), 0) /\ SameIndex(D, F)
    BY <1>5, <2>3, AtOp, Parts DEF PostCAS, OnlyThread, Sound, Adds, SameIndex
  <2> QED BY <2>2, <2>3, <2>4, LocalStep
<1>6. CASE PostFill(t)
  <2>1. /\ More(Refs, "post_fill", <<"post_unset">>) = 0 /\ IsList(<<"post_unset">>)
        /\ More(Refs, "post_fill", <<"wsa_send">>) = 0 /\ IsList(<<"wsa_send">>)
    BY MoreNone, MoreOne, RefWeights
  <2>2. PICK ops : Then(t, ops) /\ More(Refs, "post_fill", ops) = 0 /\ IsList(ops)
    BY <1>6, <2>1 DEF PostFill, AfterFill
  <2>3. At(t, "post_fill") /\ UNCHANGED <<pending, port>>
    BY <1>6 DEF PostFill, AfterFill, OnlyThread, OnlySession, kernel
  <2>4. Adds(Refs, D, F, Slot(t), 0) /\ SameIndex(D, F)
    BY <1>6, <2>3, AtOp, Parts DEF PostFill, AfterFill, OnlyThread, Sound, Adds, SameIndex
  <2> QED BY <2>2, <2>3, <2>4, LocalStep
<1>7. CASE PeekFill(t)
  <2>1. /\ More(Refs, "post_fill", <<"post_unset">>) = 0 /\ IsList(<<"post_unset">>)
        /\ More(Refs, "post_fill", <<"wsa_send">>) = 0 /\ IsList(<<"wsa_send">>)
    BY MoreNone, MoreOne, RefWeights
  <2>2. PICK ops : Then(t, ops) /\ More(Refs, "post_fill", ops) = 0 /\ IsList(ops)
    BY <1>7, <2>1 DEF PeekFill, AfterFill
  <2>3. At(t, "post_fill") /\ UNCHANGED <<pending, port>>
    BY <1>7 DEF PeekFill, AfterFill, OnlyThread, OnlySession, kernel
  <2>4. Adds(Refs, D, F, Slot(t), 0) /\ SameIndex(D, F)
    BY <1>7, <2>3, AtOp, Parts DEF PeekFill, AfterFill, OnlyThread, Sound, Adds, SameIndex
  <2> QED BY <2>2, <2>3, <2>4, LocalStep
<1>8. CASE PostUnset(t)
  <2>1. /\ More(Refs, "post_unset", <<>>) = 0 /\ IsList(<<>>)
    BY MoreNone, MoreOne, RefWeights
  <2>2. PICK ops : Then(t, ops) /\ More(Refs, "post_unset", ops) = 0 /\ IsList(ops)
    BY <1>8, <2>1 DEF PostUnset, Update
  <2>3. At(t, "post_unset") /\ UNCHANGED <<pending, port>>
    BY <1>8 DEF PostUnset, Update, OnlyThread, OnlySession, kernel
  <2>4. Adds(Refs, D, F, Slot(t), 0) /\ SameIndex(D, F)
    BY <1>8, <2>3, AtOp, Parts DEF PostUnset, Update, OnlyThread, Sound, Adds, SameIndex
  <2> QED BY <2>2, <2>3, <2>4, LocalStep
<1>9. CASE SendFailed(t)
  <2>1. /\ More(Refs, "send_failed", <<>>) = 0 /\ IsList(<<>>)
    BY MoreNone, MoreOne, RefWeights
  <2>2. PICK ops : Then(t, ops) /\ More(Refs, "send_failed", ops) = 0 /\ IsList(ops)
    BY <1>9, <2>1 DEF SendFailed, Update
  <2>3. At(t, "send_failed") /\ UNCHANGED <<pending, port>>
    BY <1>9 DEF SendFailed, Update, OnlyThread, OnlySession, kernel
  <2>4. Adds(Refs, D, F, Slot(t), 0) /\ SameIndex(D, F)
    BY <1>9, <2>3, AtOp, Parts DEF SendFailed, Update, OnlyThread, Sound, Adds, SameIndex
  <2> QED BY <2>2, <2>3, <2>4, LocalStep
<1>10. CASE FreeSent(t)
  <2>1. /\ More(Refs, "free_sent", <<>>) = 0 /\ IsList(<<>>)
    BY MoreNone, MoreOne, RefWeights
  <2>2. PICK ops : Then(t, ops) /\ More(Refs, "free_sent", ops) = 0 /\ IsList(ops)
    BY <1>10, <2>1 DEF FreeSent
  <2>3. At(t, "free_sent") /\ UNCHANGED <<pending, port>>
    BY <1>10 DEF FreeSent, OnlyThread, OnlySession, kernel
  <2>4. Adds(Refs, D, F, Slot(t), 0) /\ SameIndex(D, F)
    BY <1>10, <2>3, AtOp, Parts DEF FreeSent, OnlyThread, Sound, Adds, SameIndex
  <2> QED BY <2>2, <2>3, <2>4, LocalStep
<1>11. CASE FlagDec(t)
  <2>1. /\ More(Refs, "flag_dec", <<>>) = 0 /\ IsList(<<>>)
    BY MoreNone, MoreOne, RefWeights
  <2>2. PICK ops : Then(t, ops) /\ More(Refs, "flag_dec", ops) = 0 /\ IsList(ops)
    BY <1>11, <2>1 DEF FlagDec, Update
  <2>3. At(t, "flag_dec") /\ UNCHANGED <<pending, port>>
    BY <1>11 DEF FlagDec, Update, OnlyThread, OnlySession, kernel
  <2>4. Adds(Refs, D, F, Slot(t), 0) /\ SameIndex(D, F)
    BY <1>11, <2>3, AtOp, Parts DEF FlagDec, Update, OnlyThread, Sound, Adds, SameIndex
  <2> QED BY <2>2, <2>3, <2>4, LocalStep
<1>12. CASE CallbackEnds(t)
  <2>1. IsList(AfterCallback) /\ More(Refs, "callback", AfterCallback) = 0
    BY Net2, RefWeights DEF More, AfterCallback
  <2>2. At(t, "callback") /\ Then(t, AfterCallback) /\ UNCHANGED <<sess, pending, port>>
    BY <1>12 DEF CallbackEnds, OnlyThread, OnlySession, kernel
  <2>3. Adds(Refs, D, F, Slot(t), 0) /\ SameIndex(D, F)
    BY <2>2, Parts DEF Sound, Adds, SameIndex
  <2> QED BY <2>1, <2>2, <2>3, LocalStep
<1> QED BY <1>1, <1>2, <1>3, <1>4, <1>5, <1>6, <1>7, <1>8, <1>9, <1>10, <1>11, <1>12

LEMMA TakeFlagBalanced ==
  ASSUME NEW T, IsFiniteSet(T), NEW D, NEW K, NEW F, Sound(Refs, T, D, K, F), NEW t \in T,
         NEW ops, IsList(ops), Net(Refs, ops) = 0, TakeFlag(t, ops)
  PROVE  Balanced(Refs, T, D, K, F)
<1>1. At(t, "disc_cas") /\ UNCHANGED <<pending, port>>
  BY DEF TakeFlag, OnlySession, kernel
<1>2. More(Refs, "disc_cas", <<>>) = 0 /\ IsList(<<>>) /\ More(Refs, "disc_cas", ops) = 0
  BY MoreNone, RefWeights DEF More
<1>3. PICK new : Then(t, new) /\ More(Refs, "disc_cas", new) = 0 /\ IsList(new)
  BY <1>2 DEF TakeFlag
<1>4. Adds(Refs, D, F, Slot(t), 0) /\ SameIndex(D, F)
  BY <1>1, AtOp, Parts DEF TakeFlag, Sound, Adds, SameIndex
<1> QED BY <1>1, <1>3, <1>4, LocalStep

LEMMA RecvPostBalanced ==
  ASSUME NEW T, IsFiniteSet(T), NEW D, NEW K, NEW F, Sound(Refs, T, D, K, F), NEW t \in T, RecvPost(t)
  PROVE  Balanced(Refs, T, D, K, F)
<1>1. At(t, "recv_post") /\ ~Receiving(Slot(t)) /\ port' = port
  BY DEF RecvPost
<1>2. Adds(Refs, D, F, Slot(t), 1) /\ SameIndex(D, F)
  BY <1>1, AtOp, Parts DEF RecvPost, Sound, Adds, SameIndex
<1>3. CASE \E c : /\ pending' = pending \cup {[s |-> Slot(t), c |-> c, op |-> "recv", msgs |-> <<>>]}
                  /\ Then(t, <<>>)
  <2>1. PICK p : p.s = Slot(t) /\ p.op = "recv" /\ pending' = pending \cup {p} /\ Then(t, <<>>)
    BY <1>3
  <2>2. p \notin pending
    BY <1>1, <2>1 DEF Receiving
  <2>3. IsList(<<>>) /\ More(Refs, "recv_post", <<>>) + Part(Refs, p.op) = 1
    BY <2>1, MoreNone, RefWeights, Parts
  <2> QED BY <1>1, <1>2, <2>1, <2>2, <2>3, StartStep
<1>4. CASE Then(t, OnBroken) /\ UNCHANGED pending
  <2>1. IsList(OnBroken) /\ More(Refs, "recv_post", OnBroken) = 1
    BY Net3, RefWeights DEF OnBroken, More
  <2> QED BY <1>1, <1>2, <1>4, <2>1, LocalStep
<1> QED BY <1>3, <1>4 DEF RecvPost, OnBroken

LEMMA WSASendBalanced ==
  ASSUME NEW T, IsFiniteSet(T), NEW D, NEW K, NEW F, Sound(Refs, T, D, K, F), NEW t \in T, WSASend(t)
  PROVE  Balanced(Refs, T, D, K, F)
<1>1. At(t, "wsa_send") /\ ~Sending(Slot(t)) /\ port' = port
  BY DEF WSASend
<1>2. Adds(Refs, D, F, Slot(t), 1) /\ SameIndex(D, F)
  BY <1>1, AtOp, Parts DEF WSASend, Sound, Adds, SameIndex
<1>3. CASE \E c, m : /\ pending' = pending \cup {[s |-> Slot(t), c |-> c, op |-> "send", msgs |-> m]}
                     /\ Then(t, <<>>)
  <2>1. PICK p : p.s = Slot(t) /\ p.op = "send" /\ pending' = pending \cup {p} /\ Then(t, <<>>)
    BY <1>3
  <2>2. p \notin pending
    BY <1>1, <2>1 DEF Sending
  <2>3. IsList(<<>>) /\ More(Refs, "wsa_send", <<>>) + Part(Refs, p.op) = 1
    BY <2>1, MoreNone, RefWeights, Parts
  <2> QED BY <1>1, <1>2, <2>1, <2>2, <2>3, StartStep
<1>4. CASE Then(t, <<"send_failed", "flag", "shutdown", "release">>) /\ UNCHANGED pending
  <2>1. PICK ops : ops = <<"send_failed", "flag", "shutdown", "release">>
    OBVIOUS
  <2>2. IsList(ops) /\ More(Refs, "wsa_send", ops) = 1
    BY <2>1, Net4, RefWeights DEF More
  <2> QED BY <1>1, <1>2, <1>4, <2>1, <2>2, LocalStep
<1> QED BY <1>3, <1>4 DEF WSASend

(* At the start nothing is counted. *)
LEMMA TallyInit ==
  ASSUME NEW k, NEW T, IsFiniteSet(T), NEW D, NEW K, NEW Q, Q = [t \in T |-> <<>>],
         NEW P, P = {}, NEW R, R = <<>>
  PROVE  Running(T, D, K, Q, P, R) /\ \A r : Tally(k, Q, P, R, r) = 0
<1>1. IsFiniteSet(P) /\ R \in Seq(Packets(D, K))
  BY FS_EmptySet
<1>2. Q \in Queues(T, Todo({}, D))
  <2>1. <<>> \in Seq(Todo({}, D))
    OBVIOUS
  <2> QED BY <2>1 DEF Queues
<1>3. Running(T, D, K, Q, P, R)
  BY <1>1, <1>2 DEF Running
<1>4. ASSUME NEW O, NEW r
      PROVE  InThreads(Q, O, r) = 0 /\ InFlight(P, O, r) = 0 /\ InPort(R, O, r) = 0
  <2>1. \A t \in T : Occ(Q[t], FramesWith(O, r)) = 0
    BY OccEmpty
  <2>2. InThreads(Q, O, r) = 0
    BY <1>2, <2>1, TotalNone DEF InThreads
  <2>3. {p \in P : p.s = r /\ p.op \in O} = {}
    OBVIOUS
  <2> QED BY <2>2, <2>3, OccEmpty, FS_EmptySet DEF InPort, InFlight
<1> QED BY <1>3, <1>4 DEF Tally
LEMMA ReferencesTally == \A Q, P, R, s : References(Q, P, R, s) = Tally(Refs, Q, P, R, s)
BY DEF References, Tally, Refs

LEMMA SendersTally ==
  ASSUME NEW T, IsFiniteSet(T), NEW D, NEW K, NEW Q, NEW P, NEW R, Running(T, D, K, Q, P, R), NEW s
  PROVE  Senders(Q, P, R, s) = Tally(Sends, Q, P, R, s)
<1>1. PICK A : Q \in Queues(T, Todo(A, D))
  BY DEF Running
<1>2. FramesWith({}, s) = {}
  BY DEF FramesWith
<1>3. \A t \in T : Occ(Q[t], FramesWith({}, s)) = 0
  <2> TAKE t \in T
  <2>1. Q[t] \in Seq(Todo(A, D))
    BY <1>1 DEF Queues
  <2> QED BY <1>2, <2>1, PositionsFinite
<1>4. InThreads(Q, {}, s) = 0
  BY <1>1, <1>3, TotalNone DEF InThreads
<1>5. /\ InThreads(Q, SendOps, s) \in Nat /\ InFlight(P, {"send"}, s) \in Nat
      /\ InPort(R, {"send"}, s) \in Nat
  BY CountsNat
<1> QED BY <1>4, <1>5 DEF Senders, Tally, Sends

(* A thread at an operation of sendPost holds sendFlag. *)
LEMMA SenderCounts ==
  ASSUME NEW T, IsFiniteSet(T), NEW D, NEW K, NEW F, Sound(Sends, T, D, K, F),
         NEW t \in T, NEW op, op \in SendOps, At(t, op)
  PROVE  Tally(Sends, todo, pending, port, Slot(t)) >= 1
<1>1. PICK A, s : todo \in Queues(T, Todo(A, D)) /\ s = Slot(t)
  BY DEF Sound, Running
<1>2. todo[t] \in Seq(Todo(A, D)) /\ todo[t] # <<>> /\ Head(todo[t]).op = op /\ Head(todo[t]).s = s
  BY <1>1, AtOp DEF Queues, Slot
<1>3. PICK M : M = FramesWith(SendOps, s)
  OBVIOUS
<1>4. Head(todo[t]) \in M
  <2>1. Head(todo[t]) \in Todo(A, D)
    BY <1>2
  <2> QED BY <1>2, <1>3, <2>1 DEF Todo, FramesWith
<1>5. Occ(todo[t], M) \in Nat /\ Occ(todo[t], M) >= 1
  <2>1. PICK S : S = Todo(A, D)
    OBVIOUS
  <2>2. /\ Occ(Tail(todo[t]), M) \in Nat
        /\ Occ(todo[t], M) = IF Head(todo[t]) \in M THEN Occ(Tail(todo[t]), M) + 1
                             ELSE Occ(Tail(todo[t]), M)
    BY <1>2, <2>1, OccTail
  <2> QED BY <1>4, <2>2
<1>6. Total(todo, M) \in Nat /\ Total(todo, M) >= Occ(todo[t], M)
  BY <1>1, TotalAtLeast
<1>7. Running(T, D, K, todo, pending, port)
  BY DEF Sound
<1>8. Senders(todo, pending, port, s) = Tally(Sends, todo, pending, port, s)
  BY <1>7, SendersTally
<1>9. InFlight(pending, {"send"}, s) \in Nat /\ InPort(port, {"send"}, s) \in Nat
  BY <1>7, CountsNat
<1> QED BY <1>1, <1>3, <1>5, <1>6, <1>8, <1>9 DEF Senders, InThreads
-----------------------------------------------------------------------------
(* sendFlag: 1 while some thread or operation holds it, else 0. *)
Flags(D) == \A s \in D : sess[s].sendFlag \in {0, 1}
OneSender(D) ==
  Flags(D) /\ \A s \in D : sess[s].sendFlag = Tally(Sends, todo, pending, port, s)

LEMMA OneSenderNext ==
  ASSUME NEW T, IsFiniteSet(T), NEW D, NEW K, NEW F, Sound(Sends, T, D, K, F), OneSender(D),
         Balanced(Sends, T, D, K, F), Flags(D)'
  PROVE  OneSender(D)'
<1>1. ASSUME NEW s \in D PROVE sess'[s].sendFlag = Tally(Sends, todo', pending', port', s)
  <2>1. PICK n : n = 0 /\ n \in Int
    OBVIOUS
  <2>2. Tally(Sends, todo, pending, port, s) \in Int
    BY TallyInt DEF Sound
  <2>3. sess[s][Sends.field] = Tally(Sends, todo, pending, port, s) + n
    BY <2>1, <2>2, Parts DEF OneSender
  <2>4. sess'[s][Sends.field] = Tally(Sends, todo', pending', port', s) + n
    BY <2>1, <2>3, BalancedExact
  <2>5. PICK Q, P, R : Q = todo' /\ P = pending' /\ R = port'
    OBVIOUS
  <2>6. Running(T, D, K, Q, P, R)
    BY <2>5 DEF Balanced, Sound
  <2>7. Tally(Sends, Q, P, R, s) \in Int
    BY <2>6, TallyInt
  <2> QED BY <2>1, <2>4, <2>5, <2>7, Parts
<1> QED BY <1>1 DEF OneSender

LEMMA FlagHeld ==
  ASSUME NEW T, IsFiniteSet(T), NEW D, NEW K, NEW F, Sound(Sends, T, D, K, F), OneSender(D),
         NEW t \in T, NEW op, op \in SendOps, At(t, op)
  PROVE  sess[Slot(t)].sendFlag = 1
<1>1. Slot(t) \in D
  BY AtOp
<1> QED BY <1>1, SenderCounts DEF OneSender, Flags

(* The same steps, for sendFlag. *)
LEMMA SendsLocal ==
  ASSUME NEW T, IsFiniteSet(T), NEW D, NEW K, NEW F, Sound(Sends, T, D, K, F), OneSender(D),
         NEW t \in T,
         \/ Release(t) \/ Flag(t) \/ Shutdown(t)
         \/ PostTest(t) \/ PostCAS(t) \/ PostFill(t) \/ PeekFill(t) \/ PostUnset(t)
         \/ SendFailed(t) \/ FreeSent(t) \/ FlagDec(t) \/ CallbackEnds(t)
  PROVE  Balanced(Sends, T, D, K, F) /\ Flags(D)'
<1>1. CASE Release(t)
  <2>1. /\ More(Sends, "release", <<>>) = 0 /\ IsList(<<>>)
        /\ More(Sends, "release", <<"disc_cas">>) = 0 /\ IsList(<<"disc_cas">>)
    BY MoreNone, MoreOne, SendWeights
  <2>2. PICK ops : Then(t, ops) /\ More(Sends, "release", ops) = 0 /\ IsList(ops)
    BY <1>1, <2>1 DEF Release
  <2>3. At(t, "release") /\ UNCHANGED <<pending, port>>
    BY <1>1 DEF Release, OnlyThread, OnlySession, kernel
  <2>5. Adds(Sends, D, F, Slot(t), 0) /\ SameIndex(D, F)
    BY <1>1, <2>3, AtOp, Parts DEF Release, OnlyThread, Sound, Adds, SameIndex
  <2>6. Flags(D)'
    BY <1>1, <2>3, AtOp DEF Release, OnlyThread, Sound, OneSender, Flags
  <2> QED BY <2>2, <2>3, <2>5, <2>6, LocalStep
<1>2. CASE Flag(t)
  <2>1. /\ More(Sends, "flag", <<>>) = 0 /\ IsList(<<>>)
    BY MoreNone, MoreOne, SendWeights
  <2>2. PICK ops : Then(t, ops) /\ More(Sends, "flag", ops) = 0 /\ IsList(ops)
    BY <1>2, <2>1 DEF Flag, Update
  <2>3. At(t, "flag") /\ UNCHANGED <<pending, port>>
    BY <1>2 DEF Flag, Update, OnlyThread, OnlySession, kernel
  <2>5. Adds(Sends, D, F, Slot(t), 0) /\ SameIndex(D, F)
    BY <1>2, <2>3, AtOp, Parts DEF Flag, Update, OnlyThread, Sound, Adds, SameIndex
  <2>6. Flags(D)'
    BY <1>2, <2>3, AtOp DEF Flag, Update, OnlyThread, Sound, OneSender, Flags
  <2> QED BY <2>2, <2>3, <2>5, <2>6, LocalStep
<1>3. CASE Shutdown(t)
  <2>1. /\ More(Sends, "shutdown", <<>>) = 0 /\ IsList(<<>>)
    BY MoreNone, MoreOne, SendWeights
  <2>2. PICK ops : Then(t, ops) /\ More(Sends, "shutdown", ops) = 0 /\ IsList(ops)
    BY <1>3, <2>1 DEF Shutdown
  <2>3. At(t, "shutdown") /\ UNCHANGED <<pending, port>>
    BY <1>3 DEF Shutdown, OnlyThread, OnlySession, kernel
  <2>5. Adds(Sends, D, F, Slot(t), 0) /\ SameIndex(D, F)
    BY <1>3, <2>3, AtOp, Parts DEF Shutdown, OnlyThread, Sound, Adds, SameIndex
  <2>6. Flags(D)'
    BY <1>3, <2>3, AtOp DEF Shutdown, OnlyThread, Sound, OneSender, Flags
  <2> QED BY <2>2, <2>3, <2>5, <2>6, LocalStep
<1>4. CASE PostTest(t)
  <2>1. /\ More(Sends, "post_test", <<"post_cas">>) = 0 /\ IsList(<<"post_cas">>)
        /\ More(Sends, "post_test", <<>>) = 0 /\ IsList(<<>>)
    BY MoreNone, MoreOne, SendWeights
  <2>2. PICK ops : Then(t, ops) /\ More(Sends, "post_test", ops) = 0 /\ IsList(ops)
    BY <1>4, <2>1 DEF PostTest, Test
  <2>3. At(t, "post_test") /\ UNCHANGED <<pending, port>>
    BY <1>4 DEF PostTest, Test, OnlyThread, OnlySession, kernel
  <2>5. Adds(Sends, D, F, Slot(t), 0) /\ SameIndex(D, F)
    BY <1>4, <2>3, AtOp, Parts DEF PostTest, Test, OnlyThread, Sound, Adds, SameIndex
  <2>6. Flags(D)'
    BY <1>4, <2>3, AtOp DEF PostTest, Test, OnlyThread, Sound, OneSender, Flags
  <2> QED BY <2>2, <2>3, <2>5, <2>6, LocalStep
<1>5. CASE PostFill(t)
  <2>1. /\ More(Sends, "post_fill", <<"post_unset">>) = 0 /\ IsList(<<"post_unset">>)
        /\ More(Sends, "post_fill", <<"wsa_send">>) = 0 /\ IsList(<<"wsa_send">>)
    BY MoreNone, MoreOne, SendWeights
  <2>2. PICK ops : Then(t, ops) /\ More(Sends, "post_fill", ops) = 0 /\ IsList(ops)
    BY <1>5, <2>1 DEF PostFill, AfterFill
  <2>3. At(t, "post_fill") /\ UNCHANGED <<pending, port>>
    BY <1>5 DEF PostFill, AfterFill, OnlyThread, OnlySession, kernel
  <2>5. Adds(Sends, D, F, Slot(t), 0) /\ SameIndex(D, F)
    BY <1>5, <2>3, AtOp, Parts DEF PostFill, AfterFill, OnlyThread, Sound, Adds, SameIndex
  <2>6. Flags(D)'
    BY <1>5, <2>3, AtOp DEF PostFill, AfterFill, OnlyThread, Sound, OneSender, Flags
  <2> QED BY <2>2, <2>3, <2>5, <2>6, LocalStep
<1>6. CASE PeekFill(t)
  <2>1. /\ More(Sends, "post_fill", <<"post_unset">>) = 0 /\ IsList(<<"post_unset">>)
        /\ More(Sends, "post_fill", <<"wsa_send">>) = 0 /\ IsList(<<"wsa_send">>)
    BY MoreNone, MoreOne, SendWeights
  <2>2. PICK ops : Then(t, ops) /\ More(Sends, "post_fill", ops) = 0 /\ IsList(ops)
    BY <1>6, <2>1 DEF PeekFill, AfterFill
  <2>3. At(t, "post_fill") /\ UNCHANGED <<pending, port>>
    BY <1>6 DEF PeekFill, AfterFill, OnlyThread, OnlySession, kernel
  <2>5. Adds(Sends, D, F, Slot(t), 0) /\ SameIndex(D, F)
    BY <1>6, <2>3, AtOp, Parts DEF PeekFill, AfterFill, OnlyThread, Sound, Adds, SameIndex
  <2>6. Flags(D)'
    BY <1>6, <2>3, AtOp DEF PeekFill, AfterFill, OnlyThread, Sound, OneSender, Flags
  <2> QED BY <2>2, <2>3, <2>5, <2>6, LocalStep
<1>7. CASE PostUnset(t)
  <2>1. /\ More(Sends, "post_unset", <<>>) = -1 /\ IsList(<<>>)
    BY MoreNone, MoreOne, SendWeights
  <2>2. PICK ops : Then(t, ops) /\ More(Sends, "post_unset", ops) = -1 /\ IsList(ops)
    BY <1>7, <2>1 DEF PostUnset, Update
  <2>3. At(t, "post_unset") /\ UNCHANGED <<pending, port>>
    BY <1>7 DEF PostUnset, Update, OnlyThread, OnlySession, kernel
  <2>4. sess[Slot(t)].sendFlag = 1
    BY <2>3, FlagHeld DEF SendOps
  <2>5. Adds(Sends, D, F, Slot(t), -1) /\ SameIndex(D, F)
    BY <1>7, <2>4, <2>3, AtOp, Parts DEF PostUnset, Update, OnlyThread, Sound, Adds, SameIndex
  <2>6. Flags(D)'
    BY <1>7, <2>4, <2>3, AtOp DEF PostUnset, Update, OnlyThread, Sound, OneSender, Flags
  <2> QED BY <2>2, <2>3, <2>5, <2>6, LocalStep
<1>8. CASE SendFailed(t)
  <2>1. /\ More(Sends, "send_failed", <<>>) = -1 /\ IsList(<<>>)
    BY MoreNone, MoreOne, SendWeights
  <2>2. PICK ops : Then(t, ops) /\ More(Sends, "send_failed", ops) = -1 /\ IsList(ops)
    BY <1>8, <2>1 DEF SendFailed, Update
  <2>3. At(t, "send_failed") /\ UNCHANGED <<pending, port>>
    BY <1>8 DEF SendFailed, Update, OnlyThread, OnlySession, kernel
  <2>4. sess[Slot(t)].sendFlag = 1
    BY <2>3, FlagHeld DEF SendOps
  <2>5. Adds(Sends, D, F, Slot(t), -1) /\ SameIndex(D, F)
    BY <1>8, <2>4, <2>3, AtOp, Parts DEF SendFailed, Update, OnlyThread, Sound, Adds, SameIndex
  <2>6. Flags(D)'
    BY <1>8, <2>4, <2>3, AtOp DEF SendFailed, Update, OnlyThread, Sound, OneSender, Flags
  <2> QED BY <2>2, <2>3, <2>5, <2>6, LocalStep
<1>9. CASE FreeSent(t)
  <2>1. /\ More(Sends, "free_sent", <<>>) = 0 /\ IsList(<<>>)
    BY MoreNone, MoreOne, SendWeights
  <2>2. PICK ops : Then(t, ops) /\ More(Sends, "free_sent", ops) = 0 /\ IsList(ops)
    BY <1>9, <2>1 DEF FreeSent
  <2>3. At(t, "free_sent") /\ UNCHANGED <<pending, port>>
    BY <1>9 DEF FreeSent, OnlyThread, OnlySession, kernel
  <2>5. Adds(Sends, D, F, Slot(t), 0) /\ SameIndex(D, F)
    BY <1>9, <2>3, AtOp, Parts DEF FreeSent, OnlyThread, Sound, Adds, SameIndex
  <2>6. Flags(D)'
    BY <1>9, <2>3, AtOp DEF FreeSent, OnlyThread, Sound, OneSender, Flags
  <2> QED BY <2>2, <2>3, <2>5, <2>6, LocalStep
<1>10. CASE FlagDec(t)
  <2>1. /\ More(Sends, "flag_dec", <<>>) = -1 /\ IsList(<<>>)
    BY MoreNone, MoreOne, SendWeights
  <2>2. PICK ops : Then(t, ops) /\ More(Sends, "flag_dec", ops) = -1 /\ IsList(ops)
    BY <1>10, <2>1 DEF FlagDec, Update
  <2>3. At(t, "flag_dec") /\ UNCHANGED <<pending, port>>
    BY <1>10 DEF FlagDec, Update, OnlyThread, OnlySession, kernel
  <2>4. sess[Slot(t)].sendFlag = 1
    BY <2>3, FlagHeld DEF SendOps
  <2>5. Adds(Sends, D, F, Slot(t), -1) /\ SameIndex(D, F)
    BY <1>10, <2>4, <2>3, AtOp, Parts DEF FlagDec, Update, OnlyThread, Sound, Adds, SameIndex
  <2>6. Flags(D)'
    BY <1>10, <2>4, <2>3, AtOp DEF FlagDec, Update, OnlyThread, Sound, OneSender, Flags
  <2> QED BY <2>2, <2>3, <2>5, <2>6, LocalStep
<1>11. CASE PostCAS(t)
  <2>1. At(t, "post_cas") /\ UNCHANGED <<pending, port>> /\ Slot(t) \in D
    BY <1>11, AtOp DEF PostCAS, OnlySession, kernel
  <2>2. /\ More(Sends, "post_cas", <<>>) = 0 /\ IsList(<<>>)
        /\ More(Sends, "post_cas", <<"post_fill">>) = 1 /\ IsList(<<"post_fill">>)
    BY MoreNone, MoreOne, SendWeights
  <2>3. CASE sess[Slot(t)].sendFlag = 0
    <3>1. Then(t, <<"post_fill">>)
      BY <1>11, <2>3 DEF PostCAS, MaySend
    <3>2. Adds(Sends, D, F, Slot(t), 1) /\ SameIndex(D, F)
      BY <1>11, <2>1, <2>3, Parts DEF PostCAS, MaySend, Sound, Adds, SameIndex
    <3>3. Flags(D)'
      BY <1>11, <2>1, <2>3, Parts DEF PostCAS, MaySend, Sound, OneSender, Flags
    <3> QED BY <2>1, <2>2, <3>1, <3>2, <3>3, LocalStep
  <2>4. CASE sess[Slot(t)].sendFlag # 0
    <3>1. Then(t, <<>>) /\ UNCHANGED sess
      BY <1>11, <2>4 DEF PostCAS, MaySend
    <3>2. Adds(Sends, D, F, Slot(t), 0) /\ SameIndex(D, F)
      BY <3>1, <2>1, Parts DEF Sound, Adds, SameIndex
    <3>3. Flags(D)'
      BY <3>1 DEF OneSender, Flags
    <3> QED BY <2>1, <2>2, <3>1, <3>2, <3>3, LocalStep
  <2> QED BY <2>3, <2>4
<1>12. CASE CallbackEnds(t)
  <2>1. IsList(AfterCallback) /\ More(Sends, "callback", AfterCallback) = 0
    BY Net2, SendWeights DEF More, AfterCallback
  <2>2. At(t, "callback") /\ Then(t, AfterCallback) /\ UNCHANGED <<sess, pending, port>>
    BY <1>12 DEF CallbackEnds, OnlyThread, OnlySession, kernel
  <2>3. Adds(Sends, D, F, Slot(t), 0) /\ SameIndex(D, F) /\ Flags(D)'
    BY <2>2, Parts DEF Sound, Adds, SameIndex, OneSender, Flags
  <2> QED BY <2>1, <2>2, <2>3, LocalStep
<1> QED BY <1>1, <1>2, <1>3, <1>4, <1>5, <1>6, <1>7, <1>8, <1>9, <1>10, <1>11, <1>12

LEMMA SendsTakeFlag ==
  ASSUME NEW T, IsFiniteSet(T), NEW D, NEW K, NEW F, Sound(Sends, T, D, K, F), OneSender(D),
         NEW t \in T, NEW ops, IsList(ops), Net(Sends, ops) = 0, TakeFlag(t, ops)
  PROVE  Balanced(Sends, T, D, K, F) /\ Flags(D)'
<1>1. At(t, "disc_cas") /\ UNCHANGED <<pending, port>>
  BY DEF TakeFlag, OnlySession, kernel
<1>2. More(Sends, "disc_cas", <<>>) = 0 /\ IsList(<<>>) /\ More(Sends, "disc_cas", ops) = 0
  BY MoreNone, SendWeights DEF More
<1>3. PICK new : Then(t, new) /\ More(Sends, "disc_cas", new) = 0 /\ IsList(new)
  BY <1>2 DEF TakeFlag
<1>4. Adds(Sends, D, F, Slot(t), 0) /\ SameIndex(D, F)
  BY <1>1, AtOp, Parts DEF TakeFlag, Sound, Adds, SameIndex
<1>5. Flags(D)'
  <2>1. Slot(t) \in D
    BY <1>1, AtOp
  <2>2. CASE sess' = [sess EXCEPT ![Slot(t)].disconnectFlag = 0]
    BY <2>1, <2>2, Parts DEF Sound, OneSender, Flags
  <2>3. CASE UNCHANGED sess
    BY <2>3 DEF OneSender, Flags
  <2> QED BY <2>2, <2>3 DEF TakeFlag
<1> QED BY <1>1, <1>3, <1>4, <1>5, LocalStep

LEMMA SendsRecvPost ==
  ASSUME NEW T, IsFiniteSet(T), NEW D, NEW K, NEW F, Sound(Sends, T, D, K, F), OneSender(D),
         NEW t \in T, RecvPost(t)
  PROVE  Balanced(Sends, T, D, K, F) /\ Flags(D)'
<1>1. At(t, "recv_post") /\ ~Receiving(Slot(t)) /\ port' = port
  BY DEF RecvPost
<1>2. Adds(Sends, D, F, Slot(t), 0) /\ SameIndex(D, F)
  BY <1>1, AtOp, Parts DEF RecvPost, Sound, Adds, SameIndex
<1>3. Flags(D)'
  BY <1>1, AtOp DEF RecvPost, Sound, OneSender, Flags
<1>4. CASE \E c : /\ pending' = pending \cup {[s |-> Slot(t), c |-> c, op |-> "recv", msgs |-> <<>>]}
                  /\ Then(t, <<>>)
  <2>1. PICK p : p.s = Slot(t) /\ p.op = "recv" /\ pending' = pending \cup {p} /\ Then(t, <<>>)
    BY <1>4
  <2>2. p \notin pending
    BY <1>1, <2>1 DEF Receiving
  <2>3. IsList(<<>>) /\ More(Sends, "recv_post", <<>>) + Part(Sends, p.op) = 0
    BY <2>1, MoreNone, SendWeights, Parts
  <2> QED BY <1>1, <1>2, <1>3, <2>1, <2>2, <2>3, StartStep
<1>5. CASE Then(t, OnBroken) /\ UNCHANGED pending
  <2>1. IsList(OnBroken) /\ More(Sends, "recv_post", OnBroken) = 0
    BY Net3, SendWeights DEF OnBroken, More
  <2> QED BY <1>1, <1>2, <1>3, <1>5, <2>1, LocalStep
<1> QED BY <1>4, <1>5 DEF RecvPost, OnBroken

(* The operation in flight holds sendFlag, or the thread goes on to give it up. *)
LEMMA SendsWSASend ==
  ASSUME NEW T, IsFiniteSet(T), NEW D, NEW K, NEW F, Sound(Sends, T, D, K, F), OneSender(D),
         NEW t \in T, WSASend(t)
  PROVE  Balanced(Sends, T, D, K, F) /\ Flags(D)'
<1>1. At(t, "wsa_send") /\ ~Sending(Slot(t)) /\ port' = port
  BY DEF WSASend
<1>2. Adds(Sends, D, F, Slot(t), 0) /\ SameIndex(D, F)
  BY <1>1, AtOp, Parts DEF WSASend, Sound, Adds, SameIndex
<1>3. Flags(D)'
  BY <1>1, AtOp DEF WSASend, Sound, OneSender, Flags
<1>4. CASE \E c, m : /\ pending' = pending \cup {[s |-> Slot(t), c |-> c, op |-> "send", msgs |-> m]}
                     /\ Then(t, <<>>)
  <2>1. PICK p : p.s = Slot(t) /\ p.op = "send" /\ pending' = pending \cup {p} /\ Then(t, <<>>)
    BY <1>4
  <2>2. p \notin pending
    BY <1>1, <2>1 DEF Sending
  <2>3. IsList(<<>>) /\ More(Sends, "wsa_send", <<>>) + Part(Sends, p.op) = 0
    BY <2>1, MoreNone, SendWeights, Parts
  <2> QED BY <1>1, <1>2, <1>3, <2>1, <2>2, <2>3, StartStep
<1>5. CASE Then(t, <<"send_failed", "flag", "shutdown", "release">>) /\ UNCHANGED pending
  <2>1. PICK ops : ops = <<"send_failed", "flag", "shutdown", "release">>
    OBVIOUS
  <2>2. IsList(ops) /\ More(Sends, "wsa_send", ops) = 0
    BY <2>1, Net4, SendWeights DEF More
  <2> QED BY <1>1, <1>2, <1>3, <1>5, <2>1, <2>2, LocalStep
<1> QED BY <1>4, <1>5 DEF WSASend
=============================================================================
