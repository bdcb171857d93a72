---------------------------- MODULE Streams_proofs -----------------------------
(***************************************************************************)
(* That no item of the text is lost or repeated between the iterators of   *)
(* Streams, and that a target of the output holds what its iterator was    *)
(* given, for any texts and any number of failures and iterators.          *)
(***************************************************************************)
EXTENDS Streams, TLAPS

Phases == {"idle", "loop", "assign", "delimiter", "last delimiter", "increment"}

TypeInv ==
  /\ source \in [kind : SourceKinds, text : Texts, throws : BOOLEAN]
  /\ sink \in [kind : StreamSinks \cup Inserters, delim : BOOLEAN, throws : BOOLEAN]
  /\ sink.kind # "ostream" => ~sink.delim
  /\ pos \in Nat /\ good \in BOOLEAN /\ tmp \in Nat
  /\ in \in [state : {"none", "end", "live"}, item : Nat]
  /\ lost \subseteq 1 .. pos
  /\ handed \in Seq(Nat \ {0})
  /\ call \in [pc : Phases, n : Int]

(* An istream_iterator has read the last item that was extracted, and an   *)
(* istreambuf_iterator that is live has an item to read.                   *)
Position ==
  /\ pos <= Len(source.text)
  /\ in.state # "live" => in.item = 0
  /\ in.state = "live" => IF source.kind = "istream" THEN pos > 0 /\ in.item = pos
                          ELSE in.item = 0 /\ pos < Len(source.text)

(* Where a call is, what it still may read is there.                       *)
CallInv ==
  /\ call.pc = "assign" <=> tmp # 0
  /\ call.pc \in {"delimiter", "last delimiter"} => sink.delim
  /\ call.pc \in {"delimiter", "increment"} => in.state = "live" /\ (call.n = -1 \/ Readable(call.n))
  /\ call.pc = "loop" => in.state # "none" /\ (call.n \in {-1, 0} \/ Readable(call.n))
  /\ call.pc \in {"loop", "delimiter", "increment"} => call.n >= -1

(* How far what was written may be ahead of what was consumed.             *)
Ahead(item) ==
  \/ item <= pos
  \/ /\ item = pos + 1 /\ source.kind = "istreambuf"
     /\ MayRepeat \/ call.pc \in {"delimiter", "increment"}

Bound ==
  /\ \A i \in DOMAIN handed : Ahead(handed[i])
  /\ tmp # 0 => /\ tmp \in 1 .. pos
                /\ \A i \in DOMAIN handed : handed[i] < tmp \/ (MayRepeat /\ handed[i] = tmp)
                /\ in.item # tmp
  /\ call.pc \in {"delimiter", "increment"} /\ source.kind = "istreambuf" => pos + 1 \in HandedItems

IInv == TypeInv /\ Position /\ CallInv /\ Bound /\ ItemsOnce

-----------------------------------------------------------------------------
LEMMA InitIInv == Init => IInv
<1> SUFFICES ASSUME Init PROVE IInv
  OBVIOUS
<1> USE DEF Init, Idle, NoIterator, Phases
<1>1. Len(source.text) \in Nat
  BY StreamsAssumption
<1>2. TypeInv /\ Position /\ CallInv
  BY <1>1 DEF TypeInv, Position, CallInv, StreamSinks, Inserters
<1>3. Bound /\ ItemsOnce
  BY DEF Bound, ItemsOnce, HandedItems, Held
<1>4. QED
  BY <1>2, <1>3 DEF IInv

(* What the type invariant says of the text.                               *)
LEMMA Text == TypeInv => /\ Len(source.text) \in Nat /\ source.kind \in SourceKinds
                         /\ remaining \in Int /\ pos + 1 \in Nat
  BY StreamsAssumption DEF TypeInv, remaining

(* A call that does not move anything.                                     *)
LEMMA Unmoved ==
  ASSUME IInv, UNCHANGED <<settled, pos, good, in, tmp, lost, handed>>, CallInv',
         call' \in [pc : Phases, n : Int],
         call.pc \in {"delimiter", "increment"} <=> call'.pc \in {"delimiter", "increment"}
  PROVE  IInv'
<1> USE DEF IInv
<1>1. TypeInv' /\ Position'
  BY DEF TypeInv, Position, settled
<1>2. Bound'
  BY DEF Bound, Ahead, MayRepeat, HandedItems, settled
<1>3. Held' = Held
  BY DEF Held
<1>4. ItemsOnce'
  BY <1>3 DEF ItemsOnce, HandedItems, InOrder, MayRepeat, settled
<1>5. QED
  BY <1>1, <1>2, <1>4

(* One more item at the end of what was written.                           *)
LEMMA Appended ==
  ASSUME NEW S, NEW s \in Seq(S), NEW e \in S
  PROVE  /\ Append(s, e) \in Seq(S)
         /\ DOMAIN Append(s, e) = DOMAIN s \cup {Len(s) + 1}
         /\ \A i \in DOMAIN s : Append(s, e)[i] = s[i] /\ i < Len(s) + 1
         /\ Append(s, e)[Len(s) + 1] = e
         /\ Len(s) + 1 \notin DOMAIN s
  OBVIOUS

(* The iterator moves on and nothing is written: the item it read ahead,   *)
(* or the one in the result of a post-increment, is the only one held.     *)
LEMMA Increment == IInv /\ increment => IInv'
<1> SUFFICES ASSUME IInv, increment PROVE IInv'
  OBVIOUS
<1> USE DEF IInv, increment, next, next_istream, next_istreambuf, Live, AtEnd, input, output, settled
<1>0. Len(source.text) \in Nat /\ source.kind \in SourceKinds
  BY Text
<1>1. TypeInv'
  <2>1. pos' \in {pos, pos + 1} /\ good' \in BOOLEAN /\ in' \in [state : {"none", "end", "live"}, item : Nat]
    <3>1. pos \in Nat /\ good \in BOOLEAN
      BY DEF TypeInv
    <3>2. pos' \in {pos, pos + 1} /\ in' \in {Live(pos + 1), Live(0), AtEnd} /\ good' \in {good, FALSE}
      BY DEF increment
    <3>3. good' \in BOOLEAN
      BY <3>1, <3>2
    <3>4. {Live(pos + 1), Live(0), AtEnd} \subseteq [state : {"none", "end", "live"}, item : Nat]
      BY <3>1
    <3>5. QED
      BY <3>2, <3>3, <3>4
  <2>2. lost' \subseteq 1 .. pos'
    BY <2>1 DEF TypeInv
  <2>3. call' \in [pc : Phases, n : Int]
    <3>1. call.n \in Int
      BY DEF TypeInv
    <3>2. QED
      BY <3>1 DEF Phases
  <2>4. QED
    BY <2>1, <2>2, <2>3 DEF TypeInv
<1>2. Position'
  BY <1>0 DEF TypeInv, Position, Extracts, remaining
<1>3. CallInv'
  <2>1. ASSUME call.n > 0 PROVE call'.n = 0 \/ Readable(call.n)'
    <3>1. Readable(call.n)
      BY <2>1 DEF CallInv, TypeInv
    <3>2. CASE source.kind = "istreambuf"
      BY <3>1, <3>2, <2>1, <1>0 DEF Readable, remaining, TypeInv
    <3>3. CASE source.kind = "istream" /\ call.n > 1
      <4>1. Extracts
        BY <3>1, <3>3, <1>0 DEF Readable, Extracts, remaining, TypeInv
      <4>2. call.n - 2 <= remaining - 1 /\ remaining' = remaining - 1
        BY <3>1, <3>3, <4>1, <1>0 DEF Readable, remaining, TypeInv
      <4>3. ASSUME NEW k \in 1 .. call.n - 2 PROVE good' /\ source'.text[pos' + k] = "item"
        <5>1. k + 1 \in 1 .. call.n - 1 /\ pos + (k + 1) = (pos + 1) + k
          BY <3>3 DEF TypeInv
        <5>2. good /\ source.text[pos + (k + 1)] = "item"
          BY <3>1, <3>3, <5>1 DEF Readable
        <5>3. source' = source /\ pos' = pos + 1 /\ good' = good
          BY <4>1, <3>3
        <5>4. QED
          BY <5>1, <5>2, <5>3
      <4>4. QED
        BY <3>3, <4>1, <4>2, <4>3, <1>0 DEF Readable, TypeInv
    <3>4. QED
      BY <2>1, <3>2, <3>3, <1>0 DEF TypeInv, SourceKinds
  <2>2. tmp' = 0 /\ in'.state # "none" /\ call'.pc = "loop"
    BY <1>0 DEF CallInv
  <2>3. call.n \in Int /\ call.n >= -1
    BY DEF CallInv, TypeInv
  <2>4. call'.n \in {-1, 0} \/ Readable(call.n)'
    <3>1. CASE call.n > 0
      BY <2>1, <3>1
    <3>2. CASE ~(call.n > 0)
      BY <2>3, <3>2
    <3>3. QED
      BY <3>1, <3>2
  <2>5. call'.n >= -1
    BY <2>3
  <2>6. QED
    BY <2>2, <2>4, <2>5 DEF CallInv
<1>4. Bound'
  BY <1>0 DEF Bound, Ahead, MayRepeat, CallInv, TypeInv, HandedItems
<1>5. ItemsOnce'
  <2>1. HandedItems' = HandedItems /\ Held = {}
    BY DEF HandedItems, Held, CallInv
  <2>2. Held' = IF source.kind = "istream" /\ Extracts THEN {pos + 1} ELSE {}
    BY <1>0 DEF Held, CallInv, TypeInv
  <2>3. \A i, j \in DOMAIN handed : i < j => InOrder(i, j)'
    BY DEF ItemsOnce, InOrder, MayRepeat
  <2>4. 1 .. pos' \subseteq HandedItems \cup Held' \cup lost
    BY <1>0, <2>1, <2>2 DEF ItemsOnce, Bound, TypeInv
  <2>5. Held' \cap (HandedItems \cup lost) = {}
    BY <1>0, <2>2 DEF Bound, Ahead, HandedItems, TypeInv
  <2>6. QED
    BY <2>1, <2>3, <2>4, <2>5 DEF ItemsOnce, MayRepeat
<1>6. QED
  BY <1>1, <1>2, <1>3, <1>4, <1>5

(* The loop goes on with an iterator that has something to read.           *)
LEMMA InLoop ==
  ASSUME IInv, call.pc = "loop", ~AtBound
  PROVE  in.state = "live" /\ tmp = 0 /\ call.n \in Int /\ call.n >= -1 /\ (call.n = -1 \/ Readable(call.n))
<1> USE DEF IInv
<1>1. call.n \in Int /\ call.n >= -1 /\ tmp = 0 /\ in.state \in {"end", "live"}
  BY DEF CallInv, TypeInv
<1>2. call.n = -1 => in.state # "end"
  BY DEF AtBound
<1>3. call.n # -1 => Readable(call.n)
  BY <1>1 DEF CallInv, AtBound
<1>4. call.n # -1 => in.state = "live"
  BY <1>3 DEF Readable
<1>5. QED
  BY <1>1, <1>2, <1>3, <1>4

(* What is written comes after everything that was written before.         *)
LEMMA Assign == IInv /\ assign => IInv'
<1> SUFFICES ASSUME IInv, assign PROVE IInv'
  OBVIOUS
<1> USE DEF IInv
<1> DEFINE item == Item
<1>0. Len(source.text) \in Nat /\ source.kind \in SourceKinds /\ remaining \in Int
  BY Text
<1>1. /\ handed' = Append(handed, item) /\ tmp' = 0
      /\ source' = source /\ sink' = sink
      /\ pos' = pos /\ good' = good /\ in' = in /\ lost' = lost
  BY DEF assign, write, settled
<1>2. /\ call' \in [pc : Phases, n : Int]
      /\ \/ call.pc = "loop" /\ ~AtBound /\ call'.pc \in {"delimiter", "increment"} /\ call'.n = call.n
         \/ call.pc = "assign" /\ call'.pc \in {"last delimiter", "idle"}
      /\ call'.pc \in {"delimiter", "last delimiter"} => sink.delim
  <2>1. call \in [pc : Phases, n : Int] /\ Writing
    BY DEF assign, TypeInv
  <2>2. CASE call.pc = "loop"
    BY <2>1, <2>2 DEF assign, Phases, Writing
  <2>3. CASE call.pc = "assign" /\ sink.delim
    BY <2>1, <2>3 DEF assign, Phases
  <2>4. CASE call.pc = "assign" /\ ~sink.delim
    <3>1. call' = Idle
      BY <2>4 DEF assign
    <3>2. Idle \in [pc : Phases, n : Int] /\ Idle.pc = "idle"
      BY DEF Idle, Phases
    <3>3. QED
      BY <2>4, <3>1, <3>2
  <2>5. QED
    BY <2>1, <2>2, <2>3, <2>4 DEF Writing
<1>3. CallInv'
  <2>1. CASE call.pc = "assign"
    BY <1>1, <1>2, <2>1 DEF CallInv
  <2>2. CASE call.pc = "loop"
    <3>1. in.state = "live" /\ call.n >= -1 /\ (call.n = -1 \/ Readable(call.n)) /\ call.n \in Int
      BY <1>2, <2>2, InLoop
    <3>2. Readable(call.n)' <=> Readable(call.n)
      BY <1>1, <1>2, <2>2 DEF Readable, remaining
    <3>3. QED
      BY <1>1, <1>2, <2>2, <3>1, <3>2 DEF CallInv
  <2>3. QED
    BY <1>2, <2>1, <2>2
<1>4. /\ item \in Nat \ {0}
      /\ \/ item <= pos
         \/ item = pos + 1 /\ source.kind = "istreambuf" /\ call'.pc \in {"delimiter", "increment"}
      /\ \A i \in DOMAIN handed : handed[i] < item \/ (MayRepeat /\ handed[i] = item)
      /\ item \notin lost
      /\ Held \subseteq Held' \cup {item}
      /\ Held' \subseteq Held \ {item}
  <2>1. CASE call.pc = "assign"
    <3>1. item = tmp /\ tmp # 0
      BY <2>1 DEF Item, CallInv
    <3>2. tmp \in Held /\ tmp \in 1 .. pos
      BY <3>1 DEF Held, Bound
    <3>3. Held' = Held \ {tmp}
      BY <1>1, <1>2, <2>1, <3>1 DEF Held, Bound
    <3>4. QED
      BY <3>1, <3>2, <3>3 DEF Bound, ItemsOnce, TypeInv
  <2>2. CASE call.pc = "loop"
    <3>1. tmp = 0 /\ in.state = "live" /\ item = read /\ call'.pc \in {"delimiter", "increment"}
      BY <1>2, <2>2, InLoop DEF Item
    <3>2. Held' = {}
      BY <1>1, <3>1 DEF Held
    <3>3. CASE source.kind = "istream"
      <4>1. item = pos /\ Held = {pos} /\ pos > 0
        BY <2>2, <3>1, <3>3 DEF read, Held, Position, TypeInv
      <4>2. \A i \in DOMAIN handed : handed[i] <= pos /\ handed[i] # pos /\ handed[i] \in Nat
        BY <3>3, <4>1 DEF Bound, Ahead, ItemsOnce, HandedItems, MayRepeat, TypeInv
      <4>3. QED
        BY <3>2, <4>1, <4>2 DEF ItemsOnce, TypeInv
    <3>4. CASE source.kind = "istreambuf"
      <4>1. item = pos + 1 /\ Held = {}
        BY <2>2, <3>1, <3>4, <1>0 DEF read, Held, Position
      <4>2. \A i \in DOMAIN handed : handed[i] \in Nat /\ (handed[i] <= pos \/ (MayRepeat /\ handed[i] = pos + 1))
        BY <2>2 DEF Bound, Ahead, TypeInv
      <4>3. QED
        BY <3>1, <3>2, <3>4, <4>1, <4>2 DEF TypeInv
    <3>5. QED
      BY <1>0, <3>3, <3>4 DEF SourceKinds
  <2>3. QED
    BY <1>2, <2>1, <2>2
<1> HIDE DEF item
<1>5. /\ handed' \in Seq(Nat \ {0})
      /\ DOMAIN handed' = DOMAIN handed \cup {Len(handed) + 1}
      /\ \A i \in DOMAIN handed : handed'[i] = handed[i] /\ i < Len(handed) + 1
      /\ handed'[Len(handed) + 1] = item
      /\ Len(handed) + 1 \notin DOMAIN handed
  BY <1>1, <1>4, Appended DEF TypeInv
<1>6. HandedItems' = HandedItems \cup {item}
  BY <1>5 DEF HandedItems
<1>7. TypeInv' /\ Position'
  BY <1>1, <1>2, <1>5 DEF TypeInv, Position
<1>8. Bound'
  <2>1. \A i \in DOMAIN handed' : Ahead(handed[i])'
    <3>1. ASSUME NEW i \in DOMAIN handed PROVE Ahead(handed[i])'
      <4>1. Ahead(handed[i]) /\ handed'[i] = handed[i]
        BY <1>5 DEF Bound
      <4>2. QED
        BY <1>1, <1>2, <4>1 DEF Ahead, MayRepeat
    <3>2. ASSUME NEW i, i = Len(handed) + 1 PROVE Ahead(handed[i])'
      <4>1. handed'[i] = item
        BY <1>5, <3>2
      <4>2. QED
        BY <1>1, <1>2, <1>4, <4>1 DEF Ahead, MayRepeat
    <3>3. QED
      BY <1>5, <3>1, <3>2
  <2>2. call'.pc \in {"delimiter", "increment"} /\ source.kind = "istreambuf" => item = pos + 1
    BY <1>2, <1>4 DEF item, Item, read
  <2>3. QED
    BY <1>1, <1>6, <2>1, <2>2 DEF Bound
<1>9. ItemsOnce'
  <2>1. ASSUME NEW i \in DOMAIN handed', NEW j \in DOMAIN handed', i < j PROVE InOrder(i, j)'
    <3>1. i \in DOMAIN handed
      BY <1>5, <2>1 DEF TypeInv
    <3>2. CASE j \in DOMAIN handed
      BY <1>1, <1>5, <2>1, <3>1, <3>2 DEF ItemsOnce, InOrder, MayRepeat
    <3>3. CASE j = Len(handed) + 1
      BY <1>1, <1>4, <1>5, <3>1, <3>3 DEF InOrder, MayRepeat
    <3>4. QED
      BY <1>5, <3>2, <3>3
  <2>2. 1 .. pos \subseteq HandedItems' \cup Held' \cup lost
    BY <1>4, <1>6 DEF ItemsOnce
  <2>3. MayRepeat \/ HandedItems' \cap (Held' \cup lost) = {}
    BY <1>4, <1>6 DEF ItemsOnce
  <2>4. Held' \cap lost = {}
    BY <1>4 DEF ItemsOnce
  <2>5. QED
    BY <1>1, <2>1, <2>2, <2>3, <2>4 DEF ItemsOnce, MayRepeat
<1>10. QED
  BY <1>3, <1>7, <1>8, <1>9

(* A call that throws, or an iterator that is replaced, takes what was     *)
(* held with it: it is lost and not written again.                         *)
LEMMA Dropped ==
  ASSUME IInv, UNCHANGED <<settled, pos, handed>>, good' \in BOOLEAN,
         in' \in {in, NoIterator, AtEnd} \/ (source.kind = "istreambuf" /\ in' = Live(0) /\ remaining > 0),
         lost' = lost \cup Held, tmp' = 0, call' = Idle,
         Held' = {}, Ready \/ source.kind = "istream" \/ ~(call.pc \in {"increment", "delimiter"}) \/ MayRepeat
  PROVE  IInv'
<1> USE DEF IInv
<1>0. Len(source.text) \in Nat
  BY Text
<1>1. TypeInv'
  <2>1. Held \subseteq 1 .. pos
    BY DEF Held, Position, Bound, TypeInv, SourceKinds
  <2>2. in' \in [state : {"none", "end", "live"}, item : Nat]
    BY DEF TypeInv, NoIterator, AtEnd, Live
  <2>3. Idle \in [pc : Phases, n : Int]
    BY DEF Idle, Phases
  <2>4. QED
    BY <2>1, <2>2, <2>3 DEF TypeInv, settled
<1>2. Position'
  BY <1>0 DEF Position, TypeInv, settled, NoIterator, AtEnd, Live, remaining
<1>3. CallInv'
  BY DEF CallInv, Idle
<1>4. Bound'
  BY DEF Bound, Ahead, MayRepeat, Idle, settled, Ready
<1>5. ItemsOnce'
  <2>1. HandedItems' = HandedItems
    BY DEF HandedItems
  <2>2. QED
    BY <2>1 DEF ItemsOnce, InOrder, MayRepeat, settled
<1>6. QED
  BY <1>1, <1>2, <1>3, <1>4, <1>5

(* A buffer throws when it has consumed a character, which then is written *)
(* or lost; it may also have been written before and not been consumed.    *)
LEMMA Consumed ==
  ASSUME IInv, UNCHANGED <<settled, handed, good>>, pos' = pos + 1, in' = NoIterator,
         source.kind = "istreambuf", source.throws, in.state = "live",
         tmp' = 0, tmp = 0, call' = Idle,
         \/ lost' = lost \cup {pos + 1}
         \/ lost' = lost /\ call.pc = "increment"
  PROVE  IInv'
<1> USE DEF IInv
<1>0. Len(source.text) \in Nat /\ pos \in Nat /\ MayRepeat /\ MayRepeat'
  BY Text DEF TypeInv, MayRepeat, settled
<1>1. TypeInv'
  <2>1. in' \in [state : {"none", "end", "live"}, item : Nat] /\ call' \in [pc : Phases, n : Int]
    BY DEF NoIterator, Idle, Phases
  <2>2. lost' \subseteq 1 .. pos'
    <3>1. lost \subseteq 1 .. pos /\ lost' \subseteq lost \cup {pos + 1}
      BY DEF TypeInv
    <3>2. 1 .. pos' = (1 .. pos) \cup {pos + 1}
      BY <1>0
    <3>3. QED
      BY <3>1, <3>2
  <2>3. QED
    BY <1>0, <2>1, <2>2 DEF TypeInv, settled
<1>2. Position'
  BY <1>0 DEF Position, NoIterator, settled
<1>3. CallInv'
  BY DEF CallInv, Idle
<1>4. HandedItems' = HandedItems /\ Held = {} /\ Held' = {}
  BY DEF HandedItems, Held, Position, NoIterator
<1>5. Bound'
  <2>1. \A i \in DOMAIN handed : Ahead(handed[i])'
    BY <1>0 DEF Bound, Ahead, TypeInv, settled
  <2>2. QED
    BY <2>1 DEF Bound, Idle
<1>6. ItemsOnce'
  <2>1. pos + 1 \in HandedItems \cup lost'
    BY DEF Bound
  <2>2. 1 .. pos' \subseteq HandedItems \cup lost'
    BY <1>0, <1>4, <2>1 DEF ItemsOnce
  <2>3. \A i, j \in DOMAIN handed : i < j => InOrder(i, j)'
    BY <1>0 DEF ItemsOnce, InOrder
  <2>4. QED
    BY <1>0, <1>4, <2>2, <2>3 DEF ItemsOnce
<1>7. QED
  BY <1>1, <1>2, <1>3, <1>5, <1>6

(* A new iterator reads at once; what the old one held is lost.            *)
LEMMA MakeInput == IInv /\ make_input => IInv'
<1> SUFFICES ASSUME IInv, make_input PROVE IInv'
  OBVIOUS
<1> USE DEF IInv, Idle
<1>0. /\ Len(source.text) \in Nat /\ call' = call /\ call = Idle /\ tmp' = 0 /\ lost' = lost \cup Held
      /\ UNCHANGED <<source, sink, handed>>
  BY Text DEF make_input, Make, Ready, settled, output
<1>1. CASE next_istream /\ Extracts
  <2>1. pos' = pos + 1 /\ good' = good /\ in' = Live(pos + 1) /\ source.kind = "istream"
    BY <1>1 DEF next_istream
  <2>2. Held \subseteq 1 .. pos /\ Held' = {pos + 1}
    BY <1>0, <2>1 DEF Held, Position, Bound, TypeInv, Live
  <2>3. TypeInv'
    <3>1. in' \in [state : {"none", "end", "live"}, item : Nat]
      BY <2>1 DEF TypeInv, Live
    <3>2. lost' \subseteq 1 .. pos'
      BY <1>0, <2>1, <2>2 DEF TypeInv
    <3>3. QED
      BY <1>0, <2>1, <3>1, <3>2 DEF TypeInv
  <2>4. Position'
    BY <1>0, <1>1, <2>1 DEF Position, Live, TypeInv, Extracts, remaining
  <2>5. CallInv'
    BY <1>0 DEF CallInv
  <2>6. Bound'
    BY <1>0, <2>1 DEF Bound, Ahead, MayRepeat, TypeInv, Live
  <2>7. ItemsOnce'
    <3>1. HandedItems' = HandedItems
      BY <1>0 DEF HandedItems
    <3>2. \A i, j \in DOMAIN handed : i < j => InOrder(i, j)'
      BY <1>0 DEF ItemsOnce, InOrder, MayRepeat
    <3>3. pos + 1 \notin HandedItems \cup lost'
      BY <1>0, <2>1, <2>2 DEF Bound, Ahead, HandedItems, TypeInv
    <3>4. 1 .. pos' \subseteq HandedItems \cup Held' \cup lost'
      BY <1>0, <2>1, <2>2 DEF ItemsOnce, TypeInv
    <3>5. QED
      BY <1>0, <2>2, <3>1, <3>2, <3>3, <3>4 DEF ItemsOnce, MayRepeat
  <2>8. QED
    BY <2>3, <2>4, <2>5, <2>6, <2>7
<1>2. CASE ~(next_istream /\ Extracts)
  <2>1. /\ pos' = pos /\ good' \in BOOLEAN
        /\ in' \in {NoIterator, AtEnd} \/ (source.kind = "istreambuf" /\ in' = Live(0) /\ remaining > 0)
    BY <1>2 DEF make_input, next_istream, next_istream_throws, TypeInv
  <2>2. Held' = {}
    BY <1>0, <2>1 DEF Held, NoIterator, AtEnd, Live
  <2>3. QED
    BY <1>0, <2>1, <2>2, Dropped DEF Ready, settled
<1>3. QED
  BY <1>1, <1>2

(* What a malformed item stands for is skipped, and lost.                  *)
LEMMA SkipMalformed == IInv /\ skip_malformed => IInv'
<1> SUFFICES ASSUME IInv, skip_malformed PROVE IInv'
  OBVIOUS
<1> USE DEF IInv, skip_malformed, output, settled, Ready, Idle
<1>0. Len(source.text) \in Nat
  BY Text
<1>1. TypeInv' /\ Position'
  BY <1>0 DEF TypeInv, Position, remaining
<1>2. CallInv'
  BY DEF CallInv
<1>3. tmp = 0 /\ Held = {} /\ Held' = {}
  BY DEF CallInv, Held
<1>4. Bound'
  BY <1>3 DEF Bound, Ahead, MayRepeat, TypeInv
<1>5. ItemsOnce'
  <2>1. HandedItems' = HandedItems /\ pos + 1 \notin HandedItems
    BY DEF HandedItems, Bound, Ahead, TypeInv
  <2>2. \A i, j \in DOMAIN handed : i < j => InOrder(i, j)'
    BY DEF ItemsOnce, InOrder, MayRepeat
  <2>3. 1 .. pos' \subseteq HandedItems \cup lost'
    BY <1>3 DEF ItemsOnce, TypeInv
  <2>4. QED
    BY <1>3, <2>1, <2>2, <2>3 DEF ItemsOnce, MayRepeat
<1>6. QED
  BY <1>1, <1>2, <1>4, <1>5

(* The result of a post-increment holds the old item, the iterator the     *)
(* next one.                                                               *)
LEMMA PostIncrement == IInv /\ post_increment => IInv'
<1> SUFFICES ASSUME IInv, post_increment PROVE IInv'
  OBVIOUS
<1> USE DEF IInv
<1>0. /\ Len(source.text) \in Nat /\ source.kind \in SourceKinds
      /\ UNCHANGED <<source, sink, handed, lost>> /\ call = Idle /\ in.state = "live" /\ tmp' = read
      /\ next /\ call' = [pc |-> "assign", n |-> 0]
  BY Text DEF post_increment, Ready, settled, output
<1>1. tmp = 0 /\ pos \in Nat
  BY <1>0 DEF CallInv, Idle, TypeInv
<1>2. /\ pos' \in {pos, pos + 1} /\ tmp' \in 1 .. pos' /\ pos' <= Len(source.text) /\ good' \in BOOLEAN
      /\ in' \in [state : {"none", "end", "live"}, item : Nat]
      /\ in'.item \in {0, pos + 1}
      /\ Held' = {tmp'} \cup (IF in'.item = 0 THEN {} ELSE {pos + 1})
      /\ 1 .. pos' = (1 .. pos) \cup Held'
      /\ tmp' \notin HandedItems \/ MayRepeat
      /\ tmp' \notin lost
      /\ \A i \in DOMAIN handed : handed[i] < tmp' \/ (MayRepeat /\ handed[i] = tmp')
      /\ in'.item # tmp'
      /\ Held \subseteq Held'
      /\ Position'
  <2>1. CASE source.kind = "istream"
    <3>1. tmp' = pos /\ pos > 0 /\ Held = {pos}
      BY <1>0, <1>1, <2>1 DEF read, Position, Held, Idle
    <3>2. \/ Extracts /\ pos' = pos + 1 /\ good' = good /\ in' = Live(pos + 1) /\ pos + 1 <= Len(source.text)
          \/ pos' = pos /\ good' = FALSE /\ in' = AtEnd
      BY <1>0, <1>1, <2>1 DEF next, next_istream, next_istreambuf, Extracts, remaining
    <3>3. in' \in [state : {"none", "end", "live"}, item : Nat] /\ in'.item \in {0, pos + 1}
      BY <1>1, <3>2 DEF Live, AtEnd
    <3>4. Position'
      BY <1>0, <1>1, <2>1, <3>2 DEF Position, Live, AtEnd
    <3>5. Held' = {pos} \cup (IF in'.item = 0 THEN {} ELSE {pos + 1})
      BY <1>0, <1>1, <3>1, <3>2 DEF Held, Live, AtEnd
    <3>6. \A i \in DOMAIN handed : handed[i] < pos
      BY <2>1, <3>1 DEF Bound, Ahead, ItemsOnce, HandedItems, MayRepeat, TypeInv
    <3>7. pos \notin HandedItems
      BY <2>1, <3>1 DEF ItemsOnce, MayRepeat
    <3>8. pos \notin lost
      BY <3>1 DEF ItemsOnce
    <3>9. pos' \in {pos, pos + 1} /\ good' \in BOOLEAN /\ pos' <= Len(source.text)
      BY <3>2 DEF Position, TypeInv
    <3>10. 1 .. pos' = (1 .. pos) \cup Held'
      BY <1>1, <3>1, <3>2, <3>5 DEF Live, AtEnd
    <3>11. in'.item # pos /\ tmp' \in 1 .. pos'
      BY <1>1, <3>1, <3>2, <3>3
    <3>12. QED
      BY <3>1, <3>3, <3>4, <3>5, <3>6, <3>7, <3>8, <3>9, <3>10, <3>11
  <2>2. CASE source.kind = "istreambuf"
    <3>1. tmp' = pos + 1 /\ pos' = pos + 1 /\ good' = good /\ in' \in {AtEnd, Live(0)} /\ remaining > 0
      BY <1>0, <2>2 DEF read, next, next_istream, next_istreambuf
    <3>2. Held = {} /\ Held' = {pos + 1}
      BY <1>0, <1>1, <2>2, <3>1 DEF Held, Position, AtEnd, Live
    <3>3. in' \in [state : {"none", "end", "live"}, item : Nat] /\ in'.item = 0
      BY <3>1 DEF Live, AtEnd
    <3>4. Position'
      <4>1. in'.state = "live" => remaining # 1
        BY <1>0, <2>2 DEF next, next_istream, next_istreambuf, AtEnd
      <4>2. QED
        BY <1>0, <1>1, <2>2, <3>1, <3>3, <4>1 DEF Position, remaining
    <3>5. \A i \in DOMAIN handed : handed[i] \in Nat /\ (handed[i] <= pos \/ (MayRepeat /\ handed[i] = pos + 1))
      BY <1>0 DEF Bound, Ahead, TypeInv, Idle
    <3>6. tmp' \notin HandedItems \/ MayRepeat
      BY <1>1, <3>1, <3>5 DEF HandedItems
    <3>7. tmp' \notin lost
      BY <3>1 DEF TypeInv
    <3>8. \A i \in DOMAIN handed : handed[i] < tmp' \/ (MayRepeat /\ handed[i] = tmp')
      BY <1>1, <3>1, <3>5
    <3>9. pos' <= Len(source.text) /\ good' \in BOOLEAN
      BY <1>0, <1>1, <3>1 DEF remaining, TypeInv
    <3>10. QED
      BY <1>1, <3>1, <3>2, <3>3, <3>4, <3>6, <3>7, <3>8, <3>9
  <2>3. QED
    BY <1>0, <2>1, <2>2 DEF SourceKinds
<1>3. TypeInv'
  <2>1. lost' \subseteq 1 .. pos' /\ pos' \in Nat /\ tmp' \in Nat
    BY <1>0, <1>1, <1>2 DEF TypeInv
  <2>2. call' \in [pc : Phases, n : Int]
    BY <1>0 DEF Phases
  <2>3. QED
    BY <1>0, <1>2, <2>1, <2>2 DEF TypeInv
<1>4. CallInv'
  <2>1. tmp' # 0
    BY <1>2
  <2>2. call'.pc = "assign"
    BY <1>0
  <2>3. QED
    BY <2>1, <2>2 DEF CallInv
<1>5. Bound'
  <2>1. \A i \in DOMAIN handed : Ahead(handed[i])'
    <3>1. \A i \in DOMAIN handed : handed[i] <= tmp'
      BY <1>1, <1>2 DEF TypeInv
    <3>2. QED
      BY <1>0, <1>1, <1>2, <3>1 DEF Ahead, TypeInv
  <2>2. QED
    BY <1>0, <1>1, <1>2, <2>1 DEF Bound, MayRepeat
<1>6. ItemsOnce'
  <2>1. HandedItems' = HandedItems
    BY <1>0 DEF HandedItems
  <2>2. \A i, j \in DOMAIN handed : i < j => InOrder(i, j)'
    BY <1>0 DEF ItemsOnce, InOrder, MayRepeat
  <2>3. in'.item # 0 => in'.item \notin HandedItems \cup lost
    <3>1. \A x \in HandedItems \cup lost : x <= pos' /\ x \in Nat /\ (in'.item # 0 => x # pos + 1)
      <4>1. \A x \in lost : x <= pos /\ x \in Nat
        BY DEF TypeInv
      <4>2. \A x \in HandedItems : x <= tmp' /\ x \in Nat
        BY <1>1, <1>2, SMTT(30) DEF HandedItems, TypeInv
      <4>3. QED
        BY <1>1, <1>2, <4>1, <4>2
    <3>2. QED
      BY <1>2, <3>1
  <2>4. 1 .. pos' \subseteq HandedItems \cup Held' \cup lost
    <3>1. 1 .. pos \subseteq HandedItems \cup Held \cup lost
      BY DEF ItemsOnce
    <3>2. QED
      BY <1>2, <3>1
  <2>5. Held' \cap lost = {} /\ (MayRepeat \/ HandedItems \cap Held' = {})
    BY <1>2, <2>3
  <2>6. MayRepeat \/ HandedItems \cap lost = {}
    BY DEF ItemsOnce
  <2>7. QED
    BY <1>0, <2>1, <2>2, <2>4, <2>5, <2>6 DEF ItemsOnce, MayRepeat
<1>7. QED
  BY <1>2, <1>3, <1>4, <1>5, <1>6
-----------------------------------------------------------------------------
(* The next-state relation, an action at a time.                           *)
LEMMA NextIInv == IInv /\ [Next]_vars => IInv'
<1> SUFFICES ASSUME IInv, [Next]_vars PROVE IInv'
  OBVIOUS
<1>1. CASE make_input
  BY <1>1, MakeInput
<1>2. CASE make_output
  <2>1. CallInv'
    BY <1>2 DEF make_output, IInv, CallInv, Make, input, settled, Readable, remaining
  <2>2. QED
    BY <1>2, <2>1, Unmoved DEF make_output, IInv, TypeInv, Make, input, settled
<1>3. CASE skip_malformed
  BY <1>3, SkipMalformed
<1>4. CASE copy
  <2>1. call'.pc = "loop" /\ call'.n = -1 /\ call.pc = "idle" /\ in.state # "none" /\ call' \in [pc : Phases, n : Int]
    BY <1>4 DEF copy, Start, Ready, Idle, Phases
  <2>2. UNCHANGED <<settled, pos, good, in, tmp, lost, handed>>
    BY <1>4 DEF copy, Start, input, output, settled
  <2>3. CallInv'
    BY <2>1, <2>2 DEF IInv, CallInv
  <2>4. QED
    BY <2>1, <2>2, <2>3, Unmoved
<1>5. CASE copy_n
  <2>1. PICK n \in 0 .. Len(source.text) : (n = 0 \/ Readable(n)) /\ Start("loop", n)
    BY <1>5 DEF copy_n
  <2>2. UNCHANGED <<settled, pos, good, in, tmp, lost, handed>>
    BY <2>1 DEF Start, input, output, settled
  <2>3. Len(source.text) \in Nat /\ n \in Int
    BY Text DEF IInv
  <2>4. call'.pc = "loop" /\ call'.n = n /\ call.pc = "idle" /\ in.state # "none" /\ call' \in [pc : Phases, n : Int]
    BY <2>1, <2>3 DEF Start, Ready, Idle, Phases
  <2>5. n = 0 \/ Readable(call.n)'
    BY <2>1, <2>2, <2>4 DEF Readable, remaining, settled
  <2>6. CallInv'
    BY <2>2, <2>3, <2>4, <2>5 DEF IInv, CallInv
  <2>7. QED
    BY <2>2, <2>4, <2>6, Unmoved
<1>6. CASE post_increment
  BY <1>6, PostIncrement
<1>7. CASE post_increment_throws
  <2>1. /\ UNCHANGED <<settled, handed>> /\ in' = NoIterator /\ in.state = "live"
        /\ lost' = lost \cup Held \cup pos + 1 .. pos' /\ tmp' = 0 /\ call' = Idle /\ Ready
        /\ next_throws
    BY <1>7 DEF post_increment_throws, next_throws, next_istream_throws,
                next_istreambuf_throws, output, Ready
  <2>2. Held' = {} /\ pos \in Nat /\ tmp = 0
    BY <2>1 DEF Held, NoIterator, IInv, TypeInv, CallInv, Ready, Idle
  <2>3. CASE pos' = pos
    <3>1. pos + 1 .. pos' = {}
      BY <2>2, <2>3
    <3>2. good' \in BOOLEAN
      BY <2>1 DEF next_throws, next_istream_throws, next_istreambuf_throws, IInv, TypeInv
    <3>3. lost' = lost \cup Held
      BY <2>1, <3>1
    <3>4. QED
      BY <2>1, <2>2, <2>3, <3>2, <3>3, Dropped
  <2>4. CASE pos' # pos
    <3>1. source.kind = "istreambuf" /\ source.throws /\ pos' = pos + 1 /\ good' = good
      BY <2>1, <2>4 DEF next_throws, next_istream_throws, next_istreambuf_throws
    <3>2. Held = {}
      BY <2>1, <2>2, <3>1 DEF Held, IInv, Position
    <3>3. lost' = lost \cup {pos + 1}
      BY <2>1, <2>2, <3>1, <3>2
    <3>4. QED
      BY <2>1, <2>2, <3>1, <3>3, Consumed
  <2>5. QED
    BY <2>3, <2>4
<1>8. CASE copy_returns
  <2>1. call.pc = "loop" /\ call'.pc = "idle" /\ call' \in [pc : Phases, n : Int]
    BY <1>8 DEF copy_returns, Idle, Phases
  <2>2. UNCHANGED <<settled, pos, good, in, tmp, lost, handed>>
    BY <1>8 DEF copy_returns, input, output, settled
  <2>3. CallInv'
    BY <2>1, <2>2 DEF IInv, CallInv
  <2>4. QED
    BY <2>1, <2>2, <2>3, Unmoved
<1>9. CASE assign
  BY <1>9, Assign
<1>10. CASE assign_throws
  <2>1. /\ UNCHANGED <<settled, pos, handed>> /\ good' = good /\ in' = NoIterator
        /\ lost' = lost \cup Held /\ tmp' = 0 /\ call' = Idle /\ call.pc \in {"assign", "loop"}
    BY <1>10 DEF assign_throws, write_throws, read_throws, Writing, settled
  <2>2. Held' = {} /\ good' \in BOOLEAN
    BY <2>1 DEF Held, NoIterator, IInv, TypeInv
  <2>3. QED
    BY <2>1, <2>2, Dropped
<1>11. CASE assign_delimiter
  <2>1. /\ UNCHANGED <<settled, pos, good, in, tmp, lost, handed>> /\ call.pc \in {"delimiter", "last delimiter"}
        /\ call' = IF call.pc = "delimiter" THEN [call EXCEPT !.pc = "increment"] ELSE Idle
    BY <1>11 DEF assign_delimiter, input, settled
  <2>2. /\ call.pc = "delimiter" => call'.pc = "increment" /\ call'.n = call.n
        /\ call.pc = "last delimiter" => call'.pc = "idle"
        /\ call' \in [pc : Phases, n : Int]
    <3>1. call \in [pc : Phases, n : Int] /\ Idle \in [pc : Phases, n : Int] /\ Idle.pc = "idle"
      <4>1. call \in [pc : Phases, n : Int]
        BY DEF IInv, TypeInv
      <4>2. Idle \in [pc : Phases, n : Int] /\ Idle.pc = "idle"
        BY DEF Idle, Phases
      <4>3. QED
        BY <4>1, <4>2
    <3>2. CASE call.pc = "delimiter"
      BY <2>1, <3>1, <3>2 DEF Phases
    <3>3. CASE call.pc = "last delimiter"
      <4>1. call' = Idle
        BY <2>1, <3>3
      <4>2. QED
        BY <3>1, <3>3, <4>1
    <3>4. QED
      BY <2>1, <3>2, <3>3
  <2>3. Readable(call.n) /\ call'.n = call.n => Readable(call.n)'
    BY <2>1 DEF Readable, remaining, settled
  <2>4. CallInv'
    BY <2>1, <2>2, <2>3 DEF IInv, CallInv
  <2>5. QED
    BY <2>1, <2>2, <2>4, Unmoved
<1>12. CASE delimiter_throws
  <2>1. /\ UNCHANGED <<settled, pos, handed>> /\ good' = good /\ in' = NoIterator
        /\ lost' = lost \cup Held /\ tmp' = tmp /\ call' = Idle /\ sink.throws
        /\ call.pc \in {"delimiter", "last delimiter"}
    BY <1>12 DEF delimiter_throws, MayThrow, settled
  <2>2. tmp = 0 /\ sink.delim /\ good' \in BOOLEAN
    BY <2>1 DEF IInv, CallInv, TypeInv
  <2>3. Held' = {}
    BY <2>1, <2>2 DEF Held, NoIterator
  <2>4. source.kind \in SourceKinds
    BY Text DEF IInv
  <2>5. QED
    BY <2>1, <2>2, <2>3, <2>4, Dropped DEF MayRepeat, SourceKinds
<1>13. CASE increment
  BY <1>13, Increment
<1>14. CASE increment_throws
  <2>1. /\ UNCHANGED <<settled, handed>> /\ in' = NoIterator /\ next_throws
        /\ lost' = lost /\ tmp' = tmp /\ call' = Idle /\ call.pc = "increment"
    BY <1>14 DEF increment_throws, next_throws, next_istream_throws, next_istreambuf_throws,
                 settled
  <2>2. tmp = 0 /\ Held = {} /\ Held' = {} /\ in.state = "live"
    BY <2>1 DEF IInv, CallInv, Held, NoIterator
  <2>3. CASE next_istream_throws \/ (next_istreambuf_throws /\ pos' = pos)
    <3>1. /\ pos' = pos /\ good' \in BOOLEAN
          /\ source.kind = "istream" \/ (source.kind = "istreambuf" /\ source.throws)
      BY <2>3 DEF next_istream_throws, next_istreambuf_throws, IInv, TypeInv
    <3>2. QED
      BY <2>1, <2>2, <3>1, Dropped DEF MayRepeat
  <2>4. CASE next_istreambuf_throws /\ pos' # pos
    <3>1. source.kind = "istreambuf" /\ source.throws /\ pos' = pos + 1 /\ good' = good
      BY <2>4 DEF next_istreambuf_throws
    <3>2. QED
      BY <2>1, <2>2, <3>1, Consumed
  <2>5. QED
    BY <2>1, <2>3, <2>4 DEF next_throws
<1>15. CASE UNCHANGED vars
  <2>1. CallInv'
    BY <1>15 DEF vars, IInv, CallInv, Readable, remaining
  <2>2. QED
    BY <1>15, <2>1, Unmoved DEF vars, IInv, TypeInv, settled
<1>16. QED
  BY <1>1, <1>2, <1>3, <1>4, <1>5, <1>6, <1>7, <1>8, <1>9, <1>10, <1>11, <1>12, <1>13, <1>14, <1>15
     DEF Next, Running

(* What relates the text, the iterators and the call that runs holds after *)
(* every step of the iterators and of copy and copy_n.                     *)
THEOREM Invariant == Spec => []IInv
<1>1. Init => IInv
  BY InitIInv
<1>2. IInv /\ [Next]_vars => IInv'
  BY NextIInv
<1>3. QED
  BY <1>1, <1>2, PTL DEF Spec

(* Every item of a text is written once and in order, is held, or went     *)
(* with an iterator that had read it: for any text, whatever throws.       *)
THEOREM NothingLostOrRepeated == Spec => []ItemsOnce
<1>1. IInv => ItemsOnce
  BY DEF IInv
<1>2. QED
  BY <1>1, Invariant, PTL

-----------------------------------------------------------------------------
(* Sequences of what is written: items, and 0 for a delimiter.             *)
Symbols == Nat

LEMMA Prefix ==
  ASSUME NEW s \in Seq(Symbols), NEW t \in Seq(Symbols), Len(s) <= Len(t),
         \A i \in 1 .. Len(s) : t[i] = s[i], NEW k \in 0 .. Len(s)
  PROVE  SubSeq(t, 1, k) = SubSeq(s, 1, k)
  OBVIOUS

LEMMA Longer ==
  ASSUME NEW t \in Seq(Symbols), NEW k \in Nat, k < Len(t)
  PROVE  SubSeq(t, 1, k + 1) = Append(SubSeq(t, 1, k), t[k + 1])
  OBVIOUS

LEMMA Behind ==
  ASSUME NEW s \in Seq(Symbols), NEW t \in Seq(Symbols), NEW e \in Symbols
  PROVE  s \o Append(t, e) = Append(s \o t, e)
  OBVIOUS

LEMMA Joined ==
  ASSUME NEW p \in Seq(Symbols), NEW q \in Seq(Symbols)
  PROVE  /\ p \o q \in Seq(Symbols) /\ Len(p \o q) = Len(p) + Len(q)
         /\ Len(p) \in Nat /\ Len(q) \in Nat
         /\ \A i \in 1 .. Len(p) : (p \o q)[i] = p[i]
         /\ \A i \in 1 .. Len(q) : (p \o q)[Len(p) + i] = q[i]
  OBVIOUS

LEMMA Same ==
  ASSUME NEW s \in Seq(Symbols), NEW t \in Seq(Symbols), Len(s) = Len(t),
         \A i \in 1 .. Len(s) : s[i] = t[i]
  PROVE  s = t
  OBVIOUS

(* A sequence in two parts, and something put between them.                *)
LEMMA Split ==
  ASSUME NEW b \in Seq(Symbols), NEW at \in 0 .. Len(b)
  PROVE  /\ SubSeq(b, 1, at) \in Seq(Symbols) /\ Len(SubSeq(b, 1, at)) = at
         /\ SubSeq(b, at + 1, Len(b)) \in Seq(Symbols) /\ Len(SubSeq(b, at + 1, Len(b))) = Len(b) - at
         /\ SubSeq(b, 1, at) \o SubSeq(b, at + 1, Len(b)) = b
<1> DEFINE p == SubSeq(b, 1, at)  q == SubSeq(b, at + 1, Len(b))
<1>1. p \in Seq(Symbols) /\ Len(p) = at /\ \A i \in 1 .. at : p[i] = b[i]
  OBVIOUS
<1>2. q \in Seq(Symbols) /\ Len(q) = Len(b) - at /\ \A i \in 1 .. Len(b) - at : q[i] = b[at + i]
  OBVIOUS
<1>3. Len(b) \in Nat /\ at \in Nat
  OBVIOUS
<1> HIDE DEF p, q
<1> DEFINE w == p \o q
<1>4. /\ w \in Seq(Symbols) /\ Len(w) = Len(b)
      /\ \A i \in 1 .. at : w[i] = p[i]
      /\ \A i \in 1 .. Len(b) - at : w[at + i] = q[i]
  BY <1>1, <1>2, <1>3, Joined
<1> HIDE DEF w
<1>5. ASSUME NEW i \in 1 .. Len(w) PROVE w[i] = b[i]
  <2>1. CASE i <= at
    BY <1>1, <1>3, <1>4, <2>1
  <2>2. CASE i > at
    <3>1. i - at \in 1 .. Len(b) - at /\ at + (i - at) = i
      BY <1>3, <1>4, <2>2
    <3>2. QED
      BY <1>2, <1>4, <3>1
  <2>3. QED
    BY <1>3, <1>4, <2>1, <2>2
<1>6. w = b
  BY <1>4, <1>5, Same
<1>7. QED
  BY <1>1, <1>2, <1>6 DEF p, q, w

LEMMA InFront ==
  ASSUME NEW t \in Seq(Symbols), NEW b \in Seq(Symbols), NEW e \in Symbols, NEW k \in Nat, k = Len(t)
  PROVE  [i \in 1 .. k + 1 |-> Append(t, e)[k + 1 - i + 1]] \o b
           = <<e>> \o ([i \in 1 .. k |-> t[k - i + 1]] \o b)
<1> DEFINE u == [i \in 1 .. k |-> t[k - i + 1]]  v == [i \in 1 .. k + 1 |-> Append(t, e)[k + 1 - i + 1]]
<1>1. u \in Seq(Symbols) /\ Len(u) = k
  OBVIOUS
<1>2. v \in Seq(Symbols) /\ Len(v) = k + 1 /\ v[1] = e /\ \A i \in 1 .. k : v[i + 1] = u[i]
  OBVIOUS
<1> HIDE DEF u, v
<1>3. v = <<e>> \o u
  <2>1. <<e>> \o u \in Seq(Symbols) /\ Len(<<e>> \o u) = k + 1
    BY <1>1
  <2>2. ASSUME NEW i \in 1 .. k + 1 PROVE (<<e>> \o u)[i] = v[i]
    <3>1. CASE i = 1
      BY <1>1, <1>2, <3>1
    <3>2. CASE i # 1
      <4>1. i - 1 \in 1 .. k /\ (i - 1) + 1 = i
        BY <3>2
      <4>2. v[i] = u[i - 1]
        BY <1>2, <4>1
      <4>3. (<<e>> \o u)[i] = u[i - 1]
        BY <1>1, <4>1
      <4>4. QED
        BY <4>2, <4>3
    <3>3. QED
      BY <3>1, <3>2
  <2>3. QED
    BY <1>2, <2>1, <2>2
<1>4. (<<e>> \o u) \o b = <<e>> \o (u \o b)
  BY <1>1
<1>5. QED
  BY <1>3, <1>4 DEF u, v

LEMMA Parts ==
  ASSUME NEW s \in Seq(Symbols), NEW t \in Seq(Symbols)
  PROVE  /\ SubSeq(s \o t, 1, Len(s)) = s
         /\ SubSeq(s \o t, Len(s) + 1, Len(s \o t)) = t
  OBVIOUS

(* What was given to an iterator, of all that was handed on.               *)
GivenOf(h, n, delim) ==
  LET items == SubSeq(h, n + 1, Len(h))
  IN IF delim THEN [k \in 1 .. 2 * Len(items) |-> IF k % 2 = 1 THEN items[(k + 1) \div 2] ELSE 0]
     ELSE items

LEMMA Givens ==
  ASSUME NEW h \in Seq(Symbols), NEW n \in 0 .. Len(h), NEW delim \in BOOLEAN
  PROVE  /\ GivenOf(h, n, delim) \in Seq(Symbols)
         /\ Len(GivenOf(h, n, delim)) = IF delim THEN 2 * (Len(h) - n) ELSE Len(h) - n
         /\ \A k \in 1 .. Len(GivenOf(h, n, delim)) :
              GivenOf(h, n, delim)[k] =
                IF ~delim THEN h[n + k] ELSE IF k % 2 = 1 THEN h[n + ((k + 1) \div 2)] ELSE 0
<1> SUFFICES ASSUME NEW g, g = GivenOf(h, n, delim)
    PROVE  /\ g \in Seq(Symbols)
           /\ Len(g) = IF delim THEN 2 * (Len(h) - n) ELSE Len(h) - n
           /\ \A k \in 1 .. Len(g) :
                g[k] = IF ~delim THEN h[n + k] ELSE IF k % 2 = 1 THEN h[n + ((k + 1) \div 2)] ELSE 0
  OBVIOUS
<1> DEFINE items == SubSeq(h, n + 1, Len(h))
<1>1. items \in Seq(Symbols) /\ Len(items) = Len(h) - n /\ \A k \in 1 .. Len(items) : items[k] = h[n + k]
  OBVIOUS
<1>2. CASE ~delim
  BY <1>1, <1>2 DEF GivenOf
<1>3. CASE delim
  <2>1. g = [k \in 1 .. 2 * Len(items) |-> IF k % 2 = 1 THEN items[(k + 1) \div 2] ELSE 0]
    BY <1>3 DEF GivenOf
  <2> HIDE DEF items
  <2>2. ASSUME NEW k \in 1 .. 2 * Len(items), k % 2 = 1
        PROVE  (k + 1) \div 2 \in 1 .. Len(items)
    BY <1>1, <2>2
  <2>3. Len(g) = 2 * Len(items)
    BY <1>1, <2>1
  <2>4. ASSUME NEW k \in 1 .. 2 * Len(items)
        PROVE  g[k] = (IF k % 2 = 1 THEN h[n + ((k + 1) \div 2)] ELSE 0) /\ g[k] \in Symbols
    <3>1. CASE k % 2 = 1
      BY <1>1, <2>1, <2>2, <3>1
    <3>2. CASE k % 2 # 1
      BY <1>1, <2>1, <3>2 DEF Symbols
    <3>3. QED
      BY <3>1, <3>2
  <2>5. g \in Seq(Symbols)
    BY <1>1, <2>1, <2>3, <2>4
  <2>6. QED
    BY <1>1, <1>3, <2>3, <2>4, <2>5
<1>4. QED
  BY <1>2, <1>3

(* f is g and one more item, with its delimiter.                           *)
Extended(f, g, e, delim) ==
  /\ g \in Seq(Symbols) /\ f \in Seq(Symbols)
  /\ Len(f) = Len(g) + IF delim THEN 2 ELSE 1
  /\ \A k \in 1 .. Len(g) : f[k] = g[k]
  /\ f[Len(g) + 1] = e
  /\ delim => f[Len(g) + 2] = 0

LEMMA Grows ==
  ASSUME NEW h \in Seq(Symbols), NEW n \in 0 .. Len(h), NEW delim \in BOOLEAN, NEW e \in Symbols
  PROVE  Extended(GivenOf(Append(h, e), n, delim), GivenOf(h, n, delim), e, delim)
<1> SUFFICES ASSUME NEW g, g = GivenOf(h, n, delim), NEW f, f = GivenOf(Append(h, e), n, delim)
             PROVE  /\ g \in Seq(Symbols) /\ f \in Seq(Symbols)
                    /\ Len(f) = Len(g) + IF delim THEN 2 ELSE 1
                    /\ \A k \in 1 .. Len(g) : f[k] = g[k]
                    /\ f[Len(g) + 1] = e
                    /\ delim => f[Len(g) + 2] = 0
  BY DEF Extended
<1> DEFINE d == Append(h, e)
<1>1. d \in Seq(Symbols) /\ Len(d) = Len(h) + 1 /\ d[Len(h) + 1] = e /\ \A k \in 1 .. Len(h) : d[k] = h[k]
      /\ n \in 0 .. Len(d)
  OBVIOUS
<1> HIDE DEF d
<1>2. /\ g \in Seq(Symbols)
      /\ Len(g) = IF delim THEN 2 * (Len(h) - n) ELSE Len(h) - n
      /\ \A k \in 1 .. Len(g) :
           g[k] = IF ~delim THEN h[n + k] ELSE IF k % 2 = 1 THEN h[n + ((k + 1) \div 2)] ELSE 0
  BY Givens
<1>3. /\ f = GivenOf(d, n, delim)
      /\ f \in Seq(Symbols)
      /\ Len(f) = IF delim THEN 2 * (Len(d) - n) ELSE Len(d) - n
      /\ \A k \in 1 .. Len(f) :
           f[k] = IF ~delim THEN d[n + k] ELSE IF k % 2 = 1 THEN d[n + ((k + 1) \div 2)] ELSE 0
  <2>1. d \in Seq(Symbols) /\ n \in 0 .. Len(d) /\ f = GivenOf(d, n, delim)
    BY <1>1 DEF d
  <2>2. QED
    BY <2>1, Givens
<1>4. CASE ~delim
  <2>1. Len(g) = Len(h) - n /\ Len(f) = Len(g) + 1
    BY <1>1, <1>2, <1>3, <1>4
  <2>2. ASSUME NEW k \in 1 .. Len(g) PROVE f[k] = g[k]
    <3>1. n + k \in 1 .. Len(h) /\ k \in 1 .. Len(f)
      BY <2>1
    <3>2. QED
      BY <1>1, <1>2, <1>3, <1>4, <3>1
  <2>3. f[Len(g) + 1] = e
    <3>1. n + (Len(g) + 1) = Len(h) + 1 /\ Len(g) + 1 \in 1 .. Len(f)
      BY <2>1
    <3>2. QED
      BY <1>1, <1>3, <1>4, <3>1
  <2>4. QED
    BY <1>2, <1>3, <1>4, <2>1, <2>2, <2>3
<1>5. CASE delim
  <2>1. Len(g) = 2 * (Len(h) - n) /\ Len(f) = Len(g) + 2
    BY <1>1, <1>2, <1>3, <1>5
  <2>2. ASSUME NEW k \in 1 .. Len(g) PROVE f[k] = g[k]
    <3>1. CASE k % 2 = 1
      <4>1. n + ((k + 1) \div 2) \in 1 .. Len(h)
        BY <2>1, <3>1
      <4>2. d[n + ((k + 1) \div 2)] = h[n + ((k + 1) \div 2)]
        BY <1>1, <4>1
      <4>3. k \in 1 .. Len(f)
        BY <2>1
      <4>4. QED
        BY <1>2, <1>3, <1>5, <3>1, <4>2, <4>3
    <3>2. CASE k % 2 # 1
      <4>1. k \in 1 .. Len(f)
        BY <2>1
      <4>2. QED
        BY <1>2, <1>3, <1>5, <3>2, <4>1
    <3>3. QED
      BY <3>1, <3>2
  <2>3. f[Len(g) + 1] = e
    <3>1. (Len(g) + 1) % 2 = 1 /\ n + ((Len(g) + 1 + 1) \div 2) = Len(h) + 1 /\ Len(g) + 1 \in 1 .. Len(f)
      BY <2>1
    <3>2. QED
      BY <1>1, <1>3, <1>5, <3>1
  <2>4. f[Len(g) + 2] = 0
    <3>1. (Len(g) + 2) % 2 # 1 /\ Len(g) + 2 \in 1 .. Len(f)
      BY <2>1
    <3>2. QED
      BY <1>3, <1>5, <3>1
  <2>5. QED
    BY <1>2, <1>3, <1>5, <2>1, <2>2, <2>3, <2>4
<1>6. QED
  BY <1>4, <1>5

(* Where it is put.                                                        *)
PlacedOf(kind, b, at, got) ==
  CASE kind \in StreamSinks \cup {"back"} -> b \o got
    [] kind = "front" -> [i \in 1 .. Len(got) |-> got[Len(got) - i + 1]] \o b
    [] kind = "insert" -> SubSeq(b, 1, at) \o got \o SubSeq(b, at + 1, Len(b))

LEMMA PlacedType ==
  ASSUME NEW kind \in StreamSinks \cup Inserters, NEW b \in Seq(Symbols), NEW at \in 0 .. Len(b),
         NEW got \in Seq(Symbols)
  PROVE  /\ PlacedOf(kind, b, at, got) \in Seq(Symbols)
         /\ Len(PlacedOf(kind, b, at, got)) = Len(b) + Len(got)
         /\ got = <<>> => PlacedOf(kind, b, at, got) = b
<1> SUFFICES ASSUME NEW w, w = PlacedOf(kind, b, at, got)
             PROVE  w \in Seq(Symbols) /\ Len(w) = Len(b) + Len(got) /\ (got = <<>> => w = b)
  OBVIOUS
<1>1. CASE kind \in StreamSinks \cup {"back"}
  <2>1. w = b \o got
    BY <1>1 DEF PlacedOf, StreamSinks
  <2>2. QED
    BY <2>1
<1>2. CASE kind = "front"
  <2> DEFINE u == [i \in 1 .. Len(got) |-> got[Len(got) - i + 1]]
  <2>1. u \in Seq(Symbols) /\ Len(u) = Len(got)
    OBVIOUS
  <2>2. w = u \o b
    BY <1>2 DEF PlacedOf, StreamSinks
  <2> HIDE DEF u
  <2>3. got = <<>> => u = <<>>
    BY <2>1
  <2>4. u \o b \in Seq(Symbols) /\ Len(u \o b) = Len(u) + Len(b) /\ <<>> \o b = b
    BY <2>1
  <2>5. QED
    BY <2>1, <2>2, <2>3, <2>4
<1>3. CASE kind = "insert"
  <2>1. w = SubSeq(b, 1, at) \o got \o SubSeq(b, at + 1, Len(b))
    BY <1>3 DEF PlacedOf, StreamSinks
  <2> DEFINE p == SubSeq(b, 1, at)  q == SubSeq(b, at + 1, Len(b))
  <2>2. p \in Seq(Symbols) /\ q \in Seq(Symbols) /\ Len(p) = at /\ Len(q) = Len(b) - at /\ p \o q = b
    BY Split
  <2> HIDE DEF p, q
  <2>3. w = (p \o got) \o q
    BY <2>1 DEF p, q
  <2>4. p \o got \in Seq(Symbols) /\ Len(p \o got) = at + Len(got)
    BY <2>2, Joined
  <2>5. (p \o got) \o q \in Seq(Symbols) /\ Len((p \o got) \o q) = at + Len(got) + (Len(b) - at)
    BY <2>2, <2>4, Joined, ZenonT(40)
  <2>6. got = <<>> => p \o got = p
    BY <2>2
  <2>7. Len(b) \in Nat /\ Len(got) \in Nat /\ at \in Nat
    OBVIOUS
  <2>8. w \in Seq(Symbols)
    BY <2>3, <2>5
  <2>9. Len(w) = at + Len(got) + (Len(b) - at)
    BY <2>3, <2>5
  <2>10. at + Len(got) + (Len(b) - at) = Len(b) + Len(got)
    BY <2>7
  <2>11. got = <<>> => w = b
    BY <2>2, <2>3, <2>6
  <2>12. QED
    BY <2>8, <2>9, <2>10, <2>11
<1>4. QED
  BY <1>1, <1>2, <1>3 DEF Inserters

(* One more symbol is put into w, an inserter's behind the first n.        *)
WithOne(kind, w, n, e) ==
  CASE kind \in StreamSinks \cup {"back"} -> Append(w, e)
    [] kind = "front" -> <<e>> \o w
    [] kind = "insert" -> SubSeq(w, 1, n) \o <<e>> \o SubSeq(w, n + 1, Len(w))

LEMMA PlacedMore ==
  ASSUME NEW kind \in StreamSinks \cup Inserters, NEW b \in Seq(Symbols), NEW at \in 0 .. Len(b),
         NEW got \in Seq(Symbols), NEW e \in Symbols
  PROVE  PlacedOf(kind, b, at, Append(got, e)) = WithOne(kind, PlacedOf(kind, b, at, got), at + Len(got), e)
<1> SUFFICES ASSUME NEW w, w = PlacedOf(kind, b, at, got), NEW n, n = at + Len(got)
             PROVE  PlacedOf(kind, b, at, Append(got, e)) =
                      CASE kind \in StreamSinks \cup {"back"} -> Append(w, e)
                        [] kind = "front" -> <<e>> \o w
                        [] kind = "insert" -> SubSeq(w, 1, n) \o <<e>> \o SubSeq(w, n + 1, Len(w))
  BY DEF WithOne
<1> DEFINE r == PlacedOf(kind, b, at, Append(got, e))
<1>1. CASE kind \in StreamSinks \cup {"back"}
  <2>1. w = b \o got
    BY <1>1 DEF PlacedOf, StreamSinks
  <2>4. r = b \o Append(got, e)
    BY <1>1 DEF PlacedOf, StreamSinks
  <2>2. b \o Append(got, e) = Append(b \o got, e)
    BY Behind
  <2> HIDE DEF r
  <2>3. r = Append(w, e)
    BY <2>1, <2>2, <2>4
  <2>5. QED
    BY <1>1, <2>3 DEF r, StreamSinks
<1>2. CASE kind = "front"
  <2> DEFINE k == Len(got)
  <2>1. k \in Nat /\ Len(Append(got, e)) = k + 1
    OBVIOUS
  <2>2. w = [i \in 1 .. k |-> got[k - i + 1]] \o b
    BY <1>2 DEF PlacedOf, StreamSinks
  <2>3. r = [i \in 1 .. k + 1 |-> Append(got, e)[k + 1 - i + 1]] \o b
    <3> DEFINE more == Append(got, e)
    <3>1. r = [i \in 1 .. Len(more) |-> more[Len(more) - i + 1]] \o b
      BY <1>2 DEF PlacedOf, StreamSinks
    <3>2. QED
      BY <2>1, <3>1, SMTT(30)
  <2>4. [i \in 1 .. k + 1 |-> Append(got, e)[k + 1 - i + 1]] \o b
          = <<e>> \o ([i \in 1 .. k |-> got[k - i + 1]] \o b)
    BY <2>1, InFront
  <2>5. QED
    BY <1>2, <2>2, <2>3, <2>4 DEF StreamSinks
<1>3. CASE kind = "insert"
  <2> DEFINE p == SubSeq(b, 1, at)  q == SubSeq(b, at + 1, Len(b))
  <2>1. p \in Seq(Symbols) /\ q \in Seq(Symbols) /\ Len(p) = at
    OBVIOUS
  <2>2. w = p \o got \o q /\ r = p \o Append(got, e) \o q
    BY <1>3 DEF PlacedOf, StreamSinks
  <2> HIDE DEF p, q
  <2>5. n = Len(p) + Len(got) /\ w = p \o got \o q
    BY <2>1, <2>2
  <2>3. SubSeq(w, 1, n) \o <<e>> \o SubSeq(w, n + 1, Len(w)) = p \o Append(got, e) \o q
    <3>1. p \o got \in Seq(Symbols) /\ Len(p \o got) = n
      BY <2>1, <2>5, Joined
    <3>2. SubSeq(w, 1, n) = p \o got /\ SubSeq(w, n + 1, Len(w)) = q
      <4> DEFINE u == p \o got
      <4>1. u \in Seq(Symbols) /\ Len(u) = n /\ w = u \o q
        BY <2>5, <3>1
      <4> HIDE DEF u
      <4>2. SubSeq(u \o q, 1, Len(u)) = u /\ SubSeq(u \o q, Len(u) + 1, Len(u \o q)) = q
        BY <2>1, <4>1, Parts
      <4>3. SubSeq(w, 1, n) = u /\ SubSeq(w, n + 1, Len(w)) = q
        BY <4>1, <4>2
      <4>4. QED
        BY <4>3 DEF u
    <3>3. (p \o got) \o <<e>> = Append(p \o got, e)
      BY <3>1
    <3>4. Append(p \o got, e) = p \o Append(got, e)
      BY <2>1, Behind
    <3>5. QED
      BY <3>2, <3>3, <3>4
  <2>4. QED
    BY <1>3, <2>2, <2>3 DEF StreamSinks
<1>4. QED
  BY <1>1, <1>2, <1>3 DEF Inserters

LEMMA OneMore ==
  ASSUME NEW kind \in StreamSinks \cup Inserters, NEW b \in Seq(Symbols), NEW at \in 0 .. Len(b),
         NEW g \in Seq(Symbols), NEW k \in Nat, k < Len(g)
  PROVE  PlacedOf(kind, b, at, SubSeq(g, 1, k + 1))
           = WithOne(kind, PlacedOf(kind, b, at, SubSeq(g, 1, k)), at + k, g[k + 1])
<1>1. SubSeq(g, 1, k) \in Seq(Symbols) /\ g[k + 1] \in Symbols /\ Len(SubSeq(g, 1, k)) = k
  OBVIOUS
<1>2. SubSeq(g, 1, k + 1) = Append(SubSeq(g, 1, k), g[k + 1])
  BY Longer
<1>3. ASSUME NEW got \in Seq(Symbols), NEW e \in Symbols
      PROVE  PlacedOf(kind, b, at, Append(got, e)) = WithOne(kind, PlacedOf(kind, b, at, got), at + Len(got), e)
  BY PlacedMore
<1>4. PlacedOf(kind, b, at, Append(SubSeq(g, 1, k), g[k + 1]))
        = WithOne(kind, PlacedOf(kind, b, at, SubSeq(g, 1, k)), at + Len(SubSeq(g, 1, k)), g[k + 1])
  BY <1>1, <1>3
<1>5. QED
  BY <1>1, <1>2, <1>4

-----------------------------------------------------------------------------
(* The output.  How much of what was given to the iterator that is there   *)
(* its target holds, and what a target that holds k of it is.              *)
Count == Len(taken) - Len(since.taken)

Placed(k) == PlacedOf(sink.kind, since.taken, since.at, SubSeq(Given, 1, k))

AtDelimiter == call.pc \in {"delimiter", "last delimiter"}

OutType ==
  /\ taken \in Seq(Nat)
  /\ since \in [handed : Nat, taken : Seq(Nat), at : Nat]
  /\ since.handed <= Len(handed) /\ since.at <= Len(since.taken)
  /\ out \in [made : BOOLEAN, good : BOOLEAN, at : Nat]

(* An iterator that has not failed has given all on, but for the delimiter *)
(* that is to come; an insert_iterator stands behind what it has inserted. *)
OutPlace ==
  /\ call.pc # "idle" => out.made
  /\ out.made /\ sink.kind \in Inserters => out.good
  /\ Count \in 0 .. Len(Given)
  /\ taken = Placed(Count)
  /\ out.good => Count = Len(Given) - IF AtDelimiter THEN 1 ELSE 0
  /\ out.made /\ sink.kind = "insert" => out.at = since.at + Count

OutInv == OutType /\ OutPlace

(* The invariants, in the terms of the lemmas above.                       *)
LEMMA OutTerms ==
  ASSUME TypeInv, OutType
  PROVE  /\ Given = GivenOf(handed, since.handed, sink.delim)
         /\ handed \in Seq(Symbols) /\ taken \in Seq(Symbols) /\ since.taken \in Seq(Symbols)
         /\ since.handed \in 0 .. Len(handed) /\ since.at \in 0 .. Len(since.taken)
         /\ sink.delim \in BOOLEAN /\ sink.kind \in StreamSinks \cup Inserters
         /\ Given \in Seq(Symbols) /\ Len(Given) \in Nat /\ Len(taken) \in Nat /\ Len(since.taken) \in Nat
         /\ Count \in Int
<1>1. Given = GivenOf(handed, since.handed, sink.delim)
  BY DEF Given, GivenOf
<1>2. handed \in Seq(Nat)
  BY DEF TypeInv
<1>3. /\ handed \in Seq(Symbols) /\ taken \in Seq(Symbols) /\ since.taken \in Seq(Symbols)
      /\ since.handed \in 0 .. Len(handed) /\ since.at \in 0 .. Len(since.taken)
      /\ sink.delim \in BOOLEAN /\ sink.kind \in StreamSinks \cup Inserters
  BY <1>2 DEF TypeInv, OutType, Symbols
<1>4. Given \in Seq(Symbols)
  BY <1>1, <1>3, Givens
<1>5. QED
  BY <1>1, <1>3, <1>4 DEF Count

(* Nothing is written, and the call may end, or the iterator be gone.      *)
LEMMA Kept ==
  ASSUME OutInv, UNCHANGED <<taken, handed, since, sink>>,
         \/ out' = out /\ AtDelimiter' = AtDelimiter /\ (call'.pc # "idle" => out.made)
         \/ out' = NoOutput /\ call' = Idle
  PROVE  OutInv'
<1>1. OutType'
  <2>1. out' \in [made : BOOLEAN, good : BOOLEAN, at : Nat]
    <3>1. NoOutput \in [made : BOOLEAN, good : BOOLEAN, at : Nat]
      BY DEF NoOutput
    <3>2. QED
      BY <3>1 DEF OutInv, OutType
  <2>2. QED
    BY <2>1 DEF OutInv, OutType
<1>2. Given' = Given
  BY DEF Given
<1>3. Count' = Count /\ Placed(Count)' = Placed(Count)
  BY <1>2 DEF Count, Placed
<1>4. OutPlace'
  <2>1. CASE out' = out /\ AtDelimiter' = AtDelimiter /\ (call'.pc # "idle" => out.made)
    BY <1>2, <1>3, <2>1 DEF OutInv, OutPlace
  <2>2. CASE out' = NoOutput /\ call' = Idle
    BY <1>2, <1>3, <2>2 DEF OutInv, OutPlace, NoOutput, Idle
  <2>3. QED
    BY <2>1, <2>2
<1>5. QED
  BY <1>1, <1>4 DEF OutInv

(* The next symbol of what was given is put where it belongs.              *)
LEMMA Advanced ==
  ASSUME TypeInv, OutType, UNCHANGED <<since, sink>>, Given' \in Seq(Symbols), Len(Given) <= Len(Given'),
         \A i \in 1 .. Len(Given) : Given'[i] = Given[i],
         Count \in 0 .. Len(Given), Count < Len(Given'), taken = Placed(Count),
         taken' = WithOne(sink.kind, taken, since.at + Count, Given'[Count + 1])
  PROVE  taken' \in Seq(Symbols) /\ Count' = Count + 1 /\ taken' = Placed(Count)'
<1>1. SUFFICES ASSUME NEW f, f = Given', NEW g, g = Given, NEW k, k = Count,
                      NEW kind, kind = sink.kind, NEW b, b = since.taken, NEW at, at = since.at
      PROVE  taken' \in Seq(Symbols) /\ Count' = Count + 1 /\ taken' = Placed(Count)'
  OBVIOUS
<1>2. /\ f \in Seq(Symbols) /\ g \in Seq(Symbols) /\ Len(g) \in Nat /\ k \in 0 .. Len(g) /\ k \in Nat
      /\ kind \in StreamSinks \cup Inserters /\ b \in Seq(Symbols) /\ at \in 0 .. Len(b) /\ Len(b) \in Nat
      /\ Len(g) <= Len(f) /\ k < Len(f)
  BY <1>1, OutTerms
<1>3. SubSeq(f, 1, k) = SubSeq(g, 1, k)
  <2>1. \A i \in 1 .. Len(g) : f[i] = g[i]
    BY <1>1
  <2>2. QED
    BY <1>2, <2>1, Prefix
<1>4. taken = PlacedOf(kind, b, at, SubSeq(g, 1, k))
  BY <1>1 DEF Placed
<1>5. taken' = WithOne(kind, taken, at + k, f[k + 1])
  BY <1>1
<1>6. PlacedOf(kind, b, at, SubSeq(f, 1, k + 1)) = taken'
  <2>1. PlacedOf(kind, b, at, SubSeq(f, 1, k + 1))
          = WithOne(kind, PlacedOf(kind, b, at, SubSeq(f, 1, k)), at + k, f[k + 1])
    BY ONLY <1>2, OneMore
  <2>2. QED
    BY ONLY <1>3, <1>4, <1>5, <2>1
<1>7. taken' \in Seq(Symbols) /\ Len(taken') = Len(b) + (k + 1)
  <2>1. SubSeq(f, 1, k + 1) \in Seq(Symbols) /\ Len(SubSeq(f, 1, k + 1)) = k + 1
    BY <1>2
  <2>2. /\ PlacedOf(kind, b, at, SubSeq(f, 1, k + 1)) \in Seq(Symbols)
        /\ Len(PlacedOf(kind, b, at, SubSeq(f, 1, k + 1))) = Len(b) + Len(SubSeq(f, 1, k + 1))
    BY ONLY <1>2, <2>1, PlacedType
  <2>3. QED
    BY ONLY <1>6, <2>1, <2>2
<1>8. Count' = k + 1
  <2>1. Count' = Len(taken') - Len(b)
    BY <1>1 DEF Count
  <2>2. QED
    BY ONLY <1>2, <1>7, <2>1
<1>9. Placed(Count)' = PlacedOf(kind, b, at, SubSeq(f, 1, k + 1))
  BY <1>1, <1>8 DEF Placed
<1>10. QED
  BY <1>1, <1>6, <1>7, <1>8, <1>9

(* An item is handed on, which makes room for it, and for its delimiter.   *)
LEMMA MoreGiven ==
  ASSUME TypeInv, OutType, UNCHANGED <<since, sink>>, NEW e \in Symbols, handed' = Append(handed, e)
  PROVE  /\ Given' \in Seq(Symbols)
         /\ Len(Given') = Len(Given) + IF sink.delim THEN 2 ELSE 1
         /\ \A i \in 1 .. Len(Given) : Given'[i] = Given[i]
         /\ Given'[Len(Given) + 1] = e
<1>1. /\ Given = GivenOf(handed, since.handed, sink.delim)
      /\ Given' = GivenOf(Append(handed, e), since.handed, sink.delim)
  BY DEF Given, GivenOf
<1>2. handed \in Seq(Symbols) /\ since.handed \in 0 .. Len(handed) /\ sink.delim \in BOOLEAN
  BY OutTerms
<1>3. Extended(GivenOf(Append(handed, e), since.handed, sink.delim),
               GivenOf(handed, since.handed, sink.delim), e, sink.delim)
  BY ONLY <1>2, e \in Symbols, Grows
<1>4. Extended(Given', Given, e, sink.delim)
  BY <1>1, <1>3
<1>5. QED
  BY <1>4 DEF Extended

LEMMA OneTaken ==
  ASSUME TypeInv, OutInv, UNCHANGED <<since, sink>>, NEW e \in Symbols, handed' = Append(handed, e),
         out.made, out.good, ~AtDelimiter, AtDelimiter' <=> sink.delim,
         taken' = WithOne(sink.kind, taken, since.at + Count, e),
         out' = IF sink.kind = "insert" THEN [out EXCEPT !.at = @ + 1] ELSE out
  PROVE  OutInv'
<1> USE DEF OutInv
<1>1. Count = Len(Given) /\ Len(Given) \in Nat
  BY OutTerms DEF OutPlace
<1>2. /\ Given' \in Seq(Symbols)
      /\ Len(Given') = Len(Given) + IF sink.delim THEN 2 ELSE 1
      /\ \A i \in 1 .. Len(Given) : Given'[i] = Given[i]
      /\ Given'[Len(Given) + 1] = e
  BY MoreGiven
<1>3. taken' \in Seq(Symbols) /\ Count' = Count + 1 /\ taken' = Placed(Count)'
  <2>1. Count \in 0 .. Len(Given) /\ taken = Placed(Count)
    BY DEF OutPlace
  <2>2. Len(Given) <= Len(Given') /\ Count < Len(Given')
    BY <1>1, <1>2
  <2>3. taken' = WithOne(sink.kind, taken, since.at + Count, Given'[Count + 1])
    BY <1>1, <1>2
  <2>4. QED
    BY <1>2, <2>1, <2>2, <2>3, Advanced
<1>4. OutType'
  <2>1. since.handed \in Nat /\ Len(handed) \in Nat /\ since.handed <= Len(handed) /\ Len(handed') = Len(handed) + 1
    <3>1. handed \in Seq(Symbols)
      BY OutTerms
    <3>2. QED
      BY <3>1 DEF OutType
  <2>2. taken' \in Seq(Nat)
    BY <1>3 DEF Symbols
  <2>3. out' \in [made : BOOLEAN, good : BOOLEAN, at : Nat]
    <3>1. out \in [made : BOOLEAN, good : BOOLEAN, at : Nat]
      BY DEF OutType
    <3>2. [out EXCEPT !.at = @ + 1] \in [made : BOOLEAN, good : BOOLEAN, at : Nat]
      BY <3>1
    <3>3. QED
      BY <3>1, <3>2
  <2>4. QED
    BY <2>1, <2>2, <2>3 DEF OutType
<1>5. out'.made = out.made /\ out'.good = out.good
      /\ out'.at = IF sink.kind = "insert" THEN out.at + 1 ELSE out.at
  BY DEF OutType
<1>6. OutPlace'
  <2>1. Count' \in 0 .. Len(Given')
    BY <1>1, <1>2, <1>3
  <2>2. Count' = Len(Given') - IF sink.delim THEN 1 ELSE 0
    BY <1>1, <1>2, <1>3
  <2>3. out'.made /\ sink.kind = "insert" => out'.at = since.at + Count'
    BY <1>1, <1>3, <1>5 DEF OutPlace, OutType
  <2>4. QED
    BY <1>3, <1>5, <2>1, <2>2, <2>3 DEF OutPlace
<1>7. QED
  BY <1>4, <1>6

(* A stream that has failed, or fails now, takes nothing.                  *)
LEMMA NoneTaken ==
  ASSUME TypeInv, OutInv, UNCHANGED <<taken, since, sink>>, NEW e \in Symbols, handed' = Append(handed, e),
         sink.kind \in StreamSinks, out' \in [made : {out.made}, good : {FALSE}, at : Nat], out.made
  PROVE  OutInv'
<1> USE DEF OutInv
<1>1. Count \in 0 .. Len(Given) /\ taken = Placed(Count) /\ Len(Given) \in Nat /\ Given \in Seq(Symbols)
  BY OutTerms DEF OutPlace
<1>2. /\ Given' \in Seq(Symbols)
      /\ Len(Given') = Len(Given) + IF sink.delim THEN 2 ELSE 1
      /\ \A i \in 1 .. Len(Given) : Given'[i] = Given[i]
  BY MoreGiven
<1>3. SubSeq(Given', 1, Count) = SubSeq(Given, 1, Count)
  <2>1. SUFFICES ASSUME NEW f \in Seq(Symbols), f = Given', NEW g \in Seq(Symbols), g = Given,
                        NEW k \in 0 .. Len(g), k = Count
        PROVE  SubSeq(f, 1, k) = SubSeq(g, 1, k)
    BY <1>1, <1>2
  <2>2. Len(g) <= Len(f) /\ \A i \in 1 .. Len(g) : f[i] = g[i]
    BY <1>1, <1>2, <2>1
  <2>3. QED
    BY <2>2, Prefix
<1>4. Count' = Count
  BY DEF Count
<1>5. taken' = Placed(Count)'
  BY <1>1, <1>3, <1>4 DEF Placed
<1>6. OutType'
  <2>1. since.handed \in Nat /\ Len(handed) \in Nat /\ since.handed <= Len(handed) /\ Len(handed') = Len(handed) + 1
    <3>1. handed \in Seq(Symbols)
      BY OutTerms
    <3>2. QED
      BY <3>1 DEF OutType
  <2>2. out' \in [made : BOOLEAN, good : BOOLEAN, at : Nat]
    BY DEF OutType
  <2>3. QED
    BY <2>1, <2>2 DEF OutType
<1>7. OutPlace'
  <2>1. Count' \in 0 .. Len(Given')
    BY <1>1, <1>2, <1>4
  <2>2. sink.kind \notin Inserters
    BY DEF StreamSinks, Inserters
  <2>3. out'.made /\ ~out'.good /\ sink.kind # "insert"
    BY <2>2 DEF Inserters
  <2>4. QED
    BY <1>5, <2>1, <2>2, <2>3 DEF OutPlace
<1>8. QED
  BY <1>6, <1>7

LEMMA OutInit == Init => OutInv
<1> SUFFICES ASSUME Init PROVE OutInv
  OBVIOUS
<1> USE DEF Init, NoOutput, Idle
<1>1. OutType
  BY DEF OutType
<1>2. TypeInv
  BY InitIInv DEF IInv
<1>3. Len(Given) = 0 /\ Given \in Seq(Symbols)
  <2>1. since.handed = 0 /\ Len(handed) = 0 /\ sink.delim \in BOOLEAN
    BY <1>2 DEF TypeInv
  <2>2. 0 \in 0 .. Len(handed) /\ handed \in Seq(Symbols) /\ Given = GivenOf(handed, 0, sink.delim)
    BY <1>1, <1>2, <2>1, OutTerms
  <2>3. Len(Given) = IF sink.delim THEN 2 * (Len(handed) - 0) ELSE Len(handed) - 0
    <3>1. /\ GivenOf(handed, 0, sink.delim) \in Seq(Symbols)
          /\ Len(GivenOf(handed, 0, sink.delim))
               = IF sink.delim THEN 2 * (Len(handed) - 0) ELSE Len(handed) - 0
      BY ONLY <2>1, <2>2, Givens
    <3>2. QED
      BY <2>2, <3>1
  <2>4. QED
    BY <1>1, <1>2, <2>1, <2>3, OutTerms
<1>4. Count = 0
  BY DEF Count
<1>5. Placed(0) = <<>>
  <2>1. SubSeq(Given, 1, 0) = <<>> /\ <<>> \in Seq(Symbols)
    BY <1>3
  <2>2. PlacedOf(sink.kind, since.taken, since.at, <<>>) = since.taken
    <3>1. /\ sink.kind \in StreamSinks \cup Inserters /\ since.taken \in Seq(Symbols)
          /\ since.at \in 0 .. Len(since.taken)
      BY <1>1, <1>2, OutTerms
    <3>2. QED
      BY ONLY <2>1, <3>1, PlacedType
  <2>3. QED
    BY <2>1, <2>2 DEF Placed
<1>6. OutPlace
  BY <1>3, <1>4, <1>5 DEF OutPlace
<1>7. QED
  BY <1>1, <1>6 DEF OutInv

(* A new iterator has been given nothing.                                  *)
LEMMA OutMade == IInv /\ OutInv /\ make_output => OutInv'
<1> SUFFICES ASSUME IInv, OutInv, make_output PROVE OutInv'
  OBVIOUS
<1>1. PICK at \in 0 .. Len(taken) :
        /\ out' = [made |-> TRUE, good |-> TRUE, at |-> at]
        /\ since' = [handed |-> Len(handed), taken |-> taken, at |-> at]
  BY DEF make_output
<1>2. taken' = taken /\ handed' = handed /\ sink' = sink /\ call' = Idle
  BY DEF make_output, Make, Ready, settled
<1>3. TypeInv /\ TypeInv'
  <2>1. UNCHANGED <<source, sink, pos, good, tmp, in, lost, handed, call>>
    BY DEF make_output, settled, input
  <2>2. QED
    BY <2>1 DEF IInv, TypeInv
<1>4. /\ handed \in Seq(Symbols) /\ taken \in Seq(Symbols) /\ Len(handed) \in Nat /\ Len(taken) \in Nat
      /\ sink.delim \in BOOLEAN /\ sink.kind \in StreamSinks \cup Inserters
  BY <1>3, OutTerms DEF OutInv
<1>5. OutType'
  <2>1. taken \in Seq(Nat) /\ at \in Nat /\ at <= Len(taken)
    BY <1>4 DEF OutInv, OutType
  <2>2. QED
    BY <1>1, <1>2, <1>4, <2>1 DEF OutType
<1>6. Given' = GivenOf(handed, Len(handed), sink.delim)
  BY <1>1, <1>2 DEF Given, GivenOf
<1>7. Given' \in Seq(Symbols) /\ Len(Given') = 0
  <2>1. Len(handed) \in 0 .. Len(handed) /\ Len(handed) - Len(handed) = 0
    BY <1>4
  <2>2. Len(GivenOf(handed, Len(handed), sink.delim))
          = IF sink.delim THEN 2 * (Len(handed) - Len(handed)) ELSE Len(handed) - Len(handed)
    BY <1>4, <2>1, Givens
  <2>3. GivenOf(handed, Len(handed), sink.delim) \in Seq(Symbols)
    BY <1>4, <2>1, Givens
  <2>4. QED
    BY <1>6, <2>1, <2>2, <2>3
<1>8. Count' = 0
  BY <1>1, <1>2, <1>4 DEF Count
<1>9. Placed(Count)' = taken
  <2>1. SubSeq(Given', 1, 0) = <<>> /\ <<>> \in Seq(Symbols)
    BY <1>7
  <2>2. PlacedOf(sink.kind, taken, at, <<>>) = taken
    BY <1>4, <2>1, PlacedType
  <2>3. Placed(Count)' = PlacedOf(sink.kind, taken, at, SubSeq(Given', 1, 0))
    BY <1>1, <1>2, <1>8 DEF Placed
  <2>4. QED
    BY <2>1, <2>2, <2>3
<1>10. OutPlace'
  <2>1. /\ out'.made /\ out'.good /\ out'.at = at /\ since'.at = at /\ call'.pc = "idle" /\ at \in Nat
    BY <1>1, <1>2 DEF Idle
  <2>2. ~AtDelimiter'
    BY <2>1 DEF AtDelimiter
  <2>3. Count' \in 0 .. Len(Given') /\ Count' = Len(Given') - 0 /\ since'.at + Count' = at
    BY <1>7, <1>8, <2>1
  <2>4. taken' = Placed(Count)'
    BY <1>2, <1>9
  <2>5. QED
    BY <2>1, <2>2, <2>3, <2>4 DEF OutPlace
<1>11. QED
  BY <1>5, <1>10 DEF OutInv

(* The write of an item.                                                   *)
LEMMA OutAssign == IInv /\ OutInv /\ assign => OutInv'
<1> SUFFICES ASSUME IInv, OutInv, assign PROVE OutInv'
  OBVIOUS
<1>1. Item \in Symbols /\ handed' = Append(handed, Item) /\ UNCHANGED <<since, sink>>
  <2>1. handed' = Append(handed, Item) /\ UNCHANGED <<since, sink>>
    BY DEF assign, write, settled
  <2>2. tmp \in Nat /\ in.item \in Nat /\ pos + 1 \in Nat
    BY DEF IInv, TypeInv
  <2>3. Item \in {tmp, in.item, pos + 1}
    BY DEF Item, read
  <2>4. QED
    BY <2>1, <2>2, <2>3 DEF Symbols
<1>2. TypeInv /\ call.pc \in Phases /\ sink.delim \in BOOLEAN
  BY DEF IInv, TypeInv
<1>3. call.pc \in {"assign", "loop"}
  BY DEF assign, Writing
<1>4. out.made /\ ~AtDelimiter
  BY <1>3 DEF OutInv, OutPlace, AtDelimiter
<1>5. AtDelimiter' <=> sink.delim
  <2>1. call \in [pc : Phases, n : Int]
    BY DEF IInv, TypeInv
  <2>2. CASE sink.delim
    <3>1. call'.pc \in {"delimiter", "last delimiter"}
      BY <2>1, <2>2 DEF assign
    <3>2. QED
      BY <2>2, <3>1 DEF AtDelimiter
  <2>3. CASE ~sink.delim
    <3>1. call'.pc \in {"increment", "idle"}
      BY <2>1, <2>3 DEF assign, Idle
    <3>2. QED
      BY <1>2, <2>3, <3>1 DEF AtDelimiter
  <2>4. QED
    BY <1>2, <2>2, <2>3
<1>6. out \in [made : BOOLEAN, good : BOOLEAN, at : Nat]
  BY DEF OutInv, OutType
<1>7. ASSUME sink.kind \in StreamSinks, taken' = taken, ~out'.good,
             out' = out \/ out' = [out EXCEPT !.good = FALSE]
      PROVE  OutInv'
  <2>1. out' \in [made : {out.made}, good : {FALSE}, at : Nat]
    BY <1>6, <1>7
  <2>2. QED
    BY <1>1, <1>2, <1>4, <1>7, <2>1, NoneTaken
<1>8. ASSUME sink.kind \in StreamSinks \cup {"back"}, out.good, Takes(Item)
      PROVE  OutInv'
  <2>1. taken' = WithOne(sink.kind, taken, since.at + Count, Item) /\ out' = out /\ sink.kind # "insert"
    BY <1>8 DEF Takes, WithOne, StreamSinks
  <2>2. QED
    BY <1>1, <1>2, <1>4, <1>5, <1>8, <2>1, OneTaken
<1>9. CASE sink.kind = "ostream"
  <2>1. put_ostream(Item) /\ sink.kind \in StreamSinks
    BY <1>9 DEF assign, write, StreamSinks
  <2>2. QED
    BY <1>6, <1>7, <1>8, <2>1 DEF put_ostream, TakesNothing
<1>10. CASE sink.kind = "ostreambuf"
  <2>1. put_ostreambuf(Item) /\ sink.kind \in StreamSinks
    BY <1>10 DEF assign, write, StreamSinks
  <2>2. QED
    BY <1>6, <1>7, <1>8, <2>1 DEF put_ostreambuf, TakesNothing
<1>11. CASE sink.kind \in Inserters
  <2>1. out.good
    BY <1>4, <1>11 DEF OutInv, OutPlace
  <2>2. CASE sink.kind = "back"
    <3>1. Takes(Item)
      BY <2>2 DEF assign, write, push_back
    <3>2. QED
      BY <1>8, <2>1, <2>2, <3>1
  <2>3. CASE sink.kind = "front"
    <3>1. taken' = <<Item>> \o taken /\ out' = out
      BY <2>3 DEF assign, write, push_front
    <3>2. taken' = WithOne(sink.kind, taken, since.at + Count, Item)
      BY <2>3, <3>1 DEF WithOne, StreamSinks
    <3>3. QED
      BY <1>1, <1>2, <1>4, <1>5, <2>1, <2>3, <3>1, <3>2, OneTaken
  <2>4. CASE sink.kind = "insert"
    <3>1. /\ taken' = SubSeq(taken, 1, out.at) \o <<Item>> \o SubSeq(taken, out.at + 1, Len(taken))
          /\ out' = [out EXCEPT !.at = @ + 1]
      BY <2>4 DEF assign, write, insert
    <3>2. out.at = since.at + Count
      BY <1>4, <2>4 DEF OutInv, OutPlace
    <3>3. taken' = WithOne(sink.kind, taken, since.at + Count, Item)
      BY <2>4, <3>1, <3>2 DEF WithOne, StreamSinks
    <3>4. QED
      BY <1>1, <1>2, <1>4, <1>5, <2>1, <2>4, <3>1, <3>3, OneTaken
  <2>5. QED
    BY <1>11, <2>2, <2>3, <2>4 DEF Inserters
<1>12. QED
  BY <1>2, <1>9, <1>10, <1>11 DEF TypeInv, StreamSinks

(* The delimiter behind an item: the last symbol that was given.           *)
LEMMA OutDelimiter == IInv /\ OutInv /\ assign_delimiter => OutInv'
<1> SUFFICES ASSUME IInv, OutInv, assign_delimiter PROVE OutInv'
  OBVIOUS
<1>1. AtDelimiter /\ UNCHANGED <<handed, since, sink>> /\ put_ostream(0)
  BY DEF assign_delimiter, AtDelimiter, settled
<1>2. TypeInv /\ OutType /\ sink.delim
  BY <1>1 DEF IInv, CallInv, AtDelimiter, OutInv
<1>3. sink.kind = "ostream" /\ sink.kind \in StreamSinks /\ sink.kind \notin Inserters
  BY <1>2 DEF TypeInv, StreamSinks, Inserters
<1>4. call \in [pc : Phases, n : Int] /\ call'.pc \in {"increment", "idle"}
  <2>1. call \in [pc : Phases, n : Int]
    BY <1>2 DEF TypeInv
  <2>2. QED
    BY <2>1 DEF assign_delimiter, Idle
<1>5. ~AtDelimiter' /\ out.made
  BY <1>1, <1>4 DEF AtDelimiter, OutInv, OutPlace
<1>6. out \in [made : BOOLEAN, good : BOOLEAN, at : Nat]
  BY <1>2 DEF OutType
<1>7. Given' = Given
  BY <1>1 DEF Given
<1>8. Count \in 0 .. Len(Given) /\ taken = Placed(Count) /\ Len(Given) \in Nat /\ Given \in Seq(Symbols)
  BY <1>2, OutTerms DEF OutInv, OutPlace
<1>9. CASE taken' = taken /\ (out' = [out EXCEPT !.good = FALSE] \/ (out' = out /\ ~out.good))
  <2>1. out'.made = out.made /\ ~out'.good /\ out' \in [made : BOOLEAN, good : BOOLEAN, at : Nat]
    BY <1>6, <1>9
  <2>2. OutType'
    BY <1>1, <1>2, <1>9, <2>1 DEF OutType
  <2>3. Count' = Count /\ Placed(Count)' = Placed(Count)
    BY <1>1, <1>7, <1>9 DEF Count, Placed
  <2>4. OutPlace'
    BY <1>1, <1>3, <1>5, <1>7, <1>8, <1>9, <2>1, <2>3 DEF OutPlace, Inserters
  <2>5. QED
    BY <2>2, <2>4 DEF OutInv
<1>10. CASE out.good /\ Takes(0)
  <2>1. Count = Len(Given) - 1
    BY <1>1, <1>10 DEF OutInv, OutPlace
  <2>2. Given[Count + 1] = 0
    <3>1. /\ handed \in Seq(Symbols) /\ since.handed \in 0 .. Len(handed) /\ sink.delim \in BOOLEAN
          /\ Given = GivenOf(handed, since.handed, sink.delim)
      BY <1>2, OutTerms
    <3>2. /\ Len(Given) = 2 * (Len(handed) - since.handed)
          /\ \A k \in 1 .. Len(Given) :
               Given[k] = IF k % 2 = 1 THEN handed[since.handed + ((k + 1) \div 2)] ELSE 0
      BY <1>2, <3>1, Givens
    <3>3. Len(handed) - since.handed \in Nat
      BY <3>1
    <3>4. Count + 1 = Len(Given) /\ Count + 1 \in 1 .. Len(Given) /\ (Count + 1) % 2 # 1
      <4>1. ASSUME NEW m \in Nat, NEW l, l = 2 * m, l - 1 \in 0 .. l
            PROVE  l \in 1 .. l /\ l % 2 # 1
        BY <4>1
      <4>2. Len(Given) \in 1 .. Len(Given) /\ Len(Given) % 2 # 1
        BY <1>8, <2>1, <3>2, <3>3, <4>1
      <4>3. QED
        BY <1>8, <2>1, <4>2
    <3>5. QED
      BY <3>2, <3>4
  <2>3. taken' = WithOne(sink.kind, taken, since.at + Count, 0) /\ out' = out
    BY <1>3, <1>10 DEF Takes, WithOne
  <2>4. taken' \in Seq(Symbols) /\ Count' = Count + 1 /\ taken' = Placed(Count)'
    <3>1. /\ Given' \in Seq(Symbols) /\ Len(Given) <= Len(Given') /\ Count < Len(Given')
          /\ \A i \in 1 .. Len(Given) : Given'[i] = Given[i]
          /\ taken' = WithOne(sink.kind, taken, since.at + Count, Given'[Count + 1])
      BY <1>7, <1>8, <2>1, <2>2, <2>3
    <3>2. QED
      BY <1>1, <1>2, <1>8, <3>1, Advanced
  <2>5. OutType'
    BY <1>1, <1>2, <2>3, <2>4 DEF OutType, Symbols
  <2>6. OutPlace'
    BY <1>1, <1>3, <1>5, <1>7, <1>8, <2>1, <2>3, <2>4 DEF OutPlace, Inserters
  <2>7. QED
    BY <2>5, <2>6 DEF OutInv
<1>11. QED
  <2>1. \/ ~out.good /\ TakesNothing
        \/ out.good /\ Takes(0)
        \/ taken' = taken /\ out' = [out EXCEPT !.good = FALSE]
    BY <1>1, <1>6 DEF put_ostream
  <2>2. QED
    BY <1>9, <1>10, <2>1 DEF TakesNothing

LEMMA OutNext == IInv /\ OutInv /\ [Next]_vars => OutInv'
<1> SUFFICES ASSUME IInv, OutInv, [Next]_vars PROVE OutInv'
  OBVIOUS
<1> USE DEF settled, output, AtDelimiter, Idle
<1>1. CASE make_input
  BY <1>1, Kept DEF make_input, OutInv, OutPlace
<1>2. CASE make_output
  BY <1>2, OutMade
<1>3. CASE skip_malformed
  BY <1>3, Kept DEF skip_malformed, OutInv, OutPlace
<1>4. CASE copy \/ copy_n
  <2>1. \E n \in Int : Start("loop", n)
    BY <1>4, Text DEF copy, copy_n, IInv
  <2>2. UNCHANGED <<taken, handed, since, sink, out>> /\ call = Idle /\ call'.pc = "loop" /\ out.made
    BY <2>1 DEF Start, Ready
  <2>3. QED
    BY <2>2, Kept
<1>5. CASE post_increment
  <2>1. UNCHANGED <<taken, handed, since, sink, out>> /\ call = Idle /\ call'.pc = "assign" /\ out.made
    BY <1>5 DEF post_increment, Ready
  <2>2. QED
    BY <2>1, Kept
<1>6. CASE post_increment_throws
  BY <1>6, Kept DEF post_increment_throws, OutInv, OutPlace
<1>7. CASE copy_returns
  BY <1>7, Kept DEF copy_returns
<1>8. CASE assign
  BY <1>8, OutAssign
<1>9. CASE assign_throws
  BY <1>9, Kept DEF assign_throws, write_throws, read_throws
<1>10. CASE assign_delimiter
  BY <1>10, OutDelimiter
<1>11. CASE delimiter_throws
  BY <1>11, Kept DEF delimiter_throws
<1>12. CASE increment
  <2>1. UNCHANGED <<taken, handed, since, sink, out>> /\ call.pc = "increment" /\ call'.pc = "loop"
    BY <1>12 DEF increment
  <2>2. out.made
    BY <2>1 DEF OutInv, OutPlace
  <2>3. QED
    BY <2>1, <2>2, Kept
<1>13. CASE increment_throws
  BY <1>13, Kept DEF increment_throws
<1>14. CASE UNCHANGED vars
  BY <1>14, Kept DEF vars, OutInv, OutPlace
<1>15. QED
  BY <1>1, <1>2, <1>3, <1>4, <1>5, <1>6, <1>7, <1>8, <1>9, <1>10, <1>11, <1>12, <1>13, <1>14
     DEF Next, Running

(* What a target holds is what its iterator was given up to some point.    *)
LEMMA OutFaithful == TypeInv /\ OutInv => OutputFaithful
<1> SUFFICES ASSUME TypeInv, OutInv PROVE OutputFaithful
  OBVIOUS
<1> DEFINE k == Len(taken) - Len(since.taken)  got == SubSeq(Given, 1, k)
<1>1. k = Count /\ k \in 0 .. Len(Given) /\ taken = PlacedOf(sink.kind, since.taken, since.at, got)
  BY DEF OutInv, OutPlace, Placed, Count
<1>2. Given \in Seq(Symbols) /\ sink.kind \in StreamSinks \cup Inserters
  BY OutTerms DEF OutInv
<1>3. Len(got) = k
  <2>1. ASSUME NEW g \in Seq(Symbols), NEW n \in 0 .. Len(g) PROVE Len(SubSeq(g, 1, n)) = n
    OBVIOUS
  <2> HIDE DEF k
  <2>2. QED
    BY <1>1, <1>2, <2>1
<1>4. out.good /\ Ready => k = Len(Given)
  BY <1>1, <1>2 DEF OutInv, OutPlace, Ready, Idle, AtDelimiter
<1> HIDE DEF k
<1>5. taken = CASE sink.kind \in StreamSinks \cup {"back"} -> since.taken \o got
                [] sink.kind = "front" -> [i \in 1 .. k |-> got[k - i + 1]] \o since.taken
                [] sink.kind = "insert" ->
                     SubSeq(since.taken, 1, since.at) \o got
                       \o SubSeq(since.taken, since.at + 1, Len(since.taken))
  <2> HIDE DEF got
  <2>1. QED
    BY <1>1, <1>3 DEF PlacedOf
<1>6. QED
  BY <1>1, <1>4, <1>5 DEF OutputFaithful, k

(* The two invariants together, for any texts and bounds.                  *)
THEOREM OutputInvariant == Spec => [](IInv /\ OutInv)
<1>1. Init => IInv /\ OutInv
  BY InitIInv, OutInit
<1>2. IInv /\ OutInv /\ [Next]_vars => (IInv /\ OutInv)'
  BY NextIInv, OutNext
<1>3. QED
  BY <1>1, <1>2, PTL DEF Spec

(* A target holds what its iterator was given, in its place and order, up  *)
(* to the first failure, and all of it when there was none: the inserters  *)
(* of detail/iterator/ and the stream iterators that swallow what comes    *)
(* after a failure.                                                        *)
THEOREM OutputIsFaithful == Spec => []OutputFaithful
<1>1. IInv /\ OutInv => OutputFaithful
  BY OutFaithful DEF IInv
<1>2. QED
  BY <1>1, OutputInvariant, PTL
=============================================================================
