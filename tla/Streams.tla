------------------------------- MODULE Streams --------------------------------
(***************************************************************************)
(* The single pass iterators of stl2 and the loops that drive them: a      *)
(* client copies a text from an istream_iterator or an istreambuf_iterator *)
(* to an ostream_iterator, an ostreambuf_iterator or an inserter.  An item *)
(* is named by its place in the text.  The streams fail, or throw, the     *)
(* client goes on with the iterators that a call returns, and makes new    *)
(* ones when it wants to or when an exception took the old ones.           *)
(***************************************************************************)
EXTENDS Integers, Sequences

CONSTANTS
  Texts,       \* the texts: sequences of "item" and "malformed"
  MaxMakes,    \* bound: how many iterators the client makes
  MaxFaults    \* bound: how often the target of the output fails
ASSUME StreamsAssumption ==
  /\ Texts \subseteq Seq({"item", "malformed"})
  /\ MaxMakes \in Nat /\ MaxFaults \in Nat

SourceKinds == {"istream", "istreambuf"}
StreamSinks == {"ostream", "ostreambuf"}
Inserters == {"back", "front", "insert"}

VARIABLES
  source,      \* its kind, text, and whether the stream throws when it fails; settled
  pos,         \* how many items were taken from the text
  good,        \* the state of the input stream
  in,          \* the input iterator: its state, and the item an istream_iterator has read
  tmp,         \* the item in the result of a post-increment, or 0
  lost,        \* auxiliary: the items that went with an iterator, or were skipped
  sink,        \* its kind, whether there is a delimiter, whether it throws; settled
  taken,       \* what the target of the output holds: items, and 0 for a delimiter
  out,         \* the output iterator: whether it is there, sbuf_ or the stream state, insert position
  handed,      \* auxiliary: the items that were written to an output iterator
  since,       \* auxiliary: what handed and taken were when the output iterator was made
  call,        \* where the call that runs is, and how many steps it has left; -1 without a count
  makes, faults
vars == <<source, pos, good, in, tmp, lost, sink, taken, out, handed, since, call, makes, faults>>
input == <<pos, good, in, tmp, lost>>
output == <<taken, out, handed, since>>
settled == <<source, sink>>

NoIterator == [state |-> "none", item |-> 0]
AtEnd == [state |-> "end", item |-> 0]
Live(item) == [state |-> "live", item |-> item]
NoOutput == [made |-> FALSE, good |-> FALSE, at |-> 0]
Idle == [pc |-> "idle", n |-> 0]

(* Any character is an item.                                               *)
Init ==
  /\ source \in [kind : SourceKinds, text : Texts, throws : BOOLEAN]
  /\ source.kind = "istreambuf" => \A k \in DOMAIN source.text : source.text[k] = "item"
  /\ sink \in [kind : StreamSinks \cup Inserters, delim : BOOLEAN, throws : BOOLEAN]
  /\ sink.kind # "ostream" => ~sink.delim
  /\ sink.kind \in Inserters => sink.throws
  /\ pos = 0 /\ good = TRUE /\ in = NoIterator /\ tmp = 0 /\ lost = {}
  /\ taken = <<>> /\ out = NoOutput /\ handed = <<>> /\ since = [handed |-> 0, taken |-> <<>>, at |-> 0]
  /\ call = Idle /\ makes = 0 /\ faults = 0

-----------------------------------------------------------------------------
(* The input iterators.                                                    *)
remaining == Len(source.text) - pos

(* What the client has of the text and has not written yet.                *)
Held == (IF in.state = "live" /\ in.item # 0 /\ call.pc \notin {"delimiter", "increment"}
         THEN {in.item} ELSE {})
        \cup (IF tmp = 0 THEN {} ELSE {tmp})

(* read(): the cached item, or the next one of the buffer.                 *)
read == IF source.kind = "istream" THEN in.item ELSE pos + 1

(* *stream_ >> value                                                       *)
Extracts == good /\ remaining > 0 /\ source.text[pos + 1] = "item"

(* next() that returns: an istream_iterator whose stream failed is at the  *)
(* end; an istreambuf_iterator looks whether there is another character.   *)
next_istream ==
  /\ source.kind = "istream"
  /\ IF Extracts THEN pos' = pos + 1 /\ good' = good /\ in' = Live(pos + 1)
     ELSE ~source.throws /\ pos' = pos /\ good' = FALSE /\ in' = AtEnd

next_istreambuf ==
  /\ source.kind = "istreambuf"
  /\ remaining > 0
  /\ pos' = pos + 1 /\ good' = good
  /\ in' = IF remaining = 1 THEN AtEnd ELSE Live(0)

next == next_istream \/ next_istreambuf

(* next() that throws leaves the iterator as it was; its holder drops it.  *)
next_istream_throws ==
  /\ source.kind = "istream" /\ ~Extracts /\ source.throws
  /\ pos' = pos /\ good' = FALSE /\ in' = NoIterator

(* The buffer cannot be filled: sbumpc() throws or, when it has consumed a *)
(* character, the sgetc() that looks for another one.                      *)
next_istreambuf_throws ==
  /\ source.kind = "istreambuf" /\ source.throws
  /\ pos' \in {pos, pos + 1} /\ good' = good /\ in' = NoIterator

next_throws == next_istream_throws \/ next_istreambuf_throws

-----------------------------------------------------------------------------
(* The output iterators: *result = item.  A target takes a symbol or not.  *)
Fails == faults < MaxFaults /\ faults' = faults + 1
Works == faults' = faults

Takes(symbol) == taken' = Append(taken, symbol) /\ UNCHANGED out /\ Works
TakesNothing == taken' = taken /\ UNCHANGED out /\ Works

(* An ostream that has failed ignores what it is given.                    *)
put_ostream(symbol) ==
  IF ~out.good THEN TakesNothing
  ELSE \/ Takes(symbol)
       \/ ~sink.throws /\ Fails /\ taken' = taken /\ out' = [out EXCEPT !.good = FALSE]

(* sputc() that fails clears sbuf_, for good.  One faulty form keeps it,   *)
(* the other one goes on through it.                                       *)
put_ostreambuf_anyway(item) ==
  \/ Takes(item)
  \/ Fails /\ taken' = taken /\ UNCHANGED out


put_ostreambuf(item) ==
  IF ~out.good THEN TakesNothing
  ELSE \/ Takes(item)
       \/ Fails /\ taken' = taken /\ out' = [out EXCEPT !.good = FALSE]

push_back(item) == Takes(item)
push_front(item) == taken' = <<item>> \o taken /\ UNCHANGED out /\ Works
insert(item) ==
  /\ taken' = SubSeq(taken, 1, out.at) \o <<item>> \o SubSeq(taken, out.at + 1, Len(taken))
  /\ out' = [out EXCEPT !.at = @ + 1]
  /\ Works

write(item) ==
  /\ handed' = Append(handed, item)
  /\ CASE sink.kind = "ostream" -> put_ostream(item)
       [] sink.kind = "ostreambuf" -> put_ostreambuf(item)
       [] sink.kind = "back" -> push_back(item)
       [] sink.kind = "front" -> push_front(item)
       [] sink.kind = "insert" -> insert(item)

(* Nothing is taken where a write throws: a container had no memory.       *)
MayThrow == sink.throws /\ out.good
write_throws ==
  /\ MayThrow /\ Fails
  /\ UNCHANGED <<handed, taken>> /\ out' = NoOutput

-----------------------------------------------------------------------------
(* The client.                                                             *)
Ready == call = Idle
Make == Ready /\ makes < MaxMakes /\ makes' = makes + 1

(* istream_iterator{stream} reads at once.                                 *)
make_input ==
  /\ Make
  /\ \/ next_istream
     \/ next_istream_throws
     \/ source.kind = "istreambuf" /\ remaining > 0 /\ in' = Live(0) /\ UNCHANGED <<pos, good>>
  /\ lost' = lost \cup Held
  /\ tmp' = 0
  /\ UNCHANGED <<settled, output, call, faults>>

(* The stream is cleared, and an insert_iterator starts somewhere.         *)
make_output ==
  /\ Make
  /\ \E at \in 0 .. Len(taken) :
       /\ sink.kind # "insert" => at = 0
       /\ out' = [made |-> TRUE, good |-> TRUE, at |-> at]
       /\ since' = [handed |-> Len(handed), taken |-> taken, at |-> at]
  /\ UNCHANGED <<settled, input, taken, handed, call, faults>>

(* The stream is cleared and a malformed item is skipped.                  *)
skip_malformed ==
  /\ Ready /\ in.state # "live" /\ source.kind = "istream" /\ ~good
  /\ remaining > 0 /\ source.text[pos + 1] = "malformed"
  /\ pos' = pos + 1 /\ good' = TRUE /\ lost' = lost \cup {pos + 1}
  /\ UNCHANGED <<settled, in, tmp, output, call, makes, faults>>

Start(pc, n) ==
  /\ Ready /\ out.made /\ in.state # "none"
  /\ call' = [pc |-> pc, n |-> n]
  /\ UNCHANGED <<settled, input, output, makes, faults>>

copy == Start("loop", -1)

(* There are n items to read from the iterator on.                         *)
Readable(n) ==
  IF source.kind = "istreambuf" THEN in.state = "live" /\ n <= remaining
  ELSE in.state = "live" /\ n - 1 <= remaining
       /\ \A k \in 1 .. n - 1 : good /\ source.text[pos + k] = "item"

copy_n == \E n \in 0 .. Len(source.text) : (n = 0 \/ Readable(n)) /\ Start("loop", n)

(* *result = *first++: a copy with the old item, then the write.  The      *)
(* faulty one copies after the increment.                                  *)
post_increment_late ==
  /\ Ready /\ out.made /\ in.state = "live"
  /\ next
  /\ tmp' = IF source.kind = "istream" THEN in'.item ELSE pos'
  /\ call' = [pc |-> "assign", n |-> 0]
  /\ UNCHANGED <<settled, lost, output, makes, faults>>

post_increment ==
  /\ Ready /\ out.made /\ in.state = "live"
  /\ tmp' = read
  /\ next
  /\ call' = [pc |-> "assign", n |-> 0]
  /\ UNCHANGED <<settled, lost, output, makes, faults>>

(* The copy goes with the exception, and a character that was consumed.    *)
post_increment_throws ==
  /\ Ready /\ out.made /\ in.state = "live"
  /\ next_throws
  /\ lost' = lost \cup Held \cup pos + 1 .. pos'
  /\ tmp' = 0
  /\ UNCHANGED <<settled, output, call, makes, faults>>

-----------------------------------------------------------------------------
(* The loop of copy and copy_n: a test, *result = *first, ++first.         *)
AtBound == IF call.n < 0 THEN in.state = "end" ELSE call.n = 0

copy_returns ==
  /\ call.pc = "loop" /\ AtBound
  /\ call' = Idle
  /\ UNCHANGED <<settled, input, output, makes, faults>>

(* What is written: in the loop, or by the assignment.                     *)
Item == IF call.pc = "assign" THEN tmp ELSE read
Writing == call.pc = "assign" \/ (call.pc = "loop" /\ ~AtBound)

assign ==
  /\ Writing
  /\ write(Item)
  /\ tmp' = 0
  /\ call' = IF sink.delim THEN [call EXCEPT !.pc = IF call.pc = "loop" THEN "delimiter" ELSE "last delimiter"]
             ELSE IF call.pc = "loop" THEN [call EXCEPT !.pc = "increment"] ELSE Idle
  /\ UNCHANGED <<settled, pos, good, in, lost, since, makes>>

(* The sgetc() of *first throws, and nothing is written.                   *)
read_throws ==
  /\ source.kind = "istreambuf" /\ source.throws /\ call.pc = "loop"
  /\ UNCHANGED <<handed, taken, faults>> /\ out' = NoOutput

(* The iterators of a call that throws are gone; the client drops its own. *)
assign_throws ==
  /\ Writing
  /\ write_throws \/ read_throws
  /\ tmp' = 0 /\ call' = Idle /\ in' = NoIterator
  /\ lost' = lost \cup Held
  /\ UNCHANGED <<settled, pos, good, since, makes>>

assign_delimiter ==
  /\ call.pc \in {"delimiter", "last delimiter"}
  /\ put_ostream(0)
  /\ call' = IF call.pc = "delimiter" THEN [call EXCEPT !.pc = "increment"] ELSE Idle
  /\ UNCHANGED <<settled, input, handed, since, makes>>

delimiter_throws ==
  /\ call.pc \in {"delimiter", "last delimiter"}
  /\ MayThrow /\ Fails
  /\ taken' = taken /\ out' = NoOutput /\ in' = NoIterator /\ call' = Idle
  /\ lost' = lost \cup Held
  /\ UNCHANGED <<settled, pos, good, tmp, handed, since, makes>>

increment ==
  /\ call.pc = "increment"
  /\ next
  /\ call' = [pc |-> "loop", n |-> IF call.n > 0 THEN call.n - 1 ELSE call.n]
  /\ UNCHANGED <<settled, tmp, lost, output, makes, faults>>

increment_throws ==
  /\ call.pc = "increment"
  /\ next_throws
  /\ call' = Idle /\ out' = NoOutput
  /\ UNCHANGED <<settled, tmp, lost, taken, handed, since, makes, faults>>

Running == \/ copy_returns \/ assign \/ assign_throws \/ assign_delimiter \/ delimiter_throws
           \/ increment \/ increment_throws

Next == \/ make_input \/ make_output \/ skip_malformed \/ copy \/ copy_n
        \/ post_increment \/ post_increment_throws \/ Running

Spec == Init /\ [][Next]_vars /\ WF_vars(Running)

-----------------------------------------------------------------------------
(* Every item that was taken from the text was written once, in its order, *)
(* or is still to be written, or went with an iterator that read ahead:    *)
(* nothing else is lost and nothing is repeated, whatever throws.  Only a  *)
(* character whose delimiter or increment throws may have been written and *)
(* not consumed.                                                           *)
MayRepeat == source.kind = "istreambuf" /\ (source.throws \/ (sink.delim /\ sink.throws))

InOrder(i, j) == handed[i] < handed[j] \/ (handed[i] = handed[j] /\ MayRepeat)

HandedItems == {handed[i] : i \in DOMAIN handed}

ItemsOnce ==
  /\ \A i, j \in DOMAIN handed : i < j => InOrder(i, j)
  /\ 1 .. pos \subseteq HandedItems \cup Held \cup lost
  /\ MayRepeat \/ HandedItems \cap (Held \cup lost) = {}
  /\ Held \cap lost = {}

(* What the target holds of what an output iterator was given is a prefix, *)
(* in the place and order that the iterator is for: after a failure come   *)
(* no more items.  It is all of it unless the iterator failed or threw.    *)
Given ==
  LET items == SubSeq(handed, since.handed + 1, Len(handed))
  IN IF sink.delim THEN [k \in 1 .. 2 * Len(items) |-> IF k % 2 = 1 THEN items[(k + 1) \div 2] ELSE 0]
     ELSE items

OutputFaithful ==
  LET before == since.taken
      k == Len(taken) - Len(before)
      got == SubSeq(Given, 1, k)
  IN /\ k \in 0 .. Len(Given)
     /\ taken = CASE sink.kind \in StreamSinks \cup {"back"} -> before \o got
                  [] sink.kind = "front" -> [i \in 1 .. k |-> got[k - i + 1]] \o before
                  [] sink.kind = "insert" ->
                       SubSeq(before, 1, since.at) \o got \o SubSeq(before, since.at + 1, Len(before))
     /\ out.good /\ Ready => k = Len(Given)

(* A call returns or throws.                                               *)
CallsReturn == ~Ready ~> Ready
=============================================================================
