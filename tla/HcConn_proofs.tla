---------------------------- MODULE HcConn_proofs ----------------------------
(***************************************************************************)
(* Proofs about a connection to herdr-core, for any number of calls and of *)
(* frames.                                                                 *)
(***************************************************************************)
EXTENDS HcConn, SequenceTheorems, WellFoundedInduction, TLAPS

-----------------------------------------------------------------------------
(* The inductive invariant.                                                *)

Item == [of : Calls, kind : {"frame", "reply", "error"}, n : Nat]

IsChannel(ch) ==
    ch \in [got : {ch.got}, ended : BOOLEAN, lost : BOOLEAN, closed : BOOLEAN]

ChansTyped ==
    /\ chan = [c \in Calls |-> chan[c]]
    /\ \A c \in Calls : IsChannel(chan[c])

HcTyped ==
    /\ HcTypeOK
    /\ early \in [Calls -> Seq(Nat)]
    /\ ChansTyped
    /\ core \in [Calls -> {"none", "asked", "open", "closed"}]
    /\ sent \in [Calls -> Nat]
    /\ wire \in Seq(Item)
    /\ dropped \subseteq Calls /\ askedClose \subseteq Calls

\* What is on its way for channel c: nothing, its CLOSE, the reply to its call.
Silent(c) == \A i \in 1..Len(wire) : wire[i].of # c
Ends(c) == \E i \in 1..Len(wire) :
    wire[i].of = c /\ wire[i].kind = "frame" /\ wire[i].n = CLOSE
Answers(c) == \E i \in 1..Len(wire) : wire[i].of = c /\ wire[i].kind # "frame"

\* The core's CLOSE of c is still to come, or there is nothing left to come.
Alive(c) == core[c] = "open" \/ Ends(c)
Gone(c) == core[c] = "closed" /\ Silent(c)

Unanswered(c) == core[c] = "asked" \/ Answers(c)

\* The order on the way: nothing after a CLOSE, one reply, nothing else with an
\* error.
WireFits ==
    \A c \in Calls : \A i \in 1..Len(wire) : wire[i].of = c =>
        /\ core[c] # "none"
        /\ core[c] = "asked" => wire[i].kind = "frame" /\ wire[i].n # CLOSE
        /\ wire[i].kind = "frame" /\ wire[i].n = CLOSE =>
            /\ core[c] = "closed"
            /\ \A j \in 1..Len(wire) : j > i => wire[j].of # c
        /\ wire[i].kind = "reply" =>
            /\ wire[i].n = CLOSE /\ Alive(c)
            /\ \A j \in 1..Len(wire) :
                wire[j].of = c /\ wire[j].kind # "frame" => j = i
        /\ wire[i].kind = "error" =>
            /\ wire[i].n = CLOSE /\ core[c] = "closed" /\ early[c] = <<>>
            /\ \A j \in 1..Len(wire) : wire[j].of = c => j = i

\* What the core sent before it answered, at each stage of the call.
CoreFits ==
    \A c \in Calls :
        /\ call[c] \in {"idle", "writing"} => core[c] = "none"
        /\ up /\ core[c] = "none" => call[c] \in {"idle", "writing"}
        /\ core[c] \in {"none", "asked"} /\ sent[c] = 0 =>
            early[c] = <<>> /\ Silent(c)
        /\ Unanswered(c) => call[c] \in {"waiting", "failed"}

\* The core's CLOSE is among the frames held.
HeldClose(c) == \E i \in 1..Len(early[c]) : early[c][i] = CLOSE

\* The state of the channel that a call made, as long as the connection is up.
ChannelIs(c) ==
    /\ c \in chans => ~chan[c].ended
    /\ up =>
        /\ ~chan[c].lost
        /\ c \in closing => Alive(c) /\ call[c] \in {"failed", "closed"}
        /\ call[c] \in {"idle", "writing", "waiting"} => ~HeldClose(c)
        /\ call[c] = "waiting" => Unanswered(c)
        /\ call[c] \in {"replied", "answered"} =>
            IF HeldClose(c) THEN Gone(c) ELSE Alive(c)
        /\ call[c] \in {"open", "closing"} =>
            /\ early[c] = <<>>
            /\ (c \in chans /\ Alive(c)) \/ (chan[c].ended /\ Gone(c))
        /\ call[c] \in {"failed", "closed"} /\ c \notin dropped
           /\ ~Unanswered(c) =>
            /\ early[c] = <<>>
            /\ core[c] = "open" => c \in askedClose
            /\ c \in closing \/ Gone(c)

ChannelFits == \A c \in Calls : ChannelIs(c)

\* An open channel is known to the connection, or was told of its end.
LossFits ==
    /\ up => toLose = {}
    /\ ~up => /\ chans = {}
              /\ \A c \in Calls : call[c] = "open" =>
                    chan[c].lost \/ chan[c].ended \/ c \in toLose

IInv == HcTyped /\ WireFits /\ CoreFits /\ ChannelFits /\ LossFits

\* The first k frames are held, and the CLOSE after them if it came.
Held(c, k) ==
    /\ k <= Len(early[c]) /\ Len(early[c]) <= k + 1
    /\ \A i \in 1..k : early[c][i] = i /\ i # CLOSE
    /\ Len(early[c]) = k + 1 => early[c][k + 1] = CLOSE

\* Until its channel is open, frames are held for a call.
Unopened == {"idle", "writing", "waiting", "replied", "answered"}

\* No frame of a channel is lost, doubled or overtaken before it is closed.
InOrder(c) ==
    /\ call[c] \in Unopened => \E k \in Nat : Held(c, k) /\ RestComes(c, k)
    /\ call[c] = "open" =>
        /\ ~chan[c].closed
        /\ \E k \in Nat : chan[c].got = [n \in 1..k |-> n] /\ RestComes(c, k)

Ordered == up => \A c \in Calls : InOrder(c)

-----------------------------------------------------------------------------
(* What comes, and what was read.                                          *)

\* An item sent is the last on its way.
LEMMA Sending ==
    ASSUME HcTyped, NEW f \in Item, wire' = Append(wire, f)
    PROVE  /\ wire' \in Seq(Item)
           /\ Len(wire') = Len(wire) + 1 /\ Len(wire) \in Nat
           /\ \A i \in 1..Len(wire) : wire'[i] = wire[i]
           /\ wire'[Len(wire) + 1] = f
           /\ \A c \in Calls :
                /\ Silent(c)' <=> Silent(c) /\ f.of # c
                /\ Ends(c)' <=> \/ Ends(c)
                                \/ f.of = c /\ f.kind = "frame" /\ f.n = CLOSE
                /\ Answers(c)' <=> Answers(c) \/ (f.of = c /\ f.kind # "frame")
<1>1. wire \in Seq(Item) /\ Len(wire) \in Nat
  BY LenProperties DEF HcTyped
<1>2. /\ wire' \in Seq(Item)
      /\ Len(wire') = Len(wire) + 1
      /\ \A i \in 1..Len(wire) : wire'[i] = wire[i]
      /\ wire'[Len(wire) + 1] = f
  BY <1>1, AppendProperties
<1>3. \A i \in 1..Len(wire') : i \in 1..Len(wire) \/ i = Len(wire) + 1
  BY <1>1, <1>2
<1>4. \A i \in 1..Len(wire) : i \in 1..Len(wire')
  BY <1>1, <1>2
<1>5. Len(wire) + 1 \in 1..Len(wire')
  BY <1>1, <1>2
<1>6. ASSUME NEW c \in Calls
      PROVE  /\ Silent(c)' <=> Silent(c) /\ f.of # c
             /\ Ends(c)' <=> \/ Ends(c)
                             \/ f.of = c /\ f.kind = "frame" /\ f.n = CLOSE
             /\ Answers(c)' <=> Answers(c) \/ (f.of = c /\ f.kind # "frame")
  BY <1>2, <1>3, <1>4, <1>5, Zenon DEF Silent, Ends, Answers
<1> QED BY <1>1, <1>2, <1>6

\* The items that stay move down by one.
LEMMA Reading ==
    ASSUME HcTyped, wire # <<>>, wire' = Tail(wire)
    PROVE  /\ wire' \in Seq(Item) /\ wire[1] \in Item /\ Head(wire) = wire[1]
           /\ Len(wire') = Len(wire) - 1 /\ Len(wire) \in Nat \ {0}
           /\ \A i \in 1..Len(wire') : i + 1 \in 1..Len(wire) /\ wire'[i] = wire[i + 1]
           /\ \A i \in 1..Len(wire) : i = 1 \/ (i - 1 \in 1..Len(wire') /\ wire'[i - 1] = wire[i])
<1>1. wire \in Seq(Item) /\ Len(wire) \in Nat
  BY LenProperties DEF HcTyped
<1>2. Len(wire) # 0
  BY <1>1, EmptySeq
<1>3. /\ wire' \in Seq(Item) /\ Head(wire) \in Item /\ Head(wire) = wire[1]
      /\ Len(wire') = Len(wire) - 1
      /\ \A i \in 1..Len(wire') : wire'[i] = wire[i + 1]
  BY <1>1, HeadTailProperties
<1> QED BY <1>1, <1>2, <1>3

\* What reading the next item leaves on its way.
LEMMA ReadingLeaves ==
    ASSUME HcTyped, WireFits, wire # <<>>, wire' = Tail(wire), NEW c \in Calls
    PROVE  /\ Silent(c) => Silent(c)'
           /\ Ends(c)' => Ends(c)
           /\ Answers(c)' => Answers(c)
           /\ wire[1].of # c => /\ Silent(c)' <=> Silent(c)
                                /\ Ends(c)' <=> Ends(c)
                                /\ Answers(c)' <=> Answers(c)
           /\ wire[1].of = c /\ wire[1].kind = "frame" => (Answers(c)' <=> Answers(c))
           /\ wire[1].of = c /\ ~(wire[1].kind = "frame" /\ wire[1].n = CLOSE) =>
                (Ends(c)' <=> Ends(c))
           /\ wire[1].of = c /\ wire[1].kind = "frame" /\ wire[1].n = CLOSE => Silent(c)'
           /\ wire[1].of = c /\ wire[1].kind # "frame" => ~Answers(c)'
           /\ wire[1].of = c /\ wire[1].kind = "error" => Silent(c)'
<1>1. /\ \A i \in 1..Len(wire') : i + 1 \in 1..Len(wire) /\ wire'[i] = wire[i + 1]
      /\ \A i \in 1..Len(wire) : i = 1 \/ (i - 1 \in 1..Len(wire') /\ wire'[i - 1] = wire[i])
      /\ 1 \in 1..Len(wire) /\ wire[1] \in Item
      /\ \A i \in 1..Len(wire') : i + 1 # 1 /\ i + 1 > 1
  BY Reading
<1>2. /\ Silent(c) => Silent(c)'
      /\ Ends(c)' => Ends(c)
      /\ Answers(c)' => Answers(c)
  BY <1>1 DEF Silent, Ends, Answers
<1>3. ASSUME Answers(c), ~(wire[1].of = c /\ wire[1].kind # "frame")
       PROVE  Answers(c)'
  <2>1. PICK i \in 1..Len(wire) : wire[i].of = c /\ wire[i].kind # "frame"
    BY <1>3 DEF Answers
  <2>2. i - 1 \in 1..Len(wire') /\ wire'[i - 1] = wire[i]
    BY <1>1, <1>3, <2>1
  <2>3. wire'[i - 1].of = c /\ wire'[i - 1].kind # "frame"
    BY <2>1, <2>2
  <2> QED BY <2>2, <2>3, Zenon DEF Answers
<1>4. ASSUME Ends(c), wire[1].of # c
       PROVE  Ends(c)'
  <2>1. PICK i \in 1..Len(wire) : wire[i].of = c /\ wire[i].kind = "frame" /\ wire[i].n = CLOSE
    BY <1>4 DEF Ends
  <2>2. i - 1 \in 1..Len(wire') /\ wire'[i - 1] = wire[i]
    BY <1>1, <1>4, <2>1
  <2> QED BY <2>1, <2>2 DEF Ends
<1>5. wire[1].of # c /\ Silent(c)' => Silent(c)
  BY <1>1 DEF Silent
<1>6. wire[1].of # c => /\ Silent(c)' <=> Silent(c)
                        /\ Ends(c)' <=> Ends(c)
                        /\ Answers(c)' <=> Answers(c)
  BY <1>2, <1>3, <1>4, <1>5
<1>7. wire[1].of = c /\ wire[1].kind = "frame" => (Answers(c)' <=> Answers(c))
  BY <1>2, <1>3
<1>8. wire[1].of = c /\ ~(wire[1].kind = "frame" /\ wire[1].n = CLOSE) =>
        (Ends(c)' <=> Ends(c))
  <2>1. ASSUME Ends(c), ~(wire[1].kind = "frame" /\ wire[1].n = CLOSE)
        PROVE  Ends(c)'
    <3>1. PICK i \in 1..Len(wire) : wire[i].of = c /\ wire[i].kind = "frame" /\ wire[i].n = CLOSE
      BY <2>1 DEF Ends
    <3>2. i # 1
      BY <2>1, <3>1
    <3>3. i - 1 \in 1..Len(wire') /\ wire'[i - 1] = wire[i]
      BY <1>1, <3>2
    <3>4. wire'[i - 1].of = c /\ wire'[i - 1].kind = "frame" /\ wire'[i - 1].n = CLOSE
      BY <3>1, <3>3
    <3> QED BY <3>3, <3>4, Zenon DEF Ends
  <2> QED BY <1>2, <2>1
<1>9. wire[1].of = c /\ wire[1].kind = "frame" /\ wire[1].n = CLOSE => Silent(c)'
  <2>1. wire[1].of = c /\ wire[1].kind = "frame" /\ wire[1].n = CLOSE =>
            \A j \in 1..Len(wire) : j > 1 => wire[j].of # c
    BY <1>1 DEF WireFits
  <2> QED BY <1>1, <2>1 DEF Silent
<1>10. wire[1].kind \in {"frame", "reply", "error"}
  BY <1>1 DEF Item
<1>11. wire[1].of = c /\ wire[1].kind # "frame" => ~Answers(c)'
  <2>1. wire[1].of = c /\ wire[1].kind # "frame" =>
            \A j \in 1..Len(wire) : wire[j].of = c /\ wire[j].kind # "frame" => j = 1
    BY <1>1, <1>10 DEF WireFits
  <2> QED BY <1>1, <2>1 DEF Answers
<1>12. wire[1].of = c /\ wire[1].kind = "error" => Silent(c)'
  <2>1. wire[1].of = c /\ wire[1].kind = "error" =>
            \A j \in 1..Len(wire) : wire[j].of = c => j = 1
    BY <1>1 DEF WireFits
  <2> QED BY <1>1, <2>1 DEF Silent
<1> QED BY <1>2, <1>6, <1>7, <1>8, <1>9, <1>11, <1>12

\* The items that stay keep their order.
LEMMA ReadingFits ==
    ASSUME HcTyped, WireFits, wire # <<>>, wire' = Tail(wire), core' = core,
           \A c \in Calls : early'[c] = early[c] \/ Silent(c)' \/ early'[c] = <<>>
                            \/ wire[1].of = c
    PROVE  WireFits'
<1> SUFFICES ASSUME NEW c \in Calls, NEW i \in 1..Len(wire'), wire'[i].of = c
             PROVE  /\ core[c] # "none"
                    /\ core[c] = "asked" => wire'[i].kind = "frame" /\ wire'[i].n # CLOSE
                    /\ wire'[i].kind = "frame" /\ wire'[i].n = CLOSE =>
                        /\ core[c] = "closed"
                        /\ \A j \in 1..Len(wire') : j > i => wire'[j].of # c
                    /\ wire'[i].kind = "reply" =>
                        /\ wire'[i].n = CLOSE /\ Alive(c)'
                        /\ \A j \in 1..Len(wire') :
                            wire'[j].of = c /\ wire'[j].kind # "frame" => j = i
                    /\ wire'[i].kind = "error" =>
                        /\ wire'[i].n = CLOSE /\ core[c] = "closed" /\ early'[c] = <<>>
                        /\ \A j \in 1..Len(wire') : wire'[j].of = c => j = i
  BY DEF WireFits
<1> DEFINE k == i + 1
<1>1. /\ k \in 1..Len(wire) /\ wire'[i] = wire[k] /\ k > 1 /\ 1 \in 1..Len(wire)
      /\ \A j \in 1..Len(wire') : /\ j + 1 \in 1..Len(wire) /\ wire'[j] = wire[j + 1]
                                  /\ j > i => j + 1 > k
                                  /\ j + 1 = k => j = i
  BY Reading
<1> HIDE DEF k
<1>2. /\ core[c] # "none"
      /\ core[c] = "asked" => wire[k].kind = "frame" /\ wire[k].n # CLOSE
      /\ wire[k].kind = "frame" /\ wire[k].n = CLOSE =>
          /\ core[c] = "closed"
          /\ \A j \in 1..Len(wire) : j > k => wire[j].of # c
      /\ wire[k].kind = "reply" =>
          /\ wire[k].n = CLOSE /\ Alive(c)
          /\ \A j \in 1..Len(wire) :
              wire[j].of = c /\ wire[j].kind # "frame" => j = k
      /\ wire[k].kind = "error" =>
          /\ wire[k].n = CLOSE /\ core[c] = "closed" /\ early[c] = <<>>
          /\ \A j \in 1..Len(wire) : wire[j].of = c => j = k
  BY <1>1 DEF WireFits
<1>3. ~(wire[1].of = c /\ wire[1].kind = "frame" /\ wire[1].n = CLOSE)
  BY <1>1 DEF WireFits
<1>4. Alive(c) => Alive(c)'
  BY <1>3, ReadingLeaves DEF Alive
<1>5. ~Silent(c)'
  BY DEF Silent
<1>6. wire[k].kind = "error" => wire[1].of # c
  BY <1>1, <1>2
<1> QED BY <1>1, <1>2, <1>4, <1>5, <1>6

-----------------------------------------------------------------------------
(* Every step keeps the invariant.                                         *)

\* It holds at the start.
LEMMA InitIInv == HcInit => IInv
<1> SUFFICES ASSUME HcInit PROVE IInv
  OBVIOUS
<1>1. Len(wire) = 0 /\ wire \in Seq(Item)
  BY EmptySeq DEF HcInit
<1>2. <<>> \in Seq(Nat)
  BY EmptySeq
<1>3. HcTyped
  <2>1. ChansTyped
    BY DEF HcInit, ChansTyped, IsChannel, NoChannel
  <2> QED BY <1>1, <1>2, <2>1 DEF HcInit, HcTyped, HcTypeOK
<1>4. WireFits /\ \A c \in Calls : Silent(c) /\ ~Answers(c)
  BY <1>1 DEF WireFits, Silent, Answers
<1>5. CoreFits /\ ChannelFits /\ LossFits
  BY <1>4 DEF HcInit, CoreFits, ChannelFits, ChannelIs, HeldClose, LossFits, Unanswered, NoChannel
<1> QED BY <1>3, <1>4, <1>5 DEF IInv

\* The steps that leave the way from the core alone.
LEMMA WireKept ==
    ASSUME IInv, UNCHANGED <<core, wire>>,
           \A c \in Calls : early'[c] = early[c] \/ early'[c] = <<>>
    PROVE  /\ WireFits'
           /\ \A c \in Calls : /\ Silent(c)' <=> Silent(c)
                               /\ Alive(c)' <=> Alive(c)
                               /\ Gone(c)' <=> Gone(c)
                               /\ Unanswered(c)' <=> Unanswered(c)
<1>1. \A c \in Calls : /\ Silent(c)' <=> Silent(c)
                       /\ Ends(c)' <=> Ends(c)
                       /\ Answers(c)' <=> Answers(c)
  BY DEF Silent, Ends, Answers
<1>2. \A c \in Calls : /\ Alive(c)' <=> Alive(c)
                       /\ Gone(c)' <=> Gone(c)
                       /\ Unanswered(c)' <=> Unanswered(c)
  BY <1>1 DEF Alive, Gone, Unanswered
<1>3. WireFits'
  BY <1>2 DEF IInv, WireFits
<1> QED BY <1>1, <1>2, <1>3

\* A channel is changed alone.
LEMMA ChanSet ==
    ASSUME ChansTyped, NEW c \in Calls, NEW r, IsChannel(r),
           chan' = [chan EXCEPT ![c] = r]
    PROVE  /\ ChansTyped' /\ chan'[c] = r
           /\ \A d \in Calls : d # c => chan'[d] = chan[d]
<1>1. chan' = [d \in Calls |-> IF d = c THEN r ELSE chan[d]]
  BY DEF ChansTyped
<1>2. /\ \A d \in Calls : d # c => chan'[d] = chan[d]
      /\ chan'[c] = r
  BY <1>1
<1>3. \A d \in Calls : IsChannel(chan'[d])
  BY <1>2 DEF ChansTyped
<1>4. chan' = [d \in Calls |-> chan'[d]]
  BY <1>1
<1> QED BY <1>2, <1>3, <1>4 DEF ChansTyped

\* Either of its marks is set.
LEMMA Marked ==
    ASSUME NEW ch, IsChannel(ch)
    PROVE  /\ LET r == [ch EXCEPT !.lost = TRUE]
              IN IsChannel(r) /\ r.ended = ch.ended /\ r.lost
           /\ LET r == [ch EXCEPT !.closed = TRUE]
              IN IsChannel(r) /\ r.ended = ch.ended /\ r.lost = ch.lost
           /\ LET r == [ch EXCEPT !.ended = TRUE]
              IN IsChannel(r) /\ r.ended /\ r.lost = ch.lost
<1>1. LET r == [ch EXCEPT !.lost = TRUE]
      IN IsChannel(r) /\ r.ended = ch.ended /\ r.lost
  BY DEF IsChannel
<1>2. LET r == [ch EXCEPT !.closed = TRUE]
      IN IsChannel(r) /\ r.ended = ch.ended /\ r.lost = ch.lost
  BY DEF IsChannel
<1>3. LET r == [ch EXCEPT !.ended = TRUE]
      IN IsChannel(r) /\ r.ended /\ r.lost = ch.lost
  BY DEF IsChannel
<1> QED BY <1>1, <1>2, <1>3

\* The maps are emptied, and every open channel is to be told.
LEMMA FailKeeps == IInv /\ Fail => IInv'
<1> SUFFICES ASSUME IInv, Fail PROVE IInv'
  OBVIOUS
<1>1. HcTyped'
  BY EmptySeq DEF IInv, HcTyped, ChansTyped, HcTypeOK, Fail, coreVars
<1>2. /\ WireFits'
      /\ \A c \in Calls : /\ Silent(c)' <=> Silent(c)
                          /\ Unanswered(c)' <=> Unanswered(c)
  BY WireKept DEF Fail, coreVars
<1>3. CoreFits'
  BY <1>2 DEF IInv, CoreFits, Fail, coreVars
<1>4. ChannelFits' /\ LossFits'
  BY DEF IInv, ChannelFits, ChannelIs, HeldClose, LossFits, Fail, coreVars
<1> QED BY <1>1, <1>2, <1>3, <1>4 DEF IInv

\* A channel is told.
LEMMA LoseKeeps == \A c \in Calls : IInv /\ Lose(c) => IInv'
<1> SUFFICES ASSUME IInv, NEW c \in Calls, Lose(c) PROVE IInv'
  OBVIOUS
<1> DEFINE r == [chan[c] EXCEPT !.lost = TRUE]
<1>6. IsChannel(r) /\ r.ended = chan[c].ended /\ r.lost /\ chan' = [chan EXCEPT ![c] = r]
  BY Marked DEF IInv, HcTyped, ChansTyped, Lose
<1> HIDE DEF r
<1>7. /\ ChansTyped' /\ chan'[c] = r
      /\ \A d \in Calls : d # c => chan'[d] = chan[d]
  BY <1>6, ChanSet DEF IInv, HcTyped
<1>1. HcTyped'
  BY <1>7 DEF IInv, HcTyped, ChansTyped, HcTypeOK, Lose, coreVars
<1>2. /\ WireFits'
      /\ \A d \in Calls : /\ Silent(d)' <=> Silent(d)
                          /\ Unanswered(d)' <=> Unanswered(d)
  BY WireKept DEF Lose, coreVars
<1>3. CoreFits'
  BY <1>2 DEF IInv, CoreFits, Lose, coreVars
<1>4. ~up
  BY DEF IInv, LossFits, Lose
<1>5. ChannelFits' /\ LossFits'
  BY <1>4, <1>6, <1>7 DEF IInv, ChannelFits, ChannelIs, HeldClose, LossFits, Lose, coreVars
<1> QED BY <1>1, <1>2, <1>3, <1>5 DEF IInv

\* A call that is registered waits, unless the connection ended.
LEMMA RegisterKeeps == \A c \in Calls : IInv /\ Register(c) => IInv'
<1> SUFFICES ASSUME IInv, NEW c \in Calls, Register(c) PROVE IInv'
  OBVIOUS
<1>1. HcTyped'
  <2>1. CASE up
    <3>1. /\ call' = [call EXCEPT ![c] = "writing"] /\ pending' = pending \cup {c}
          /\ UNCHANGED <<up, chans, early, closing, toLose, chan, dropped, coreVars>>
      BY <2>1 DEF Register
    <3>2. pending' = {d \in Calls : call'[d] \in {"writing", "waiting"}}
      BY <2>1, <3>1 DEF IInv, HcTyped, HcTypeOK
    <3>3. c \notin chans
      BY DEF IInv, HcTyped, HcTypeOK, Register
    <3>4. ChansTyped'
      BY <3>1 DEF IInv, HcTyped, ChansTyped
    <3> QED BY <3>1, <3>2, <3>3, <3>4 DEF IInv, HcTyped, HcTypeOK, coreVars
  <2>2. CASE ~up
    BY <2>2 DEF IInv, HcTyped, ChansTyped, HcTypeOK, Register, coreVars
  <2> QED BY <2>1, <2>2
<1>2. /\ WireFits'
      /\ \A d \in Calls : /\ Silent(d)' <=> Silent(d)
                          /\ Alive(d)' <=> Alive(d)
                          /\ Gone(d)' <=> Gone(d)
                          /\ Unanswered(d)' <=> Unanswered(d)
  BY WireKept DEF Register, coreVars
<1>3. /\ up' = up /\ (up => call'[c] = "writing") /\ call'[c] \in {"writing", "failed"}
      /\ \A d \in Calls : d # c => call'[d] = call[d]
      /\ call[c] = "idle"
      /\ UNCHANGED <<core, sent, early, closing, chans, chan, dropped, askedClose, toLose>>
  BY DEF IInv, HcTyped, ChansTyped, HcTypeOK, Register, coreVars
<1>4. CoreFits'
  BY <1>2, <1>3 DEF IInv, CoreFits
<1>5. ChannelFits'
  BY <1>2, <1>3 DEF IInv, ChannelFits, ChannelIs, HeldClose
<1>6. LossFits'
  BY <1>3 DEF IInv, LossFits
<1> QED BY <1>1, <1>2, <1>4, <1>5, <1>6 DEF IInv

\* Its request reaches a core that had nothing of it.
LEMMA RequestKeeps == \A c \in Calls : IInv /\ Request(c) => IInv'
<1> SUFFICES ASSUME IInv, NEW c \in Calls, Request(c) PROVE IInv'
  OBVIOUS
<1>1. HcTyped'
  BY DEF IInv, HcTyped, ChansTyped, HcTypeOK, Request
<1>2. /\ up' = up /\ core[c] = "none" /\ call[c] = "writing"
      /\ up => call'[c] = "waiting" /\ core'[c] = "asked"
      /\ ~up => call'[c] = "failed" /\ core'[c] = "none"
      /\ \A d \in Calls : d # c => call'[d] = call[d] /\ core'[d] = core[d]
      /\ UNCHANGED <<wire, sent, early, closing, chans, chan, dropped, askedClose, toLose>>
  BY DEF IInv, HcTyped, ChansTyped, HcTypeOK, CoreFits, Request
<1>3. Silent(c) /\ ~Answers(c)
  BY <1>2 DEF IInv, WireFits, Silent, Answers
<1>4. /\ \A d \in Calls : /\ Silent(d)' <=> Silent(d)
                          /\ Ends(d)' <=> Ends(d)
                          /\ Answers(d)' <=> Answers(d)
  BY <1>2 DEF Silent, Ends, Answers
<1>5. /\ \A d \in Calls : d # c => /\ Alive(d)' <=> Alive(d)
                                   /\ Gone(d)' <=> Gone(d)
                                   /\ Unanswered(d)' <=> Unanswered(d)
      /\ up => Unanswered(c)'
      /\ ~up => ~Unanswered(c)'
  BY <1>2, <1>3, <1>4 DEF Alive, Gone, Unanswered
<1>6. WireFits'
  BY <1>2, <1>3, <1>4, <1>5 DEF IInv, WireFits, Silent
<1>7. CoreFits'
  BY <1>2, <1>3, <1>4, <1>5 DEF IInv, CoreFits
<1>8. ChannelFits'
  BY <1>2, <1>3, <1>4, <1>5 DEF IInv, ChannelFits, ChannelIs, HeldClose
<1>9. LossFits'
  BY <1>2 DEF IInv, LossFits
<1> QED BY <1>1, <1>6, <1>7, <1>8, <1>9 DEF IInv

\* The reply that is taken had opened the channel.
LEMMA TakeReplyKeeps == \A c \in Calls : IInv /\ TakeReply(c) => IInv'
<1> SUFFICES ASSUME IInv, NEW c \in Calls, TakeReply(c) PROVE IInv'
  OBVIOUS
<1>1. HcTyped'
  BY DEF IInv, HcTyped, ChansTyped, HcTypeOK, TakeReply, coreVars
<1>2. /\ WireFits'
      /\ \A d \in Calls : /\ Silent(d)' <=> Silent(d)
                          /\ Alive(d)' <=> Alive(d)
                          /\ Gone(d)' <=> Gone(d)
                          /\ Unanswered(d)' <=> Unanswered(d)
  BY WireKept DEF TakeReply, coreVars
<1>3. /\ call[c] = "replied" /\ call'[c] = "answered"
      /\ \A d \in Calls : d # c => call'[d] = call[d]
      /\ UNCHANGED <<up, core, sent, early, closing, chans, chan, dropped, askedClose, toLose>>
  BY DEF IInv, HcTyped, ChansTyped, HcTypeOK, TakeReply, coreVars
<1>4. CoreFits'
  BY <1>2, <1>3 DEF IInv, CoreFits
<1>5. ChannelFits'
  BY <1>2, <1>3 DEF IInv, ChannelFits, ChannelIs, HeldClose
<1>6. LossFits'
  BY <1>3 DEF IInv, LossFits
<1> QED BY <1>1, <1>2, <1>4, <1>5, <1>6 DEF IInv

\* A call that gives up with the reply in its hands is dropped.
LEMMA GivesUpKeeps == \A c \in Calls : IInv /\ GivesUp(c) => IInv'
<1> SUFFICES ASSUME IInv, NEW c \in Calls, GivesUp(c) PROVE IInv'
  OBVIOUS
<1>1. HcTyped'
  BY DEF IInv, HcTyped, ChansTyped, HcTypeOK, GivesUp, Unregister, coreVars
<1>2. /\ WireFits'
      /\ \A d \in Calls : /\ Silent(d)' <=> Silent(d)
                          /\ Alive(d)' <=> Alive(d)
                          /\ Gone(d)' <=> Gone(d)
                          /\ Unanswered(d)' <=> Unanswered(d)
  BY WireKept DEF GivesUp, coreVars
<1>3. /\ call[c] \in {"waiting", "replied"} /\ call'[c] = "failed"
      /\ \A d \in Calls : d # c => call'[d] = call[d]
      /\ dropped' = dropped \cup {d \in {c} : call[d] = "replied"}
      /\ UNCHANGED <<up, core, sent, early, closing, chans, chan, askedClose, toLose>>
  BY DEF IInv, HcTyped, ChansTyped, HcTypeOK, GivesUp, coreVars
<1>4. CoreFits'
  BY <1>2, <1>3 DEF IInv, CoreFits
<1>5. ChannelFits'
  BY <1>2, <1>3 DEF IInv, ChannelFits, ChannelIs, HeldClose
<1>6. LossFits'
  BY <1>3 DEF IInv, LossFits
<1> QED BY <1>1, <1>2, <1>4, <1>5, <1>6 DEF IInv

\* A channel that is closed is open to the connection until Detach.
LEMMA CloseChannelKeeps == \A c \in Calls : IInv /\ CloseChannel(c) => IInv'
<1> SUFFICES ASSUME IInv, NEW c \in Calls, CloseChannel(c) PROVE IInv'
  OBVIOUS
<1>1. /\ call[c] = "open"
      /\ call'[c] = IF chan[c].ended \/ chan[c].lost THEN "closed" ELSE "closing"
      /\ \A d \in Calls : d # c => call'[d] = call[d]
      /\ \A d \in Calls : /\ chan'[d].ended = chan[d].ended
                          /\ chan'[d].lost = chan[d].lost
      /\ ChansTyped'
      /\ UNCHANGED <<up, core, sent, early, closing, chans, dropped, askedClose, toLose>>
  <2> DEFINE r == [chan[c] EXCEPT !.closed = TRUE]
  <2>1. /\ IsChannel(r) /\ r.ended = chan[c].ended /\ r.lost = chan[c].lost
        /\ chan' = [chan EXCEPT ![c] = r]
    BY Marked DEF IInv, HcTyped, ChansTyped, CloseChannel
  <2> HIDE DEF r
  <2>2. /\ ChansTyped' /\ chan'[c] = r
        /\ \A d \in Calls : d # c => chan'[d] = chan[d]
    BY <2>1, ChanSet DEF IInv, HcTyped
  <2> QED BY <2>1, <2>2 DEF IInv, HcTyped, ChansTyped, HcTypeOK, CloseChannel, coreVars
<1>2. c \in chans => ~chan[c].ended /\ ~chan[c].lost
  BY DEF IInv, ChannelFits, ChannelIs, HeldClose, LossFits
<1>3. HcTyped'
  BY <1>1, <1>2 DEF IInv, HcTyped, HcTypeOK, CloseChannel, coreVars
<1>4. /\ WireFits'
      /\ \A d \in Calls : /\ Silent(d)' <=> Silent(d)
                          /\ Alive(d)' <=> Alive(d)
                          /\ Gone(d)' <=> Gone(d)
                          /\ Unanswered(d)' <=> Unanswered(d)
  BY WireKept DEF CloseChannel, coreVars
<1>5. CoreFits'
  BY <1>1, <1>4 DEF IInv, CoreFits
<1>6. ChannelFits'
  BY <1>1, <1>2, <1>4 DEF IInv, ChannelFits, ChannelIs, HeldClose, Gone
<1>7. LossFits'
  BY <1>1 DEF IInv, LossFits
<1> QED BY <1>3, <1>4, <1>5, <1>6, <1>7 DEF IInv

\* It is then held for the core's CLOSE.
LEMMA DetachKeeps == \A c \in Calls : IInv /\ Detach(c) => IInv'
<1> SUFFICES ASSUME IInv, NEW c \in Calls, Detach(c) PROVE IInv'
  OBVIOUS
<1>1. /\ call[c] = "closing" /\ call'[c] = "closed"
      /\ \A d \in Calls : d # c => call'[d] = call[d]
      /\ closing' = IF c \in chans THEN closing \cup {c} ELSE closing
      /\ chans' = chans \ {c}
      /\ askedClose' = IF up THEN askedClose \cup {c} ELSE askedClose
      /\ UNCHANGED <<up, core, sent, wire, early, chan, dropped, toLose>>
  BY DEF IInv, HcTyped, ChansTyped, HcTypeOK, Detach, ClosingWith, Asks
<1>2. HcTyped'
  BY <1>1 DEF IInv, HcTyped, ChansTyped, HcTypeOK, Detach
<1>3. /\ WireFits'
      /\ \A d \in Calls : /\ Silent(d)' <=> Silent(d)
                          /\ Alive(d)' <=> Alive(d)
                          /\ Gone(d)' <=> Gone(d)
                          /\ Unanswered(d)' <=> Unanswered(d)
  BY <1>1, WireKept
<1>4. CoreFits'
  BY <1>1, <1>3 DEF IInv, CoreFits
<1>5. ChannelFits'
  BY <1>1, <1>3 DEF IInv, ChannelFits, ChannelIs, HeldClose
<1>6. LossFits'
  BY <1>1 DEF IInv, LossFits
<1> QED BY <1>2, <1>3, <1>4, <1>5, <1>6 DEF IInv

\* Any numbers have a least one.
LEMMA LeastOf ==
    ASSUME NEW T \in SUBSET Nat, T # {}
    PROVE  \E t \in T : \A u \in T : ~(u < t)
<1> DEFINE R == OpToRel(<, Nat)
<1>1. IsWellFoundedOn(R, Nat)
  BY NatLessThanWellFounded
<1>2. PICK t \in T : \A u \in T : ~(<<u, t>> \in R)
  <2> HIDE DEF R
  <2> QED BY <1>1, WFMin
<1>3. ASSUME NEW u \in T, u < t PROVE FALSE
  <2>1. <<u, t>> \in R
    BY <1>3 DEF OpToRel
  <2> QED BY <2>1, <1>2
<1> QED BY <1>3

\* The next frame makes one more.
LEMMA FramesAppend ==
    ASSUME NEW m \in Nat
    PROVE  Append([n \in 1..m |-> n], m + 1) = [n \in 1..m + 1 |-> n]
<1> DEFINE s == [n \in 1..m |-> n]
           t == [n \in 1..m + 1 |-> n]
<1>1. /\ s \in Seq(Nat) /\ Len(s) = m /\ \A n \in 1..m : s[n] = n
      /\ t \in Seq(Nat) /\ Len(t) = m + 1 /\ \A n \in 1..m + 1 : t[n] = n
  OBVIOUS
<1> HIDE DEF s, t
<1>2. /\ Append(s, m + 1) \in Seq(Nat) /\ Len(Append(s, m + 1)) = m + 1
      /\ \A n \in 1..m : Append(s, m + 1)[n] = s[n]
      /\ Append(s, m + 1)[m + 1] = m + 1
  BY <1>1, AppendProperties
<1>3. \A n \in 1..m + 1 : n \in 1..m \/ n = m + 1
  OBVIOUS
<1>4. Append(s, m + 1) = t
  BY <1>1, <1>2, <1>3, SeqEqual
<1> QED BY <1>4 DEF s, t

\* The first k frames, delivered one by one, make a channel that has them.
LEMMA DeliveriesAre ==
    ASSUME NEW q \in Seq(Nat), NEW k \in Nat, k <= Len(q), Len(q) <= k + 1,
           \A i \in 1..k : q[i] = i /\ i # CLOSE,
           Len(q) = k + 1 => q[k + 1] = CLOSE
    PROVE  Deliveries(q)[Len(q)] =
             [got |-> [n \in 1..k |-> n], ended |-> Len(q) = k + 1,
              lost |-> FALSE, closed |-> FALSE]
<1> DEFINE Made(m, e) == [got |-> [n \in 1..m |-> n], ended |-> e,
                          lost |-> FALSE, closed |-> FALSE]
           shape == [i \in 0..Len(q) |-> IF i <= k THEN Made(i, FALSE)
                                                   ELSE Made(k, TRUE)]
           F(f) == [i \in 0..Len(q) |-> IF i = 0 THEN NoChannel
                                       ELSE Delivered(f[i - 1], q[i])]
           after == CHOOSE f : f = F(f)
<1>0. Len(q) \in Nat
  BY LenProperties
<1>2. ASSUME NEW m \in Nat
      PROVE  /\ Delivered(Made(m, FALSE), m + 1) = Made(m + 1, FALSE)
             /\ Delivered(Made(m, FALSE), CLOSE) = Made(m, TRUE)
  <2> DEFINE s == [n \in 1..m |-> n]
             t == [n \in 1..m + 1 |-> n]
  <2>1. Append(s, m + 1) = t /\ m + 1 # CLOSE
    BY FramesAppend DEF CLOSE
  <2> HIDE DEF s, t
  <2> DEFINE ch == [got |-> s, ended |-> FALSE, lost |-> FALSE, closed |-> FALSE]
  <2>2. Delivered(ch, m + 1) = [got |-> t, ended |-> FALSE, lost |-> FALSE, closed |-> FALSE]
    BY <2>1 DEF Delivered
  <2>3. Delivered(ch, CLOSE) = [got |-> s, ended |-> TRUE, lost |-> FALSE, closed |-> FALSE]
    BY DEF Delivered
  <2> QED BY <2>2, <2>3 DEF s, t
<1>3. Made(0, FALSE) = NoChannel
  BY DEF NoChannel
<1>4. ASSUME NEW f, NEW i \in 1..Len(q), f[i - 1] = shape[i - 1]
      PROVE  Delivered(f[i - 1], q[i]) = shape[i]
  <2>1. i - 1 \in Nat /\ i - 1 <= k /\ f[i - 1] = Made(i - 1, FALSE)
    BY <1>0, <1>4
  <2>2. CASE i <= k
    <3>1. q[i] = (i - 1) + 1 /\ shape[i] = Made(i, FALSE) /\ (i - 1) + 1 = i
      BY <1>0, <2>2
    <3> HIDE DEF Made, shape
    <3> QED BY <1>2, <2>1, <3>1
  <2>3. CASE i = k + 1
    <3>1. q[i] = CLOSE /\ shape[i] = Made(k, TRUE) /\ i - 1 = k
      BY <1>0, <2>3
    <3> HIDE DEF Made, shape
    <3> QED BY <1>2, <2>1, <3>1
  <2> QED BY <1>0, <2>2, <2>3
<1>5. shape = F(shape)
  <2>1. shape[0] = NoChannel
    BY <1>0, <1>3
  <2>2. \A i \in 1..Len(q) : Delivered(shape[i - 1], q[i]) = shape[i]
    <3> HIDE DEF shape
    <3> QED BY <1>4
  <2>3. shape = [i \in 0..Len(q) |-> shape[i]]
    OBVIOUS
  <2> HIDE DEF shape
  <2>4. \A i \in 0..Len(q) : shape[i] = IF i = 0 THEN NoChannel
                                        ELSE Delivered(shape[i - 1], q[i])
    BY <1>0, <2>1, <2>2
  <2> QED BY <2>3, <2>4
<1>6. after = F(after)
  <2> HIDE DEF shape, F
  <2> QED BY <1>5
<1>7. Deliveries(q) = after
  BY DEF Deliveries
<1>8. \A i \in 0..Len(q) : after[i] = shape[i]
  <2> DEFINE T == {i \in 0..Len(q) : after[i] # shape[i]}
  <2> SUFFICES ASSUME T # {} PROVE FALSE
    OBVIOUS
  <2>1. PICK i \in T : \A u \in T : ~(u < i)
    <3>1. T \in SUBSET Nat
      BY <1>0
    <3> HIDE DEF T
    <3> QED BY <3>1, LeastOf
  <2>2. i \in 0..Len(q) /\ after[i] # shape[i]
    BY <2>1
  <2>3. \A j \in 0..Len(q) : after[j] = IF j = 0 THEN NoChannel
                                        ELSE Delivered(after[j - 1], q[j])
    <3> HIDE DEF after
    <3> QED BY <1>6
  <2>4. i # 0
    <3>1. after[0] = NoChannel
      <4> HIDE DEF after
      <4> QED BY <1>0, <2>3
    <3>2. shape[0] = NoChannel
      BY <1>0, <1>3
    <3> HIDE DEF after, shape
    <3> QED BY <2>2, <3>1, <3>2
  <2>5. i - 1 \in 0..Len(q) /\ i \in 1..Len(q) /\ i - 1 < i
    BY <1>0, <2>2, <2>4
  <2>6. i - 1 \notin T
    BY <2>1, <2>5
  <2>7. after[i - 1] = shape[i - 1]
    BY <2>5, <2>6
  <2>8. after[i] = Delivered(after[i - 1], q[i])
    BY <2>2, <2>3, <2>4
  <2> HIDE DEF after, shape
  <2>9. Delivered(after[i - 1], q[i]) = shape[i]
    BY <1>4, <2>5, <2>7
  <2> QED BY <2>2, <2>8, <2>9
<1>9. shape[Len(q)] = Made(k, Len(q) = k + 1)
  <2>1. CASE Len(q) = k + 1
    <3>1. shape[Len(q)] = Made(k, TRUE) /\ (Len(q) = k + 1) = TRUE
      BY <1>0, <2>1
    <3> HIDE DEF shape, Made
    <3> QED BY <3>1
  <2>2. CASE Len(q) = k
    <3>1. shape[Len(q)] = Made(k, FALSE) /\ (Len(q) = k + 1) = FALSE
      BY <1>0, <2>2
    <3> HIDE DEF shape, Made
    <3> QED BY <3>1
  <2> QED BY <1>0, <2>1, <2>2
<1> HIDE DEF after, shape
<1>10. Deliveries(q)[Len(q)] = Made(k, Len(q) = k + 1)
  BY <1>0, <1>7, <1>8, <1>9
<1> QED BY <1>10

\* The frames held make a channel, which has ended if one of them is CLOSE.
LEMMA ReplayedIs ==
    ASSUME HcTyped, NEW c \in Calls, NEW k \in Nat, Held(c, k)
    PROVE  /\ IsChannel(Replayed(c))
           /\ Replayed(c).ended <=> HeldClose(c)
           /\ ~Replayed(c).lost /\ ~Replayed(c).closed
           /\ Replayed(c).got = [n \in 1..k |-> n]
<1>1. early[c] \in Seq(Nat) /\ Len(early[c]) \in Nat
  BY LenProperties DEF HcTyped
<1>2. Replayed(c) = [got |-> [n \in 1..k |-> n], ended |-> Len(early[c]) = k + 1,
                     lost |-> FALSE, closed |-> FALSE]
  BY <1>1, DeliveriesAre DEF Replayed, Held
<1>3. HeldClose(c) <=> Len(early[c]) = k + 1
  <2>1. \A i \in 1..Len(early[c]) : i \in 1..k \/ (i = k + 1 /\ Len(early[c]) = k + 1)
    BY <1>1 DEF Held
  <2>2. Len(early[c]) = k + 1 => k + 1 \in 1..Len(early[c])
    BY <1>1
  <2> QED BY <2>1, <2>2, Zenon DEF HeldClose, Held
<1> DEFINE e == Len(early[c]) = k + 1
           g == [n \in 1..k |-> n]
<1>4. Replayed(c) = [got |-> g, ended |-> e, lost |-> FALSE, closed |-> FALSE]
      /\ e \in BOOLEAN /\ (e <=> HeldClose(c))
  BY <1>2, <1>3
<1> HIDE DEF e, g
<1>5. /\ IsChannel(Replayed(c)) /\ (Replayed(c).ended <=> HeldClose(c))
      /\ ~Replayed(c).lost /\ ~Replayed(c).closed /\ Replayed(c).got = g
  BY <1>4 DEF IsChannel
<1> QED BY <1>5 DEF g

\* A channel opens with the frames held, and has ended if CLOSE is one.
LEMMA OpenChannelKeeps == \A c \in Calls : IInv /\ Ordered /\ OpenChannel(c) => IInv'
<1> SUFFICES ASSUME IInv, Ordered, NEW c \in Calls, OpenChannel(c) PROVE IInv'
  OBVIOUS
<1> DEFINE r == Replayed(c)
<1>1. up => /\ IsChannel(r) /\ ~r.lost
            /\ r.ended <=> HeldClose(c)
  BY ReplayedIs DEF IInv, Ordered, InOrder, Unopened, OpenChannel
<1>2. /\ call[c] = "answered"
      /\ up => /\ call' = [call EXCEPT ![c] = "open"]
               /\ chan' = [chan EXCEPT ![c] = r]
               /\ early' = [early EXCEPT ![c] = <<>>]
               /\ chans' = IF r.ended THEN chans ELSE chans \cup {c}
      /\ ~up => call' = [call EXCEPT ![c] = "failed"] /\ UNCHANGED <<chan, early, chans>>
      /\ UNCHANGED <<up, pending, closing, toLose, dropped, core, sent, wire, askedClose>>
  BY DEF OpenChannel, StillUp, coreVars
<1> HIDE DEF r
<1>3. /\ c \notin closing \/ ~up
      /\ c \notin chans
  BY <1>2 DEF IInv, HcTyped, ChansTyped, HcTypeOK, ChannelFits, ChannelIs, HeldClose
<1>4. HcTyped'
  <2>1. CASE up
    <3>1. ChansTyped'
      BY <1>1, <1>2, <2>1, ChanSet DEF IInv, HcTyped
    <3>2. early' \in [Calls -> Seq(Nat)]
      BY <1>2, <2>1, EmptySeq DEF IInv, HcTyped
    <3>3. call' = [call EXCEPT ![c] = "open"] /\ call[c] = "answered"
      BY <1>2, <2>1
    <3>4. pending' = {d \in Calls : call'[d] \in {"writing", "waiting"}}
      BY <1>2, <2>1, <3>3 DEF IInv, HcTyped, HcTypeOK
    <3>5. chans' \subseteq chans \cup {c} /\ c \notin closing
      BY <1>2, <1>3, <2>1
    <3>6. /\ chans' \subseteq {d \in Calls : call'[d] \in {"open", "closing"}}
          /\ chans' \cap closing = {}
      BY <3>3, <3>5 DEF IInv, HcTyped, HcTypeOK
    <3> QED BY <1>2, <2>1, <3>1, <3>2, <3>3, <3>4, <3>6 DEF IInv, HcTyped, HcTypeOK
  <2>2. CASE ~up
    <3>1. ChansTyped'
      BY <1>2, <2>2 DEF IInv, HcTyped, ChansTyped
    <3> QED BY <1>2, <2>2, <3>1 DEF IInv, HcTyped, ChansTyped, HcTypeOK, LossFits
  <2> QED BY <2>1, <2>2
<1>5. \A d \in Calls : early'[d] = early[d] \/ early'[d] = <<>>
  BY <1>2 DEF IInv, HcTyped
<1>6. /\ WireFits'
      /\ \A d \in Calls : /\ Silent(d)' <=> Silent(d)
                          /\ Alive(d)' <=> Alive(d)
                          /\ Gone(d)' <=> Gone(d)
                          /\ Unanswered(d)' <=> Unanswered(d)
  BY <1>2, <1>5, WireKept
<1>7. /\ \A d \in Calls : d # c => /\ call'[d] = call[d]
                                   /\ chan'[d] = chan[d]
                                   /\ early'[d] = early[d]
                                   /\ d \in chans' <=> d \in chans
      /\ up => /\ call'[c] = "open" /\ chan'[c] = r /\ early'[c] = <<>>
               /\ c \in chans' <=> ~r.ended
      /\ ~up => /\ call'[c] = "failed" /\ chan'[c] = chan[c] /\ early'[c] = early[c]
                /\ chans' = chans
  <2>1. up => /\ chan'[c] = r /\ \A d \in Calls : d # c => chan'[d] = chan[d]
    BY <1>1, <1>2, ChanSet DEF IInv, HcTyped
  <2> QED BY <1>2, <1>3, <2>1 DEF IInv, HcTyped, ChansTyped, HcTypeOK
<1>8. CoreFits'
  BY <1>2, <1>5, <1>6, <1>7 DEF IInv, CoreFits
<1>9. ChannelFits'
  <2>1. \A d \in Calls : d # c => ChannelIs(d)'
    BY <1>2, <1>6, <1>7 DEF IInv, ChannelFits, ChannelIs, HeldClose
  <2>2. ChannelIs(c)
    BY DEF IInv, ChannelFits
  <2>3. ChannelIs(c)'
    BY <1>1, <1>2, <1>3, <1>6, <1>7, <2>2 DEF ChannelIs
  <2> QED BY <2>1, <2>3 DEF ChannelFits
<1>10. LossFits'
  BY <1>1, <1>2, <1>7 DEF IInv, LossFits
<1> QED BY <1>4, <1>6, <1>8, <1>9, <1>10 DEF IInv

-----------------------------------------------------------------------------
(* The core's steps.                                                       *)

\* A frame comes before any CLOSE.
LEMMA CoreSendsKeeps == \A c \in Calls : IInv /\ CoreSends(c) => IInv'
<1> SUFFICES ASSUME IInv, NEW c \in Calls, CoreSends(c) PROVE IInv'
  OBVIOUS
<1> DEFINE f == Frame(c, sent[c] + 1)
<1>1. /\ f \in Item /\ f.of = c /\ f.kind = "frame" /\ f.n # CLOSE
      /\ sent[c] + 1 \in Nat /\ sent[c] + 1 # 0
  BY DEF IInv, HcTyped, Frame, Item, CLOSE
<1>2. wire' = Append(wire, f) /\ core[c] \in {"asked", "open"}
  BY DEF CoreSends
<1> HIDE DEF f
<1>3. /\ wire' \in Seq(Item)
      /\ \A i \in 1..Len(wire) : i \in 1..Len(wire') /\ wire'[i] = wire[i]
      /\ \A i \in 1..Len(wire') : i \in 1..Len(wire) \/ (i = Len(wire) + 1 /\ wire'[i] = f)
      /\ Len(wire) \in Nat
      /\ \A d \in Calls :
           /\ Silent(d)' <=> Silent(d) /\ d # c
           /\ Ends(d)' <=> Ends(d)
           /\ Answers(d)' <=> Answers(d)
  BY <1>1, <1>2, Sending DEF IInv
<1>4. \A d \in Calls : /\ Alive(d)' <=> Alive(d)
                       /\ d # c => (Gone(d)' <=> Gone(d))
                       /\ Unanswered(d)' <=> Unanswered(d)
  BY <1>3 DEF Alive, Gone, Unanswered, CoreSends
<1>5. HcTyped'
  BY <1>1, <1>3 DEF IInv, HcTyped, ChansTyped, HcTypeOK, CoreSends, connVars
<1>6. WireFits'
  <2> SUFFICES ASSUME NEW d \in Calls, NEW i \in 1..Len(wire'), wire'[i].of = d
               PROVE  (/\ core[d] # "none"
                       /\ core[d] = "asked" => wire[i].kind = "frame" /\ wire[i].n # CLOSE
                       /\ wire[i].kind = "frame" /\ wire[i].n = CLOSE =>
                           /\ core[d] = "closed"
                           /\ \A j \in 1..Len(wire) : j > i => wire[j].of # d
                       /\ wire[i].kind = "reply" =>
                           /\ wire[i].n = CLOSE /\ Alive(d)
                           /\ \A j \in 1..Len(wire) :
                               wire[j].of = d /\ wire[j].kind # "frame" => j = i
                       /\ wire[i].kind = "error" =>
                           /\ wire[i].n = CLOSE /\ core[d] = "closed" /\ early[d] = <<>>
                           /\ \A j \in 1..Len(wire) : wire[j].of = d => j = i)'
    BY DEF WireFits
  <2>1. core' = core /\ early' = early
    BY DEF CoreSends, connVars
  <2>2. CASE i \in 1..Len(wire)
    BY <1>1, <1>2, <1>3, <1>4, <2>1, <2>2 DEF IInv, WireFits
  <2>3. CASE i \notin 1..Len(wire)
    BY <1>1, <1>2, <1>3, <1>4, <2>1, <2>3 DEF IInv, WireFits
  <2> QED BY <2>2, <2>3
<1>7. /\ \A d \in Calls : d # c => sent'[d] = sent[d]
      /\ sent'[c] # 0
      /\ UNCHANGED <<core, connVars, askedClose>>
  BY <1>1 DEF IInv, HcTyped, CoreSends
<1>8. CoreFits'
  BY <1>3, <1>4, <1>7 DEF IInv, CoreFits, connVars
<1>9. ~Gone(c)
  BY <1>2 DEF Gone
<1>10. ChannelFits'
  BY <1>4, <1>7, <1>9 DEF IInv, ChannelFits, ChannelIs, HeldClose, connVars
<1>11. LossFits'
  BY <1>7 DEF IInv, LossFits, connVars
<1> QED BY <1>5, <1>6, <1>8, <1>10, <1>11 DEF IInv

\* A reply comes once, an error with nothing else.
LEMMA CoreRepliesKeeps == \A c \in Calls : IInv /\ CoreReplies(c) => IInv'
<1> SUFFICES ASSUME IInv, NEW c \in Calls, CoreReplies(c) PROVE IInv'
  OBVIOUS
<1>1. PICK ok \in BOOLEAN : /\ ok \/ sent[c] = 0
                            /\ wire' = Append(wire, Reply(c, ok))
                            /\ core' = [core EXCEPT ![c] = IF ok THEN "open" ELSE "closed"]
  BY DEF CoreReplies
<1> DEFINE f == Reply(c, ok)
<1>2. /\ f \in Item /\ f.of = c /\ f.kind \in {"reply", "error"} /\ f.kind # "frame"
      /\ f.n = CLOSE /\ (ok <=> f.kind = "reply")
  BY DEF Reply, Item, CLOSE
<1> HIDE DEF f
<1>3. /\ wire' \in Seq(Item)
      /\ \A i \in 1..Len(wire) : i \in 1..Len(wire') /\ wire'[i] = wire[i]
      /\ \A i \in 1..Len(wire') : i \in 1..Len(wire) \/ (i = Len(wire) + 1 /\ wire'[i] = f)
      /\ Len(wire) \in Nat
      /\ \A d \in Calls :
           /\ Silent(d)' <=> Silent(d) /\ d # c
           /\ Ends(d)' <=> Ends(d)
           /\ Answers(d)' <=> Answers(d) \/ d = c
  BY <1>1, <1>2, Sending DEF IInv, f
<1>4. /\ core[c] = "asked" /\ core'[c] = IF ok THEN "open" ELSE "closed"
      /\ \A d \in Calls : d # c => core'[d] = core[d]
      /\ UNCHANGED <<sent, askedClose, connVars>>
  BY <1>1 DEF IInv, HcTyped, CoreReplies
<1>5. /\ \A d \in Calls : d # c => /\ Alive(d)' <=> Alive(d)
                                   /\ Gone(d)' <=> Gone(d)
                                   /\ Unanswered(d)' <=> Unanswered(d)
      /\ Unanswered(c) /\ Unanswered(c)'
      /\ ok => Alive(c)'
  BY <1>3, <1>4 DEF Alive, Gone, Unanswered
<1>6. HcTyped'
  BY <1>3, <1>1 DEF IInv, HcTyped, ChansTyped, HcTypeOK, CoreReplies, connVars
<1>7. ~ok => Silent(c) /\ early[c] = <<>>
  BY <1>1, <1>4 DEF IInv, CoreFits
<1>8. WireFits'
  <2> SUFFICES ASSUME NEW d \in Calls, NEW i \in 1..Len(wire'), wire'[i].of = d
               PROVE  (/\ core[d] # "none"
                       /\ core[d] = "asked" => wire[i].kind = "frame" /\ wire[i].n # CLOSE
                       /\ wire[i].kind = "frame" /\ wire[i].n = CLOSE =>
                           /\ core[d] = "closed"
                           /\ \A j \in 1..Len(wire) : j > i => wire[j].of # d
                       /\ wire[i].kind = "reply" =>
                           /\ wire[i].n = CLOSE /\ Alive(d)
                           /\ \A j \in 1..Len(wire) :
                               wire[j].of = d /\ wire[j].kind # "frame" => j = i
                       /\ wire[i].kind = "error" =>
                           /\ wire[i].n = CLOSE /\ core[d] = "closed" /\ early[d] = <<>>
                           /\ \A j \in 1..Len(wire) : wire[j].of = d => j = i)'
    BY DEF WireFits
  <2>1. early' = early
    BY <1>4 DEF connVars
  <2>2. CASE d = c /\ i \in 1..Len(wire)
    <3>1. wire[i].of = c /\ wire'[i] = wire[i]
      BY <1>3, <2>2
    <3>2. wire[i].kind = "frame" /\ wire[i].n # CLOSE
      BY <1>4, <2>2, <3>1 DEF IInv, WireFits
    <3>3. ok
      BY <1>7, <2>2, <3>1 DEF Silent
    <3> QED BY <1>4, <2>2, <3>1, <3>2, <3>3
  <2>3. CASE d = c /\ i \notin 1..Len(wire)
    <3>1. wire'[i] = f /\ i = Len(wire) + 1
      BY <1>3, <2>3
    <3>2. \A j \in 1..Len(wire) : wire[j].of = c => wire[j].kind = "frame"
      BY <1>4 DEF IInv, WireFits
    <3> QED BY <1>2, <1>3, <1>4, <1>5, <1>7, <2>1, <2>3, <3>1, <3>2 DEF Silent
  <2>4. CASE d # c
    <3>1. /\ i \in 1..Len(wire) /\ wire'[i] = wire[i]
          /\ core'[d] = core[d] /\ (Alive(d)' <=> Alive(d))
      BY <1>2, <1>3, <1>4, <1>5, <2>4
    <3>2. \A j \in 1..Len(wire') : wire'[j].of = d =>
              j \in 1..Len(wire) /\ wire'[j] = wire[j]
      BY <1>2, <1>3, <2>4
    <3> QED BY <2>1, <3>1, <3>2 DEF IInv, WireFits
  <2> QED BY <2>2, <2>3, <2>4
<1>9. CoreFits'
  BY <1>3, <1>4, <1>5 DEF IInv, CoreFits, connVars
<1>10. ChannelFits'
  <2>1. \A d \in Calls : d # c => ChannelIs(d)'
    BY <1>4, <1>5 DEF IInv, ChannelFits, ChannelIs, HeldClose, connVars
  <2>2. call[c] \in {"waiting", "failed"} /\ ChannelIs(c)
    BY <1>5 DEF IInv, CoreFits, ChannelFits
  <2>3. c \in closing => ~up
    BY <1>4, <1>3, <2>2 DEF IInv, WireFits, ChannelIs, Alive, Ends
  <2>4. ChannelIs(c)'
    BY <1>4, <1>5, <2>2, <2>3 DEF ChannelIs, HeldClose, connVars
  <2> QED BY <2>1, <2>4 DEF ChannelFits
<1>11. LossFits'
  BY <1>4 DEF IInv, LossFits, connVars
<1> QED BY <1>6, <1>8, <1>9, <1>10, <1>11 DEF IInv

\* A CLOSE comes last.
LEMMA CoreClosesKeeps == \A c \in Calls : IInv /\ CoreCloses(c) => IInv'
<1> SUFFICES ASSUME IInv, NEW c \in Calls, CoreCloses(c) PROVE IInv'
  OBVIOUS
<1> DEFINE f == Frame(c, CLOSE)
<1>1. /\ f \in Item /\ f.of = c /\ f.kind = "frame" /\ f.n = CLOSE
  BY DEF Frame, Item, CLOSE
<1>2. wire' = Append(wire, f) /\ core' = [core EXCEPT ![c] = "closed"]
  BY DEF CoreCloses
<1> HIDE DEF f
<1>3. /\ wire' \in Seq(Item)
      /\ \A i \in 1..Len(wire) : i \in 1..Len(wire') /\ wire'[i] = wire[i]
      /\ \A i \in 1..Len(wire') : i \in 1..Len(wire) \/ (i = Len(wire) + 1 /\ wire'[i] = f)
      /\ Len(wire) \in Nat
      /\ \A d \in Calls :
           /\ Silent(d)' <=> Silent(d) /\ d # c
           /\ Ends(d)' <=> Ends(d) \/ d = c
           /\ Answers(d)' <=> Answers(d)
  BY <1>1, <1>2, Sending DEF IInv
<1>4. /\ core[c] = "open" /\ core'[c] = "closed"
      /\ \A d \in Calls : d # c => core'[d] = core[d] /\ (d \in askedClose' <=> d \in askedClose)
      /\ UNCHANGED <<sent, connVars>>
  BY <1>2 DEF IInv, HcTyped, CoreCloses
<1>5. /\ \A d \in Calls : /\ Alive(d)' <=> Alive(d)
                          /\ Gone(d)' <=> Gone(d)
                          /\ Unanswered(d)' <=> Unanswered(d)
  BY <1>3, <1>4 DEF Alive, Gone, Unanswered
<1>6. HcTyped'
  BY <1>3, <1>2 DEF IInv, HcTyped, ChansTyped, HcTypeOK, CoreCloses, connVars
<1>8. WireFits'
  <2> SUFFICES ASSUME NEW d \in Calls, NEW i \in 1..Len(wire'), wire'[i].of = d
               PROVE  (/\ core[d] # "none"
                       /\ core[d] = "asked" => wire[i].kind = "frame" /\ wire[i].n # CLOSE
                       /\ wire[i].kind = "frame" /\ wire[i].n = CLOSE =>
                           /\ core[d] = "closed"
                           /\ \A j \in 1..Len(wire) : j > i => wire[j].of # d
                       /\ wire[i].kind = "reply" =>
                           /\ wire[i].n = CLOSE /\ Alive(d)
                           /\ \A j \in 1..Len(wire) :
                               wire[j].of = d /\ wire[j].kind # "frame" => j = i
                       /\ wire[i].kind = "error" =>
                           /\ wire[i].n = CLOSE /\ core[d] = "closed" /\ early[d] = <<>>
                           /\ \A j \in 1..Len(wire) : wire[j].of = d => j = i)'
    BY DEF WireFits
  <2>1. early' = early
    BY <1>4 DEF connVars
  <2>2. CASE d = c /\ i \in 1..Len(wire)
    <3>1. wire[i].of = c /\ wire'[i] = wire[i]
      BY <1>3, <2>2
    <3>2. ~(wire[i].kind = "frame" /\ wire[i].n = CLOSE) /\ wire[i].kind # "error"
      BY <1>4, <2>2, <3>1 DEF IInv, WireFits
    <3>3. wire[i].kind = "reply" =>
              /\ wire[i].n = CLOSE /\ Alive(c)
              /\ \A j \in 1..Len(wire) : wire[j].of = c /\ wire[j].kind # "frame" => j = i
      BY <2>2, <3>1 DEF IInv, WireFits
    <3> QED BY <1>1, <1>3, <1>4, <1>5, <2>2, <3>1, <3>2, <3>3
  <2>3. CASE d = c /\ i \notin 1..Len(wire)
    <3>1. wire'[i] = f /\ i = Len(wire) + 1
      BY <1>3, <2>3
    <3> QED BY <1>1, <1>3, <1>4, <2>3, <3>1
  <2>4. CASE d # c
    <3>1. i \in 1..Len(wire) /\ wire'[i] = wire[i] /\ wire[i].of = d
      BY <1>1, <1>3, <2>4
    <3>2. \A j \in 1..Len(wire') : wire'[j].of = d => j \in 1..Len(wire) /\ wire'[j] = wire[j]
      BY <1>1, <1>3, <2>4
    <3>3. core'[d] = core[d] /\ early'[d] = early[d] /\ (Alive(d)' <=> Alive(d))
      BY <1>4, <1>5, <2>1, <2>4
    <3>4. /\ core[d] # "none"
          /\ core[d] = "asked" => wire[i].kind = "frame" /\ wire[i].n # CLOSE
          /\ wire[i].kind = "frame" /\ wire[i].n = CLOSE =>
              /\ core[d] = "closed"
              /\ \A j \in 1..Len(wire) : j > i => wire[j].of # d
          /\ wire[i].kind = "reply" =>
              /\ wire[i].n = CLOSE /\ Alive(d)
              /\ \A j \in 1..Len(wire) :
                  wire[j].of = d /\ wire[j].kind # "frame" => j = i
          /\ wire[i].kind = "error" =>
              /\ wire[i].n = CLOSE /\ core[d] = "closed" /\ early[d] = <<>>
              /\ \A j \in 1..Len(wire) : wire[j].of = d => j = i
      BY <3>1 DEF IInv, WireFits
    <3> QED BY <3>1, <3>2, <3>3, <3>4
  <2> QED BY <2>2, <2>3, <2>4
<1>9. CoreFits'
  BY <1>3, <1>4, <1>5 DEF IInv, CoreFits, connVars
<1>10. ChannelFits'
  BY <1>4, <1>5 DEF IInv, ChannelFits, ChannelIs, HeldClose, connVars
<1>11. LossFits'
  BY <1>4 DEF IInv, LossFits, connVars
<1> QED BY <1>6, <1>8, <1>9, <1>10, <1>11 DEF IInv

-----------------------------------------------------------------------------
(* The next frame.                                                         *)

\* What reading changes on the way, of the channel it is of and of the others.
LEMMA ReadFacts ==
    ASSUME IInv, ReadFrame, NEW c \in Calls, wire[1].of = c
    PROVE  /\ wire' = Tail(wire) /\ wire # <<>> /\ wire[1] \in Item
           /\ UNCHANGED <<up, toLose, dropped, core, sent>>
           /\ \A d \in Calls : d # c => /\ Silent(d)' <=> Silent(d)
                                        /\ Alive(d)' <=> Alive(d)
                                        /\ Gone(d)' <=> Gone(d)
                                        /\ Unanswered(d)' <=> Unanswered(d)
           /\ wire[1].kind = "frame" => (Unanswered(c)' <=> Unanswered(c))
           /\ wire[1].kind = "frame" /\ wire[1].n # CLOSE =>
                (Alive(c)' <=> Alive(c)) /\ ~Gone(c)
           /\ wire[1].kind = "frame" /\ wire[1].n = CLOSE =>
                Gone(c)' /\ ~Unanswered(c) /\ ~Gone(c)
           /\ wire[1].kind # "frame" => Unanswered(c) /\ ~Unanswered(c)'
           /\ wire[1].kind = "reply" => Alive(c)'
           /\ wire[1].kind = "error" => Gone(c)' /\ early[c] = <<>>
<1>1. /\ wire' = Tail(wire) /\ wire # <<>>
      /\ UNCHANGED <<up, toLose, dropped, core, sent>>
  BY DEF ReadFrame
<1>2. /\ wire[1] \in Item /\ 1 \in 1..Len(wire)
  BY <1>1, Reading DEF IInv
<1>3. HcTyped /\ WireFits
  BY DEF IInv
<1>4. \A d \in Calls : d # c => /\ Silent(d)' <=> Silent(d)
                                /\ Ends(d)' <=> Ends(d)
                                /\ Answers(d)' <=> Answers(d)
  BY <1>1, <1>3, ReadingLeaves
<1>5. /\ Silent(c) => Silent(c)'
      /\ wire[1].kind = "frame" => (Answers(c)' <=> Answers(c))
      /\ ~(wire[1].kind = "frame" /\ wire[1].n = CLOSE) => (Ends(c)' <=> Ends(c))
      /\ wire[1].kind = "frame" /\ wire[1].n = CLOSE => Silent(c)'
      /\ wire[1].kind # "frame" => ~Answers(c)'
      /\ wire[1].kind = "error" => Silent(c)'
  BY <1>1, <1>3, ReadingLeaves
<1>6. ~Silent(c) /\ (wire[1].kind # "frame" => Answers(c))
  BY <1>2 DEF Silent, Answers
<1>7. /\ core[c] = "asked" => wire[1].kind = "frame" /\ wire[1].n # CLOSE
      /\ wire[1].kind = "frame" /\ wire[1].n = CLOSE => core[c] = "closed"
      /\ wire[1].kind = "reply" => Alive(c)
      /\ wire[1].kind = "error" => core[c] = "closed" /\ early[c] = <<>>
  BY <1>2, <1>3 DEF WireFits
<1>8. wire[1].kind = "frame" /\ wire[1].n = CLOSE => ~Answers(c)
  <2>1. wire[1].kind = "frame" /\ wire[1].n = CLOSE => ~Answers(c)'
    BY <1>5 DEF Silent, Answers
  <2> QED BY <2>1, <1>5
<1> QED BY <1>1, <1>2, <1>4, <1>5, <1>6, <1>7, <1>8 DEF Alive, Gone, Unanswered

\* A frame goes to its channel, to the one being closed, or is held.
LEMMA RouteKeeps ==
    ASSUME IInv, ReadFrame, NEW c \in Calls, wire[1].of = c, wire[1].kind = "frame",
           Route(c, wire[1].n)
    PROVE  IInv'
<1> DEFINE n == wire[1].n
<1>1. /\ wire' = Tail(wire) /\ wire # <<>> /\ n \in Nat
      /\ UNCHANGED <<up, toLose, dropped, core, sent, call, pending, askedClose>>
      /\ \A d \in Calls : d # c => /\ Silent(d)' <=> Silent(d)
                                   /\ Alive(d)' <=> Alive(d)
                                   /\ Gone(d)' <=> Gone(d)
                                   /\ Unanswered(d)' <=> Unanswered(d)
      /\ Unanswered(c)' <=> Unanswered(c)
      /\ n # CLOSE => (Alive(c)' <=> Alive(c)) /\ ~Gone(c)
      /\ n = CLOSE => Gone(c)' /\ ~Unanswered(c) /\ ~Gone(c)
  BY ReadFacts DEF Route, Item
<1>2. IF c \in chans
      THEN /\ chan' = [chan EXCEPT ![c] = Delivered(@, n)]
           /\ chans' = IF n = CLOSE THEN chans \ {c} ELSE chans
           /\ UNCHANGED <<early, closing>>
      ELSE IF c \in closing
      THEN /\ closing' = IF n = CLOSE THEN closing \ {c} ELSE closing
           /\ UNCHANGED <<early, chans, chan>>
      ELSE /\ early' = [early EXCEPT ![c] = Append(@, n)]
           /\ UNCHANGED <<closing, chans, chan>>
  BY DEF Route
<1> HIDE DEF n
<1>3. early[c] \in Seq(Nat) /\ Append(early[c], n) \in Seq(Nat)
  BY <1>1, AppendProperties DEF IInv, HcTyped
<1>4. /\ IsChannel(Delivered(chan[c], n))
      /\ Delivered(chan[c], n).ended <=> chan[c].ended \/ n = CLOSE
      /\ Delivered(chan[c], n).lost = chan[c].lost
  BY DEF IInv, HcTyped, ChansTyped, Delivered, IsChannel
<1>5. /\ ChansTyped'
      /\ \A d \in Calls : d # c => chan'[d] = chan[d]
      /\ c \in chans => chan'[c] = Delivered(chan[c], n)
      /\ c \notin chans => chan'[c] = chan[c]
  <2>1. CASE c \in chans
    BY <1>2, <1>4, <2>1, ChanSet DEF IInv, HcTyped
  <2>2. CASE c \notin chans
    BY <1>2, <2>2 DEF IInv, HcTyped, ChansTyped
  <2> QED BY <2>1, <2>2
<1>6. /\ early' \in [Calls -> Seq(Nat)]
      /\ \A d \in Calls : d # c => early'[d] = early[d]
      /\ c \in chans \/ c \in closing => early'[c] = early[c]
      /\ c \notin chans /\ c \notin closing => early'[c] = Append(early[c], n)
  BY <1>2, <1>3 DEF IInv, HcTyped
<1>7. /\ \A d \in Calls : d # c => (d \in chans' <=> d \in chans)
      /\ \A d \in Calls : d # c => (d \in closing' <=> d \in closing)
      /\ c \in chans' => c \in chans /\ n # CLOSE
      /\ c \in closing' => c \in closing
      /\ c \in chans /\ n # CLOSE => c \in chans'
      /\ c \in closing /\ n # CLOSE => c \in closing'
      /\ c \in closing /\ n = CLOSE /\ c \notin chans => c \notin closing'
      /\ chans' \subseteq chans /\ closing' \subseteq closing
  BY <1>2
<1>8. HcTyped'
  <2>1. wire' \in Seq(Item)
    BY <1>1, Reading DEF IInv
  <2> QED BY <1>1, <1>5, <1>6, <1>7, <2>1 DEF IInv, HcTyped, HcTypeOK
<1>9. WireFits'
  <2>1. \A d \in Calls : early'[d] = early[d] \/ wire[1].of = d
    BY <1>6
  <2> QED BY <1>1, <2>1, ReadingFits DEF IInv
<1>10. CoreFits'
  <2>1. ~Silent(c)
    BY <1>1, Reading DEF IInv, Silent
  <2> QED BY <1>1, <1>6, <2>1 DEF IInv, CoreFits
<1>11. ChannelFits'
  <2>1. UNCHANGED <<up, core, call, dropped, askedClose>>
    BY <1>1
  <2>2. ASSUME NEW d \in Calls, d # c
        PROVE  ChannelIs(d)'
    <3>1. ChannelIs(d)
      BY DEF IInv, ChannelFits
    <3>2. /\ Alive(d)' <=> Alive(d)
          /\ Gone(d)' <=> Gone(d)
          /\ Unanswered(d)' <=> Unanswered(d)
          /\ chan'[d] = chan[d] /\ early'[d] = early[d]
          /\ d \in chans' <=> d \in chans
          /\ d \in closing' <=> d \in closing
      BY <1>1, <1>5, <1>6, <1>7, <2>2
    <3>3. HeldClose(d)' <=> HeldClose(d)
      BY <3>2 DEF HeldClose
    <3> QED BY <2>1, <3>1, <3>2, <3>3 DEF ChannelIs
  <2>3. /\ ChannelIs(c)
        /\ c \in chans => call[c] \in {"open", "closing"}
        /\ c \in chans' => c \in chans /\ n # CLOSE
        /\ chan[c].ended => chan'[c].ended
        /\ c \in chans /\ n = CLOSE => chan'[c].ended
        /\ n # CLOSE => (chan'[c].ended <=> chan[c].ended)
        /\ chan'[c].lost = chan[c].lost
    BY <1>4, <1>5, <1>7 DEF IInv, ChannelFits, HcTyped, HcTypeOK
  <2>4. c \in chans' => ~chan'[c].ended
    BY <2>3 DEF ChannelIs
  <2>5. ASSUME c \notin chans \cup closing
        PROVE  HeldClose(c)' <=> HeldClose(c) \/ n = CLOSE
    <3>1. /\ Len(early[c]) \in Nat /\ Len(early'[c]) = Len(early[c]) + 1
          /\ \A i \in 1..Len(early[c]) : early'[c][i] = early[c][i]
          /\ early'[c][Len(early[c]) + 1] = n
      <4>1. early[c] \in Seq(Nat) /\ n \in Nat /\ early'[c] = Append(early[c], n)
        BY <2>5, <1>1, <1>3, <1>6
      <4> QED BY <4>1, AppendProperties, LenProperties
    <3> QED BY <3>1 DEF HeldClose
  <2>6. c \in chans \cup closing => (HeldClose(c)' <=> HeldClose(c))
    BY <1>6 DEF HeldClose
  <2>7. ASSUME up, n = CLOSE
        PROVE  ChannelIs(c)'
    <3>1. Gone(c)' /\ ~Unanswered(c) /\ ~Unanswered(c)' /\ ~Gone(c)
      BY <1>1, <2>7
    <3>2. c \in closing => c \notin chans /\ c \notin closing'
      BY <1>7, <2>3, <2>7 DEF ChannelIs
    <3>3. c \in closing' => c \in closing
      BY <1>7
    <3>4. early'[c] = early[c] \/ (c \notin chans /\ c \notin closing)
      BY <1>6
    <3>5. call[c] \notin {"idle", "writing"}
      <4>1. 1 \in 1..Len(wire)
        BY <1>1, Reading DEF IInv
      <4> QED BY <4>1 DEF IInv, WireFits, CoreFits
    <3> QED BY <2>1, <2>3, <2>4, <2>5, <2>6, <2>7, <3>1, <3>2, <3>3, <3>4, <3>5
            DEF ChannelIs
  <2>8. ASSUME up, n # CLOSE
        PROVE  ChannelIs(c)'
    <3>1. /\ Alive(c)' <=> Alive(c)
          /\ Unanswered(c)' <=> Unanswered(c)
          /\ ~Gone(c)
          /\ c \in chans' <=> c \in chans
          /\ c \in closing' <=> c \in closing
      BY <1>1, <1>7, <2>8
    <3>2. HeldClose(c)' <=> HeldClose(c)
      BY <2>5, <2>6, <2>8
    <3>3. early'[c] = early[c] \/ (c \notin chans /\ c \notin closing)
      BY <1>6
    <3> QED BY <2>1, <2>3, <2>4, <2>8, <3>1, <3>2, <3>3 DEF ChannelIs
  <2>9. ~up => ChannelIs(c)'
    BY <2>1, <2>4 DEF ChannelIs
  <2> QED BY <2>2, <2>7, <2>8, <2>9 DEF ChannelFits
<1>12. LossFits'
  BY <1>1, <1>4, <1>5, <1>7 DEF IInv, LossFits
<1> QED BY <1>8, <1>9, <1>10, <1>11, <1>12 DEF IInv

\* A reply goes to its call, or its channel is closed.
LEMMA HandleControlKeeps ==
    ASSUME IInv, ReadFrame, NEW c \in Calls, wire[1].of = c, wire[1].kind # "frame",
           NEW ok \in BOOLEAN, ok <=> wire[1].kind = "reply", HandleControl(c, ok)
    PROVE  IInv'
<1>1. /\ wire' = Tail(wire) /\ wire # <<>> /\ wire[1] \in Item
      /\ UNCHANGED <<up, toLose, dropped, core, sent, chans, chan>>
      /\ pending' = pending \ {c}
      /\ \A d \in Calls : d # c => /\ Silent(d)' <=> Silent(d)
                                   /\ Alive(d)' <=> Alive(d)
                                   /\ Gone(d)' <=> Gone(d)
                                   /\ Unanswered(d)' <=> Unanswered(d)
      /\ Unanswered(c) /\ ~Unanswered(c)'
      /\ wire[1].kind = "reply" => Alive(c)'
      /\ wire[1].kind = "error" => Gone(c)' /\ early[c] = <<>>
  BY ReadFacts DEF HandleControl
<1>2. /\ ok => Alive(c)'
      /\ ~ok => Gone(c)' /\ early[c] = <<>>
  BY <1>1 DEF Item
<1>3. call[c] \in {"waiting", "failed"} /\ (c \in pending => call[c] = "waiting")
      /\ (up /\ c \notin pending => call[c] = "failed") /\ c \notin chans
  BY <1>1 DEF IInv, CoreFits, HcTyped, HcTypeOK
<1>4. /\ c \in pending => /\ call' = [call EXCEPT ![c] = IF ok THEN "replied" ELSE "failed"]
                          /\ UNCHANGED <<early, closing, askedClose>>
      /\ c \notin pending /\ ok => /\ call' = call
                                   /\ early' = [early EXCEPT ![c] = <<>>]
                                   /\ closing' = closing \cup {c}
                                   /\ askedClose' = IF up THEN askedClose \cup {c}
                                                    ELSE askedClose
      /\ c \notin pending /\ ~ok => UNCHANGED <<call, early, closing, askedClose>>
  BY DEF HandleControl, LateCloses, Asks
<1>5. /\ \A d \in Calls : d # c => /\ call'[d] = call[d]
                                   /\ early'[d] = early[d]
                                   /\ d \in closing' <=> d \in closing
                                   /\ d \in askedClose' <=> d \in askedClose
      /\ early'[c] = early[c] \/ early'[c] = <<>>
      /\ early' \in [Calls -> Seq(Nat)]
      /\ call'[c] = IF c \in pending THEN IF ok THEN "replied" ELSE "failed" ELSE call[c]
  <2>1. CASE c \in pending
    BY <1>4, <2>1 DEF IInv, HcTyped, HcTypeOK
  <2>2. CASE c \notin pending /\ ok
    <3>1. <<>> \in Seq(Nat)
      BY EmptySeq
    <3>2. /\ call' = call /\ early' = [early EXCEPT ![c] = <<>>]
          /\ closing' = closing \cup {c}
          /\ \A d \in Calls : d # c => (d \in askedClose' <=> d \in askedClose)
      BY <1>4, <2>2
    <3> QED BY <2>2, <3>1, <3>2 DEF IInv, HcTyped
  <2>3. CASE c \notin pending /\ ~ok
    BY <1>4, <2>3 DEF IInv, HcTyped, HcTypeOK
  <2> QED BY <2>1, <2>2, <2>3
<1>6. HcTyped'
  <2>1. wire' \in Seq(Item)
    BY <1>1, Reading DEF IInv
  <2>2. ChansTyped'
    BY <1>1 DEF IInv, HcTyped, ChansTyped
  <2>3. /\ call' \in [Calls -> {"idle", "writing", "waiting", "replied", "answered",
                                "open", "closing", "closed", "failed"}]
        /\ closing' \subseteq Calls /\ askedClose' \subseteq Calls
        /\ chans \cap closing' = {}
    <3>1. /\ call \in [Calls -> {"idle", "writing", "waiting", "replied", "answered",
                                  "open", "closing", "closed", "failed"}]
          /\ closing \subseteq Calls /\ askedClose \subseteq Calls
          /\ chans \cap closing = {} /\ c \in Calls /\ c \notin chans
      BY <1>3 DEF IInv, HcTyped, HcTypeOK
    <3>2. CASE c \in pending
      BY <1>4, <3>1, <3>2
    <3>3. CASE c \notin pending /\ ok
      <4>1. call' = call /\ closing' = closing \cup {c} /\ askedClose' \subseteq askedClose \cup {c}
        BY <1>4, <3>3
      <4> QED BY <3>1, <4>1
    <3>4. CASE c \notin pending /\ ~ok
      BY <1>4, <3>1, <3>4
    <3> QED BY <3>2, <3>3, <3>4
  <2>4. /\ pending' \subseteq {d \in Calls : call'[d] \in {"writing", "waiting"}}
        /\ up => pending' = {d \in Calls : call'[d] \in {"writing", "waiting"}}
    BY <1>1, <1>3, <1>5 DEF IInv, HcTyped, HcTypeOK
  <2>5. chans' \subseteq {d \in Calls : call'[d] \in {"open", "closing"}}
    BY <1>1, <1>3, <1>5 DEF IInv, HcTyped, HcTypeOK
  <2> QED BY <1>1, <1>5, <2>1, <2>2, <2>3, <2>4, <2>5 DEF IInv, HcTyped, HcTypeOK
<1>7. WireFits'
  <2>1. \A d \in Calls : early'[d] = early[d] \/ early'[d] = <<>>
    BY <1>5
  <2> QED BY <1>1, <2>1, ReadingFits DEF IInv
<1>8. CoreFits'
  <2>1. ~Silent(c) /\ core[c] # "none"
    <3>1. 1 \in 1..Len(wire)
      BY <1>1, Reading DEF IInv
    <3> QED BY <3>1 DEF IInv, Silent, WireFits
  <2> QED BY <1>1, <1>3, <1>5, <2>1 DEF IInv, CoreFits
<1>9. ChannelFits'
  <2>1. ASSUME NEW d \in Calls, d # c
        PROVE  ChannelIs(d)'
    <3>1. ChannelIs(d)
      BY DEF IInv, ChannelFits
    <3>2. HeldClose(d)' <=> HeldClose(d)
      BY <1>5, <2>1 DEF HeldClose
    <3> QED BY <1>1, <1>5, <2>1, <3>1, <3>2 DEF ChannelIs
  <2> SUFFICES ChannelIs(c)'
    BY <2>1 DEF ChannelFits
  <2>2. ChannelIs(c)
    BY DEF IInv, ChannelFits
  <2>3. up' = up /\ chans' = chans /\ chan' = chan /\ core' = core /\ dropped' = dropped
        /\ c \notin chans /\ ~Unanswered(c)'
    BY <1>1, <1>3
  <2>4. CASE up /\ c \in pending /\ ok
    <3>1. /\ call'[c] = "replied" /\ early' = early /\ closing' = closing
          /\ call[c] = "waiting"
      BY <1>3, <1>4, <1>5, <2>4
    <3>2. ~HeldClose(c)' /\ c \notin closing
      BY <2>2, <2>4, <3>1 DEF ChannelIs, HeldClose
    <3> QED BY <1>2, <2>2, <2>4, <2>3, <3>1, <3>2 DEF ChannelIs
  <2>5. CASE up /\ c \notin pending /\ ok
    <3>1. /\ call'[c] = "failed" /\ early'[c] = <<>> /\ c \in closing' /\ c \in askedClose'
      BY <1>3, <1>4, <1>5, <2>5 DEF IInv, HcTyped
    <3> QED BY <1>2, <2>2, <2>5, <2>3, <3>1 DEF ChannelIs
  <2>6. CASE up /\ ~ok
    <3>1. /\ call'[c] = "failed" /\ early'[c] = <<>> /\ closing' = closing
      BY <1>2, <1>3, <1>4, <1>5, <2>6
    <3>2. c \notin closing
      \* Its reply was to come, so nothing closed it here
      <4>1. ~(core[c] = "open" \/ Ends(c))
        <5>1. core[c] = "closed" /\ 1 \in 1..Len(wire) /\ wire[1].kind = "error"
          <6>1. 1 \in 1..Len(wire)
            BY <1>1, Reading DEF IInv
          <6> QED BY <1>1, <2>6, <6>1 DEF IInv, WireFits, Item
        <5>2. \A j \in 1..Len(wire) : wire[j].of = c => j = 1
          BY <5>1 DEF IInv, WireFits
        <5> QED BY <5>1, <5>2 DEF Ends
      <4> QED BY <2>2, <2>6, <4>1 DEF ChannelIs, Alive
    <3>3. core'[c] = "closed"
      BY <1>2, <2>6 DEF Gone
    <3> QED BY <1>2, <2>2, <2>6, <2>3, <3>1, <3>2, <3>3 DEF ChannelIs
  <2>7. CASE ~up
    BY <2>7, <2>3 DEF ChannelIs
  <2> QED BY <2>4, <2>5, <2>6, <2>7
<1>10. LossFits'
  BY <1>1, <1>3, <1>5 DEF IInv, LossFits
<1> QED BY <1>6, <1>7, <1>8, <1>9, <1>10 DEF IInv

\* Either way the next item leaves the invariant.
LEMMA ReadFrameKeeps == IInv /\ ReadFrame => IInv'
<1> SUFFICES ASSUME IInv, ReadFrame PROVE IInv'
  OBVIOUS
<1>1. wire # <<>> /\ wire' = Tail(wire)
  BY DEF ReadFrame
<1>2. wire[1] \in Item /\ Head(wire) = wire[1]
  BY <1>1, Reading DEF IInv
<1> DEFINE c == wire[1].of
<1>3. c \in Calls
  BY <1>2 DEF Item
<1>4. CASE wire[1].kind = "frame"
  <2>1. Route(c, wire[1].n)
    BY <1>2, <1>4 DEF ReadFrame
  <2> QED BY <1>3, <1>4, <2>1, RouteKeeps
<1>5. CASE wire[1].kind # "frame"
  <2>1. HandleControl(c, wire[1].kind = "reply")
    BY <1>2, <1>5 DEF ReadFrame
  <2> HIDE DEF c
  <2>2. c = wire[1].of /\ (wire[1].kind = "reply") \in BOOLEAN
    BY DEF c
  <2> QED BY <1>3, <1>5, <2>1, <2>2, HandleControlKeeps
<1> QED BY <1>4, <1>5

-----------------------------------------------------------------------------
(* Every step keeps the order of the frames.                               *)

\* A step that neither sends nor reads, and leaves an open channel alone.
LEMMA OrderStays ==
    ASSUME Ordered, UNCHANGED <<wire, sent>>, up' => up,
           \A c \in Calls : up' =>
                \/ call'[c] \in {"closing", "closed", "failed"}
                \/ /\ early'[c] = early[c]
                   /\ \/ call'[c] = call[c] /\ chan'[c] = chan[c]
                      \/ call'[c] \in Unopened /\ call[c] \in Unopened
    PROVE  Ordered'
<1> SUFFICES ASSUME up', NEW c \in Calls PROVE InOrder(c)'
  BY DEF Ordered
<1>1. InOrder(c)
  BY DEF Ordered
<1>2. \A k \in Nat : RestComes(c, k)' <=> RestComes(c, k)
  BY DEF RestComes
<1>3. CASE call'[c] \in {"closing", "closed", "failed"}
  BY <1>3 DEF InOrder, Unopened
<1>4. CASE early'[c] = early[c] /\ call'[c] = call[c] /\ chan'[c] = chan[c]
  <2>1. \A k \in Nat : Held(c, k)' <=> Held(c, k)
    BY <1>4 DEF Held
  <2> QED BY <1>1, <1>2, <1>4, <2>1 DEF InOrder
<1>5. CASE early'[c] = early[c] /\ call'[c] \in Unopened /\ call[c] \in Unopened
  <2>1. \A k \in Nat : Held(c, k)' <=> Held(c, k)
    BY <1>5 DEF Held
  <2> QED BY <1>1, <1>2, <1>5, <2>1 DEF InOrder, Unopened
<1> QED BY <1>3, <1>4, <1>5

\* A step that sends on a channel and leaves what is here alone.
LEMMA OrderSent ==
    ASSUME Ordered, UNCHANGED <<up, call, early, chan>>,
           \A c \in Calls : \A k \in Nat : RestComes(c, k) => RestComes(c, k)'
    PROVE  Ordered'
<1> SUFFICES ASSUME up', NEW c \in Calls PROVE InOrder(c)'
  BY DEF Ordered
<1>1. InOrder(c)
  BY DEF Ordered
<1>2. \A k \in Nat : Held(c, k)' <=> Held(c, k)
  BY DEF Held
<1> QED BY <1>1, <1>2 DEF InOrder

\* The next frame is sent after the others, before a CLOSE.
LEMMA CoreSendsInOrder == \A c \in Calls : IInv /\ Ordered /\ CoreSends(c) => Ordered'
<1> SUFFICES ASSUME IInv, Ordered, NEW c \in Calls, CoreSends(c) PROVE Ordered'
  OBVIOUS
<1> DEFINE f == Frame(c, sent[c] + 1)
<1>1. /\ f \in Item /\ f.of = c /\ f.kind = "frame" /\ f.n = sent[c] + 1
      /\ sent[c] \in Nat
  BY DEF IInv, HcTyped, Frame, Item
<1>2. /\ wire' = Append(wire, f) /\ core[c] \in {"asked", "open"}
      /\ sent'[c] = sent[c] + 1
      /\ \A d \in Calls : d # c => sent'[d] = sent[d]
      /\ UNCHANGED <<up, call, early, chan>>
  BY DEF CoreSends, connVars, IInv, HcTyped
<1> HIDE DEF f
<1>3. /\ Len(wire') = Len(wire) + 1 /\ Len(wire) \in Nat
      /\ \A i \in 1..Len(wire) : wire'[i] = wire[i]
      /\ wire'[Len(wire) + 1] = f
  BY <1>1, <1>2, Sending DEF IInv
<1>4. \A i \in 1..Len(wire) : wire[i].of = c /\ wire[i].kind = "frame" =>
            wire[i].n # CLOSE
  BY <1>2 DEF IInv, WireFits
<1>5. ASSUME NEW d \in Calls, NEW k \in Nat, RestComes(d, k)
      PROVE  RestComes(d, k)'
  <2> DEFINE coming == {i \in 1..Len(wire) : wire[i].of = d /\ wire[i].kind = "frame"}
             after == {i \in 1..Len(wire') : wire'[i].of = d /\ wire'[i].kind = "frame"}
  <2>1. /\ k <= sent[d]
        /\ \A n \in k + 1 .. sent[d] : \E i \in coming : wire[i].n = n
        /\ \A i \in coming :
            /\ wire[i].n = CLOSE \/ wire[i].n \in k + 1 .. sent[d]
            /\ \A j \in coming : i < j =>
                /\ wire[i].n # CLOSE
                /\ wire[j].n = CLOSE \/ wire[i].n < wire[j].n
    BY <1>5, Zenon DEF RestComes
  <2>2. CASE d # c
    <3>1. after = coming /\ sent'[d] = sent[d]
      BY <1>1, <1>2, <1>3, <2>2
    <3>2. \A i \in coming : wire'[i] = wire[i]
      BY <1>3
    <3> HIDE DEF coming
    <3>3. /\ k <= sent'[d]
          /\ \A n \in k + 1 .. sent'[d] : \E i \in after : wire'[i].n = n
          /\ \A i \in after :
              /\ wire'[i].n = CLOSE \/ wire'[i].n \in k + 1 .. sent'[d]
              /\ \A j \in after : i < j =>
                  /\ wire'[i].n # CLOSE
                  /\ wire'[j].n = CLOSE \/ wire'[i].n < wire'[j].n
      <4> HIDE DEF after
      <4> QED BY <2>1, <3>1, <3>2
    <3> QED BY <3>3 DEF RestComes
  <2>3. CASE d = c
    <3>1. after = coming \cup {Len(wire) + 1}
      BY <1>1, <1>3, <2>3
    <3>2. /\ \A i \in coming : wire'[i] = wire[i] /\ i < Len(wire) + 1 /\ i \in Nat
          /\ \A i \in coming : wire[i].n # CLOSE
          /\ wire'[Len(wire) + 1].n = sent[c] + 1
      BY <1>1, <1>3, <1>4, <2>3
    <3> HIDE DEF coming
    <3>3. /\ k <= sent'[d]
          /\ \A n \in k + 1 .. sent'[d] : \E i \in after : wire'[i].n = n
          /\ \A i \in after :
              /\ wire'[i].n = CLOSE \/ wire'[i].n \in k + 1 .. sent'[d]
              /\ \A j \in after : i < j =>
                  /\ wire'[i].n # CLOSE
                  /\ wire'[j].n = CLOSE \/ wire'[i].n < wire'[j].n
      <4> HIDE DEF after
      <4>1. k <= sent'[d] /\ sent'[d] = sent[d] + 1 /\ sent[d] \in Nat
        BY <1>1, <1>2, <2>1, <2>3
      <4>2. ASSUME NEW n \in k + 1 .. sent'[d] PROVE \E i \in after : wire'[i].n = n
        <5>1. CASE n = sent[d] + 1
          BY <2>3, <3>1, <3>2, <5>1
        <5>2. CASE n \in k + 1 .. sent[d]
          BY <2>1, <3>1, <3>2, <5>2
        <5> QED BY <4>1, <5>1, <5>2
      <4>3. ASSUME NEW i \in after
            PROVE  /\ wire'[i].n = CLOSE \/ wire'[i].n \in k + 1 .. sent'[d]
                   /\ \A j \in after : i < j =>
                        /\ wire'[i].n # CLOSE
                        /\ wire'[j].n = CLOSE \/ wire'[i].n < wire'[j].n
        <5>1. CASE i \in coming
          <6>1. /\ wire'[i] = wire[i] /\ wire[i].n # CLOSE /\ wire[i].n \in k + 1 .. sent[d]
                /\ i < Len(wire) + 1
            BY <2>1, <3>2, <5>1
          <6>2. wire'[i].n \in k + 1 .. sent'[d] /\ wire'[i].n <= sent[d]
            BY <4>1, <6>1
          <6>3. ASSUME NEW j \in after, i < j
                PROVE  /\ wire'[i].n # CLOSE
                       /\ wire'[j].n = CLOSE \/ wire'[i].n < wire'[j].n
            <7>1. CASE j \in coming
              <8>1. /\ wire'[j] = wire[j]
                    /\ wire[j].n = CLOSE \/ wire[i].n < wire[j].n
                BY <2>1, <3>2, <5>1, <6>3, <7>1
              <8> QED BY <6>1, <8>1
            <7>2. CASE j = Len(wire) + 1
              <8>1. wire'[j].n = sent[d] + 1 /\ sent[d] \in Nat
                BY <2>3, <3>2, <4>1, <7>2
              <8> QED BY <2>1, <6>1, <6>2, <8>1
            <7> QED BY <3>1, <6>3, <7>1, <7>2
          <6> QED BY <6>2, <6>3
        <5>2. CASE i = Len(wire) + 1
          <6>1. wire'[i].n = sent'[d] /\ sent'[d] \in k + 1 .. sent'[d]
            BY <2>1, <2>3, <3>2, <4>1, <5>2
          <6>2. ASSUME NEW j \in after PROVE ~(i < j)
            <7>1. CASE j \in coming
              <8>1. j < Len(wire) + 1 /\ j \in Nat /\ Len(wire) \in Nat
                BY <1>3, <3>2, <7>1
              <8> QED BY <5>2, <8>1
            <7>2. CASE j = Len(wire) + 1
              BY <1>3, <5>2, <7>2
            <7> QED BY <3>1, <7>1, <7>2
          <6> QED BY <6>1, <6>2
        <5> QED BY <3>1, <5>1, <5>2
      <4> QED BY <4>1, <4>2, <4>3
    <3> QED BY <3>3 DEF RestComes
  <2> QED BY <2>2, <2>3
<1> QED BY <1>2, <1>5, OrderSent

\* A reply is no frame.
LEMMA CoreRepliesInOrder == \A c \in Calls : IInv /\ Ordered /\ CoreReplies(c) => Ordered'
<1> SUFFICES ASSUME IInv, Ordered, NEW c \in Calls, CoreReplies(c) PROVE Ordered'
  OBVIOUS
<1>1. PICK ok \in BOOLEAN : wire' = Append(wire, Reply(c, ok))
  BY DEF CoreReplies
<1> DEFINE f == Reply(c, ok)
<1>2. /\ f \in Item /\ f.kind # "frame" /\ wire' = Append(wire, f)
      /\ UNCHANGED <<up, call, early, chan, sent>>
  BY <1>1 DEF Reply, Item, CLOSE, CoreReplies, connVars
<1> HIDE DEF f
<1>3. /\ Len(wire') = Len(wire) + 1 /\ Len(wire) \in Nat
      /\ \A i \in 1..Len(wire) : wire'[i] = wire[i]
      /\ wire'[Len(wire) + 1] = f
  BY <1>2, Sending DEF IInv
<1>4. ASSUME NEW d \in Calls, NEW k \in Nat, RestComes(d, k)
      PROVE  RestComes(d, k)'
  <2> DEFINE coming == {i \in 1..Len(wire) : wire[i].of = d /\ wire[i].kind = "frame"}
             after == {i \in 1..Len(wire') : wire'[i].of = d /\ wire'[i].kind = "frame"}
  <2>1. after = coming /\ \A i \in coming : wire'[i] = wire[i]
    BY <1>2, <1>3
  <2>2. /\ k <= sent[d]
        /\ \A n \in k + 1 .. sent[d] : \E i \in coming : wire[i].n = n
        /\ \A i \in coming :
            /\ wire[i].n = CLOSE \/ wire[i].n \in k + 1 .. sent[d]
            /\ \A j \in coming : i < j =>
                /\ wire[i].n # CLOSE
                /\ wire[j].n = CLOSE \/ wire[i].n < wire[j].n
    BY <1>4, Zenon DEF RestComes
  <2> HIDE DEF coming
  <2>3. /\ k <= sent'[d]
        /\ \A n \in k + 1 .. sent'[d] : \E i \in after : wire'[i].n = n
        /\ \A i \in after :
            /\ wire'[i].n = CLOSE \/ wire'[i].n \in k + 1 .. sent'[d]
            /\ \A j \in after : i < j =>
                /\ wire'[i].n # CLOSE
                /\ wire'[j].n = CLOSE \/ wire'[i].n < wire'[j].n
    <3> HIDE DEF after
    <3>1. sent' = sent /\ \A i \in after : i \in coming /\ wire'[i] = wire[i]
      BY <1>2, <2>1
    <3>2. ASSUME NEW n \in k + 1 .. sent[d] PROVE \E i \in after : wire'[i].n = n
      <4>1. PICK i \in coming : wire[i].n = n
        BY <2>2
      <4> QED BY <2>1, <4>1
    <3>3. ASSUME NEW i \in after
          PROVE  /\ wire'[i].n = CLOSE \/ wire'[i].n \in k + 1 .. sent[d]
                 /\ \A j \in after : i < j =>
                      /\ wire'[i].n # CLOSE
                      /\ wire'[j].n = CLOSE \/ wire'[i].n < wire'[j].n
      BY <2>2, <3>1
    <3> QED BY <2>2, <3>1, <3>2, <3>3
  <2> QED BY <2>3 DEF RestComes
<1> QED BY <1>2, <1>4, OrderSent

\* A CLOSE is sent once, after the last frame.
LEMMA CoreClosesInOrder == \A c \in Calls : IInv /\ Ordered /\ CoreCloses(c) => Ordered'
<1> SUFFICES ASSUME IInv, Ordered, NEW c \in Calls, CoreCloses(c) PROVE Ordered'
  OBVIOUS
<1> DEFINE f == Frame(c, CLOSE)
<1>1. /\ f \in Item /\ f.of = c /\ f.kind = "frame" /\ f.n = CLOSE
      /\ wire' = Append(wire, f) /\ core[c] = "open"
      /\ UNCHANGED <<up, call, early, chan, sent>>
  BY DEF Frame, Item, CLOSE, CoreCloses, connVars
<1> HIDE DEF f
<1>2. /\ Len(wire') = Len(wire) + 1 /\ Len(wire) \in Nat
      /\ \A i \in 1..Len(wire) : wire'[i] = wire[i]
      /\ wire'[Len(wire) + 1] = f
  BY <1>1, Sending DEF IInv
<1>3. \A i \in 1..Len(wire) : wire[i].of = c /\ wire[i].kind = "frame" =>
            wire[i].n # CLOSE
  BY <1>1 DEF IInv, WireFits
<1>4. ASSUME NEW d \in Calls, NEW k \in Nat, RestComes(d, k)
      PROVE  RestComes(d, k)'
  <2> DEFINE coming == {i \in 1..Len(wire) : wire[i].of = d /\ wire[i].kind = "frame"}
             after == {i \in 1..Len(wire') : wire'[i].of = d /\ wire'[i].kind = "frame"}
  <2>1. /\ after = IF d = c THEN coming \cup {Len(wire) + 1} ELSE coming
        /\ \A i \in coming : wire'[i] = wire[i] /\ i < Len(wire) + 1 /\ i \in Nat
        /\ d = c => \A i \in coming : wire[i].n # CLOSE
        /\ wire'[Len(wire) + 1].n = CLOSE
    BY <1>1, <1>2, <1>3
  <2>2. /\ k <= sent[d]
        /\ \A n \in k + 1 .. sent[d] : \E i \in coming : wire[i].n = n
        /\ \A i \in coming :
            /\ wire[i].n = CLOSE \/ wire[i].n \in k + 1 .. sent[d]
            /\ \A j \in coming : i < j =>
                /\ wire[i].n # CLOSE
                /\ wire[j].n = CLOSE \/ wire[i].n < wire[j].n
    BY <1>4, Zenon DEF RestComes
  <2> HIDE DEF coming
  <2>3. /\ k <= sent'[d]
        /\ \A n \in k + 1 .. sent'[d] : \E i \in after : wire'[i].n = n
        /\ \A i \in after :
            /\ wire'[i].n = CLOSE \/ wire'[i].n \in k + 1 .. sent'[d]
            /\ \A j \in after : i < j =>
                /\ wire'[i].n # CLOSE
                /\ wire'[j].n = CLOSE \/ wire'[i].n < wire'[j].n
    <3> HIDE DEF after
    <3>1. CASE d # c
      <4>1. after = coming /\ sent'[d] = sent[d] /\ \A i \in coming : wire'[i] = wire[i]
        BY <1>1, <2>1, <3>1
      <4> QED BY <2>2, <4>1
    <3>2. CASE d = c
      <4>1. \A i \in coming : ~(Len(wire) + 1 < i)
        BY <1>2, <2>1
      <4>2. /\ \A i \in after : i \in coming \/ (i = Len(wire) + 1 /\ wire'[i].n = CLOSE)
            /\ \A i \in coming : i \in after
            /\ ~(Len(wire) + 1 < Len(wire) + 1)
        BY <1>2, <2>1, <3>2
      <4>3. /\ k <= sent'[d]
            /\ \A n \in k + 1 .. sent'[d] : \E i \in after : wire'[i].n = n
        <5>1. \A i \in coming : i \in after /\ wire'[i] = wire[i]
          BY <2>1, <4>2
        <5>2. ASSUME NEW n \in k + 1 .. sent[d] PROVE \E i \in after : wire'[i].n = n
          <6>1. PICK i \in coming : wire[i].n = n
            BY <2>2
          <6> QED BY <5>1, <6>1
        <5> QED BY <1>1, <2>2, <5>2
      <4>4. \A i \in after : wire'[i].n = CLOSE \/ wire'[i].n \in k + 1 .. sent'[d]
        BY <1>1, <2>1, <2>2, <4>2
      <4>5. ASSUME NEW i \in after, NEW j \in after, i < j
            PROVE  wire'[i].n # CLOSE /\ (wire'[j].n = CLOSE \/ wire'[i].n < wire'[j].n)
        <5>1. i \in coming
          BY <4>1, <4>2, <4>5
        <5> QED BY <2>1, <2>2, <3>2, <4>2, <4>5, <5>1
      <4> QED BY <4>3, <4>4, <4>5
    <3> QED BY <3>1, <3>2
  <2> QED BY <2>3 DEF RestComes
<1> QED BY <1>1, <1>4, OrderSent

\* The next item on the way, when it is no frame of d, changes nothing for d;
\* otherwise it is the next frame, or the CLOSE after the last.
LEMMA ReadInOrder ==
    ASSUME IInv, wire # <<>>, wire' = Tail(wire), sent' = sent,
           NEW d \in Calls, NEW k \in Nat, RestComes(d, k)
    PROVE  IF wire[1].of # d \/ wire[1].kind # "frame" THEN RestComes(d, k)'
           ELSE IF wire[1].n = CLOSE THEN k = sent[d] /\ RestComes(d, k)'
           ELSE wire[1].n = k + 1 /\ RestComes(d, k + 1)'
<1> DEFINE coming == {i \in 1..Len(wire) : wire[i].of = d /\ wire[i].kind = "frame"}
           after == {i \in 1..Len(wire') : wire'[i].of = d /\ wire'[i].kind = "frame"}
           first == wire[1].of = d /\ wire[1].kind = "frame"
<1>1. /\ Len(wire) \in Nat \ {0} /\ Len(wire') = Len(wire) - 1
      /\ \A i \in 1..Len(wire') : i + 1 \in 1..Len(wire) /\ wire'[i] = wire[i + 1]
  BY Reading DEF IInv
<1>2. /\ \A i \in after : i + 1 \in coming /\ wire'[i] = wire[i + 1] /\ i \in Nat /\ 1 < i + 1
      /\ \A i \in coming : i \in Nat /\ (i # 1 => 1 < i /\ i - 1 \in after /\ wire'[i - 1] = wire[i])
      /\ first <=> 1 \in coming
  BY <1>1
<1>3. /\ k <= sent[d]
      /\ \A n \in k + 1 .. sent[d] : \E i \in coming : wire[i].n = n
      /\ \A i \in coming :
          /\ wire[i].n = CLOSE \/ wire[i].n \in k + 1 .. sent[d]
          /\ \A j \in coming : i < j =>
              /\ wire[i].n # CLOSE
              /\ wire[j].n = CLOSE \/ wire[i].n < wire[j].n
  BY Zenon DEF RestComes
<1>4. sent[d] \in Nat
  BY DEF IInv, HcTyped
<1> HIDE DEF coming, first
<1>5. \A i, j \in after : i < j =>
        /\ wire'[i].n # CLOSE
        /\ wire'[j].n = CLOSE \/ wire'[i].n < wire'[j].n
  <2> HIDE DEF after
  <2> SUFFICES ASSUME NEW i \in after, NEW j \in after, i < j
               PROVE  /\ wire'[i].n # CLOSE
                      /\ wire'[j].n = CLOSE \/ wire'[i].n < wire'[j].n
    OBVIOUS
  <2>1. /\ i + 1 \in coming /\ j + 1 \in coming /\ i + 1 < j + 1
        /\ wire'[i] = wire[i + 1] /\ wire'[j] = wire[j + 1]
    <3>1. /\ i + 1 \in coming /\ wire'[i] = wire[i + 1] /\ i \in Nat
          /\ j + 1 \in coming /\ wire'[j] = wire[j + 1] /\ j \in Nat
      BY <1>2
    <3>2. i + 1 < j + 1
      BY <3>1
    <3> QED BY <3>1, <3>2, Zenon
  <2>2. /\ wire[i + 1].n # CLOSE
        /\ wire[j + 1].n = CLOSE \/ wire[i + 1].n < wire[j + 1].n
    BY <1>3, <2>1
  <2> QED BY <2>1, <2>2
<1>6. ASSUME NEW m \in Nat, m <= sent[d],
             \A n \in m + 1 .. sent[d] : \E i \in after : wire'[i].n = n,
             \A i \in after : wire'[i].n = CLOSE \/ wire'[i].n \in m + 1 .. sent[d]
      PROVE  RestComes(d, m)'
  BY <1>5, <1>6 DEF RestComes
<1>7. CASE ~first
  <2>1. \A n \in k + 1 .. sent[d] : \E i \in after : wire'[i].n = n
    <3> HIDE DEF after
    <3> SUFFICES ASSUME NEW n \in k + 1 .. sent[d] PROVE \E i \in after : wire'[i].n = n
      OBVIOUS
    <3>1. PICK i \in coming : wire[i].n = n
      BY <1>3
    <3>2. i - 1 \in after /\ wire'[i - 1] = wire[i]
      BY <1>2, <1>7
    <3> QED BY <3>1, <3>2
  <2>2. \A i \in after : wire'[i].n = CLOSE \/ wire'[i].n \in k + 1 .. sent[d]
    <3> HIDE DEF after
    <3> SUFFICES ASSUME NEW i \in after
                 PROVE  wire'[i].n = CLOSE \/ wire'[i].n \in k + 1 .. sent[d]
      OBVIOUS
    <3>1. i + 1 \in coming /\ wire'[i] = wire[i + 1]
      BY <1>2
    <3> QED BY <1>3, <3>1
  <2> HIDE DEF after
  <2>3. RestComes(d, k)'
    BY <1>3, <1>6, <2>1, <2>2
  <2> QED BY <1>7, <2>3 DEF first
<1>8. CASE first /\ wire[1].n = CLOSE
  <2>1. 1 \in coming /\ coming \subseteq {1}
    BY <1>2, <1>3, <1>8
  <2>2. after = {}
    <3> HIDE DEF after
    <3> QED BY <1>2, <2>1
  <2>3. k = sent[d]
    <3>1. ASSUME k < sent[d] PROVE FALSE
      <4>1. k + 1 \in k + 1 .. sent[d]
        BY <1>4, <3>1
      <4>2. PICK i \in coming : wire[i].n = k + 1
        BY <1>3, <4>1
      <4> QED BY <1>8, <2>1, <4>2 DEF CLOSE
    <3> QED BY <1>3, <1>4, <3>1
  <2> HIDE DEF after
  <2>4. RestComes(d, k)'
    BY <1>4, <1>6, <2>2, <2>3
  <2> QED BY <1>8, <2>3, <2>4 DEF first
<1>9. CASE first /\ wire[1].n # CLOSE
  <2>1. 1 \in coming /\ wire[1].n \in k + 1 .. sent[d]
    BY <1>2, <1>3, <1>9
  <2>2. PICK i \in coming : wire[i].n = k + 1
    <3>1. k + 1 \in k + 1 .. sent[d]
      BY <1>4, <2>1
    <3> QED BY <1>3, <3>1
  <2>3. wire[1].n = k + 1
    <3>1. CASE i = 1
      BY <2>2, <3>1
    <3>2. CASE i # 1
      <4>1. 1 < i
        BY <1>2, <3>2
      <4>2. wire[i].n = CLOSE \/ wire[1].n < wire[i].n
        BY <1>3, <2>1, <4>1
      <4> QED BY <2>1, <2>2, <4>2 DEF CLOSE
    <3> QED BY <3>1, <3>2
  <2>4. \A n \in (k + 1) + 1 .. sent[d] : \E j \in after : wire'[j].n = n
    <3> SUFFICES ASSUME NEW n \in (k + 1) + 1 .. sent[d] PROVE \E j \in after : wire'[j].n = n
      OBVIOUS
    <3>1. n \in k + 1 .. sent[d] /\ n # k + 1
      BY <1>4
    <3>2. PICK j \in coming : wire[j].n = n
      BY <1>3, <3>1
    <3>3. j # 1
      BY <2>3, <3>1, <3>2
    <3> HIDE DEF after
    <3> QED BY <1>2, <3>2, <3>3
  <2>5. \A j \in after : wire'[j].n = CLOSE \/ wire'[j].n \in (k + 1) + 1 .. sent[d]
    <3> HIDE DEF after
    <3> SUFFICES ASSUME NEW j \in after, wire'[j].n # CLOSE
                 PROVE  wire'[j].n \in (k + 1) + 1 .. sent[d]
      OBVIOUS
    <3>1. j + 1 \in coming /\ wire'[j] = wire[j + 1] /\ 1 < j + 1
      BY <1>2
    <3>2. /\ wire[j + 1].n = CLOSE \/ wire[1].n < wire[j + 1].n
          /\ wire[j + 1].n = CLOSE \/ wire[j + 1].n \in k + 1 .. sent[d]
      BY <1>3, <2>1, <3>1
    <3>3. wire[j + 1].n # CLOSE
      BY <3>1
    <3>4. k + 1 < wire[j + 1].n /\ wire[j + 1].n \in k + 1 .. sent[d]
      BY <2>3, <3>2, <3>3
    <3>5. wire[j + 1].n \in (k + 1) + 1 .. sent[d]
      BY <1>4, <3>4
    <3> QED BY <3>1, <3>5
  <2>6. k + 1 \in Nat /\ k + 1 <= sent[d]
    BY <1>4, <2>1, <2>3
  <2> HIDE DEF after
  <2>7. RestComes(d, k + 1)'
    BY <1>6, <2>4, <2>5, <2>6
  <2> QED BY <1>9, <2>3, <2>7 DEF first
<1> QED BY <1>7, <1>8, <1>9

\* A frame goes on to the open channel, is held for one that is not open, or
\* is dropped by one that was closed.
LEMMA RouteInOrder ==
    ASSUME IInv, Ordered, ReadFrame, NEW c \in Calls, wire[1].of = c,
           wire[1].kind = "frame", Route(c, wire[1].n)
    PROVE  Ordered'
<1> SUFFICES ASSUME up', NEW d \in Calls PROVE InOrder(d)'
  BY DEF Ordered
<1> DEFINE n == wire[1].n
<1>1. /\ wire' = Tail(wire) /\ wire # <<>> /\ n \in Nat
      /\ up /\ UNCHANGED <<sent, call>> /\ 1 \in 1..Len(wire)
  <2>1. wire' = Tail(wire) /\ wire # <<>> /\ wire[1] \in Item /\ UNCHANGED <<up, sent>>
    BY ReadFacts
  <2>2. 1 \in 1..Len(wire)
    BY <2>1, Reading DEF IInv
  <2> QED BY <2>1, <2>2 DEF Route, Item
<1>2. InOrder(d)
  BY <1>1 DEF Ordered
<1>3. /\ c \in chans => chan' = [chan EXCEPT ![c] = Delivered(@, n)] /\ early' = early
      /\ c \notin chans => chan' = chan
      /\ c \notin chans /\ c \in closing => early' = early
      /\ c \notin chans /\ c \notin closing =>
            early' = [early EXCEPT ![c] = Append(@, n)]
  BY DEF Route
<1>4. /\ core[c] # "none" /\ ~Silent(c) /\ ChannelIs(c)
      /\ c \in chans => call[c] \in {"open", "closing"}
  BY <1>1 DEF IInv, WireFits, Silent, ChannelFits, HcTyped, HcTypeOK
<1> HIDE DEF n
<1>5. CASE d # c
  <2>1. chan'[d] = chan[d] /\ early'[d] = early[d]
    BY <1>3, <1>5 DEF IInv, HcTyped, ChansTyped
  <2>2. \A k \in Nat : /\ RestComes(d, k) => RestComes(d, k)'
                       /\ Held(d, k)' <=> Held(d, k)
    BY <1>1, <1>5, <2>1, ReadInOrder DEF Held
  <2> QED BY <1>1, <1>2, <2>1, <2>2 DEF InOrder
<1>6. CASE d = c /\ call[c] \in Unopened
  <2>1. PICK k \in Nat : Held(c, k) /\ RestComes(c, k)
    BY <1>2, <1>6 DEF InOrder
  <2>2. early[c] \in Seq(Nat) /\ Len(early[c]) \in Nat
    BY LenProperties DEF IInv, HcTyped
  <2>3. ~HeldClose(c) /\ c \notin chans /\ c \notin closing
    <3>1. call[c] \in {"idle", "writing"} => core[c] = "none"
      BY DEF IInv, CoreFits
    <3>2. call[c] \in {"waiting", "replied", "answered"}
      BY <1>4, <1>6, <3>1 DEF Unopened
    <3>3. /\ c \in closing => call[c] \in {"failed", "closed"}
          /\ call[c] = "waiting" => ~HeldClose(c)
          /\ call[c] \in {"replied", "answered"} /\ HeldClose(c) => Silent(c)
      BY <1>1, <1>4 DEF ChannelIs, Gone
    <3> QED BY <1>4, <3>2, <3>3
  <2>4. Len(early[c]) = k
    BY <2>1, <2>2, <2>3 DEF Held, HeldClose
  <2>5. early'[c] = Append(early[c], n)
    BY <1>3, <2>3 DEF IInv, HcTyped
  <2>6. /\ Len(early'[c]) = k + 1 /\ early'[c][k + 1] = n
        /\ \A i \in 1..k : early'[c][i] = early[c][i]
    BY <1>1, <2>2, <2>4, <2>5, AppendProperties
  <2>7. CASE n = CLOSE
    <3>1. RestComes(c, k)'
      BY <1>1, <2>1, <2>7, ReadInOrder DEF n
    <3>2. Held(c, k)'
      <4>1. \A i \in 1..k : early'[c][i] = i /\ i # CLOSE
        BY <2>1, <2>6 DEF Held
      <4>2. k <= Len(early'[c]) /\ Len(early'[c]) <= k + 1
        BY <2>6
      <4> QED BY <2>6, <2>7, <4>1, <4>2 DEF Held
    <3> QED BY <1>1, <1>6, <3>1, <3>2 DEF InOrder, Unopened
  <2>8. CASE n # CLOSE
    <3>1. n = k + 1 /\ RestComes(c, k + 1)'
      BY <1>1, <2>1, <2>8, ReadInOrder DEF n
    <3>2. /\ k + 1 \in Nat /\ k + 1 <= Len(early'[c]) /\ Len(early'[c]) <= (k + 1) + 1
          /\ Len(early'[c]) # (k + 1) + 1
          /\ \A i \in 1..k + 1 : i \in 1..k \/ i = k + 1
      BY <2>6
    <3>3. Held(c, k + 1)'
      BY <2>1, <2>6, <2>8, <3>1, <3>2 DEF Held
    <3> QED BY <1>1, <1>6, <3>1, <3>2, <3>3 DEF InOrder, Unopened
  <2> QED BY <2>7, <2>8
<1>7. CASE d = c /\ call[c] = "open"
  <2>1. PICK k \in Nat : chan[c].got = [i \in 1..k |-> i] /\ RestComes(c, k)
    BY <1>2, <1>7 DEF InOrder
  <2>2. c \in chans /\ ~chan[c].closed
    <3>1. c \in chans \/ Gone(c)
      BY <1>1, <1>4, <1>7 DEF ChannelIs
    <3> QED BY <1>2, <1>4, <1>7, <3>1 DEF Gone, InOrder
  <2>3. chan'[c] = Delivered(chan[c], n) /\ IsChannel(chan[c])
    BY <1>3, <2>2 DEF IInv, HcTyped, ChansTyped
  <2>4. CASE n = CLOSE
    <3>1. RestComes(c, k)'
      BY <1>1, <2>1, <2>4, ReadInOrder DEF n
    <3>2. chan'[c].got = chan[c].got /\ ~chan'[c].closed
      BY <2>2, <2>3, <2>4 DEF Delivered, IsChannel
    <3> QED BY <1>1, <1>7, <2>1, <3>1, <3>2 DEF InOrder, Unopened
  <2>5. CASE n # CLOSE
    <3>1. n = k + 1 /\ RestComes(c, k + 1)' /\ k + 1 \in Nat
      BY <1>1, <2>1, <2>5, ReadInOrder DEF n
    <3>2. chan'[c].got = Append(chan[c].got, n) /\ ~chan'[c].closed
      BY <2>2, <2>3, <2>5 DEF Delivered, IsChannel
    <3>3. chan'[c].got = [i \in 1..k + 1 |-> i]
      BY <2>1, <3>1, <3>2, FramesAppend
    <3> QED BY <1>1, <1>7, <3>1, <3>2, <3>3 DEF InOrder, Unopened
  <2> QED BY <2>4, <2>5
<1>8. CASE d = c /\ call[c] \notin Unopened /\ call[c] # "open"
  BY <1>1, <1>8 DEF InOrder
<1> QED BY <1>5, <1>6, <1>7, <1>8

\* A reply changes nothing for the frames of its channel.
LEMMA HandleControlInOrder ==
    ASSUME IInv, Ordered, ReadFrame, NEW c \in Calls, wire[1].of = c,
           wire[1].kind # "frame", NEW ok \in BOOLEAN, HandleControl(c, ok)
    PROVE  Ordered'
<1> SUFFICES ASSUME up', NEW d \in Calls PROVE InOrder(d)'
  BY DEF Ordered
<1>1. /\ wire' = Tail(wire) /\ wire # <<>>
      /\ up /\ UNCHANGED <<sent, chan>>
  BY ReadFacts DEF HandleControl
<1>2. InOrder(d)
  BY <1>1 DEF Ordered
<1>3. \A k \in Nat : RestComes(d, k) => RestComes(d, k)'
  BY <1>1, ReadInOrder
<1>4. /\ c \in pending => /\ call' = [call EXCEPT ![c] = IF ok THEN "replied" ELSE "failed"]
                          /\ early' = early /\ call[c] \in Unopened
      /\ c \notin pending => /\ call' = call
                             /\ early' = early \/ early' = [early EXCEPT ![c] = <<>>]
  BY DEF HandleControl, LateCloses, IInv, HcTyped, HcTypeOK, Unopened
<1>5. CASE early'[d] = early[d] /\ call'[d] = call[d]
  <2>1. \A k \in Nat : Held(d, k)' <=> Held(d, k)
    BY <1>5 DEF Held
  <2> QED BY <1>1, <1>2, <1>3, <1>5, <2>1 DEF InOrder
<1>6. CASE early' = early /\ call[d] \in Unopened /\ call'[d] \in {"replied", "failed"}
  <2>1. \A k \in Nat : Held(d, k)' <=> Held(d, k)
    BY <1>6 DEF Held
  <2> QED BY <1>2, <1>3, <1>6, <2>1 DEF InOrder, Unopened
<1>7. CASE d = c /\ call'[c] = "failed"
  BY <1>7 DEF InOrder, Unopened
<1>8. CASE c \notin pending /\ early' # early
  <2>1. Unanswered(c)
    BY ReadFacts
  <2>2. call[c] = "failed"
    BY <1>1, <1>8, <2>1 DEF IInv, CoreFits, HcTyped, HcTypeOK
  <2> QED BY <1>4, <1>5, <1>7, <1>8, <2>2 DEF IInv, HcTyped
<1>9. call \in [Calls -> {"idle", "writing", "waiting", "replied", "answered",
                         "open", "closing", "closed", "failed"}]
  BY DEF IInv, HcTyped, HcTypeOK
<1> QED BY <1>4, <1>5, <1>6, <1>8, <1>9

\* Either way the next item leaves the frames in order.
LEMMA ReadFrameInOrder == IInv /\ Ordered /\ ReadFrame => Ordered'
<1> SUFFICES ASSUME IInv, Ordered, ReadFrame PROVE Ordered'
  OBVIOUS
<1>1. wire # <<>> /\ wire' = Tail(wire)
  BY DEF ReadFrame
<1>2. wire[1] \in Item /\ Head(wire) = wire[1]
  BY <1>1, Reading DEF IInv
<1> DEFINE c == wire[1].of
<1>3. c \in Calls
  BY <1>2 DEF Item
<1>4. CASE wire[1].kind = "frame"
  <2>1. Route(c, wire[1].n)
    BY <1>2, <1>4 DEF ReadFrame
  <2> QED BY <1>3, <1>4, <2>1, RouteInOrder
<1>5. CASE wire[1].kind # "frame"
  <2>1. HandleControl(c, wire[1].kind = "reply")
    BY <1>2, <1>5 DEF ReadFrame
  <2> HIDE DEF c
  <2>2. c = wire[1].of /\ (wire[1].kind = "reply") \in BOOLEAN
    BY DEF c
  <2> QED BY <1>3, <1>5, <2>1, <2>2, HandleControlInOrder
<1> QED BY <1>4, <1>5

\* The frames held are the first the channel has.
LEMMA OpenChannelInOrder == \A c \in Calls : IInv /\ Ordered /\ OpenChannel(c) => Ordered'
<1> SUFFICES ASSUME IInv, Ordered, NEW c \in Calls, OpenChannel(c), up',
                    NEW d \in Calls
             PROVE  InOrder(d)'
  BY DEF Ordered
<1>1. /\ up /\ UNCHANGED <<wire, sent>> /\ call[c] = "answered"
      /\ call' = [call EXCEPT ![c] = "open"]
      /\ chan' = [chan EXCEPT ![c] = Replayed(c)]
      /\ early' = [early EXCEPT ![c] = <<>>]
  BY DEF OpenChannel, StillUp, coreVars
<1>2. InOrder(d)
  BY <1>1 DEF Ordered
<1>3. \A k \in Nat : RestComes(d, k)' <=> RestComes(d, k)
  BY <1>1 DEF RestComes
<1>4. CASE d # c
  <2>1. chan'[d] = chan[d] /\ early'[d] = early[d] /\ call'[d] = call[d]
    BY <1>1, <1>4 DEF IInv, HcTyped, HcTypeOK, ChansTyped
  <2>2. \A k \in Nat : Held(d, k)' <=> Held(d, k)
    BY <2>1 DEF Held
  <2> QED BY <1>2, <1>3, <2>1, <2>2 DEF InOrder
<1>5. CASE d = c
  <2>1. PICK k \in Nat : Held(c, k) /\ RestComes(c, k)
    BY <1>1, <1>2, <1>5 DEF InOrder, Unopened
  <2>2. chan'[c] = Replayed(c) /\ call'[c] = "open"
    BY <1>1 DEF IInv, HcTyped, HcTypeOK, ChansTyped
  <2>3. ~Replayed(c).closed /\ Replayed(c).got = [n \in 1..k |-> n]
    BY <2>1, ReplayedIs DEF IInv
  <2> QED BY <1>3, <1>5, <2>1, <2>2, <2>3 DEF InOrder, Unopened
<1> QED BY <1>4, <1>5

\* The steps of a call and of a channel, and the loss of the connection.
LEMMA OthersInOrder ==
    ASSUME IInv, Ordered, NEW c \in Calls,
           \/ Fail \/ Register(c) \/ Request(c) \/ TakeReply(c) \/ GivesUp(c)
           \/ CloseChannel(c) \/ Detach(c) \/ Lose(c)
    PROVE  Ordered'
<1>0. call \in [Calls -> {"idle", "writing", "waiting", "replied", "answered",
                         "open", "closing", "closed", "failed"}]
  BY DEF IInv, HcTyped, HcTypeOK
<1>1. CASE Fail
  BY <1>1 DEF Fail, Ordered
<1>2. CASE Lose(c)
  BY <1>2 DEF Lose, Ordered, IInv, LossFits
<1>3. CASE Register(c) \/ Request(c) \/ TakeReply(c) \/ GivesUp(c)
  <2>1. /\ UNCHANGED <<wire, sent, up, early, chan>>
        /\ call[c] \in Unopened /\ call'[c] \in Unopened \cup {"failed"}
        /\ \A d \in Calls : d # c => call'[d] = call[d]
    BY <1>0, <1>3 DEF Register, Request, TakeReply, GivesUp, coreVars, Unopened
  <2> QED BY <1>0, <2>1, OrderStays
<1>4. CASE CloseChannel(c)
  <2>1. /\ UNCHANGED <<wire, sent, up, early>>
        /\ call'[c] \in {"closing", "closed"}
        /\ \A d \in Calls : d # c => call'[d] = call[d] /\ chan'[d] = chan[d]
    BY <1>0, <1>4 DEF CloseChannel, coreVars, IInv, HcTyped, ChansTyped
  <2> QED BY <2>1, OrderStays
<1>5. CASE Detach(c)
  <2>1. /\ UNCHANGED <<wire, sent, up, early, chan>>
        /\ call'[c] = "closed"
        /\ \A d \in Calls : d # c => call'[d] = call[d]
    BY <1>0, <1>5 DEF Detach
  <2> QED BY <2>1, OrderStays
<1> QED BY <1>1, <1>2, <1>3, <1>4, <1>5

\* Every step keeps the first part.
LEMMA NextIInv == IInv /\ Ordered /\ [HcNext]_hcVars => IInv'
<1> SUFFICES ASSUME IInv, Ordered, [HcNext]_hcVars PROVE IInv'
  OBVIOUS
<1>1. CASE Fail
  BY <1>1, FailKeeps
<1>2. CASE ReadFrame
  BY <1>2, ReadFrameKeeps
<1>3. CASE \E c \in Calls : CoreSends(c) \/ CoreReplies(c) \/ CoreCloses(c)
  BY <1>3, CoreSendsKeeps, CoreRepliesKeeps, CoreClosesKeeps
<1>4. CASE \E c \in Calls : Register(c) \/ Request(c) \/ TakeReply(c) \/ GivesUp(c)
  BY <1>4, RegisterKeeps, RequestKeeps, TakeReplyKeeps, GivesUpKeeps
<1>5. CASE \E c \in Calls : OpenChannel(c) \/ CloseChannel(c) \/ Detach(c) \/ Lose(c)
  BY <1>5, OpenChannelKeeps, CloseChannelKeeps, DetachKeeps, LoseKeeps
<1>6. CASE UNCHANGED hcVars
  <2>1. UNCHANGED <<up, call, pending, chans, early, closing, toLose, chan, dropped,
                    core, sent, askedClose, wire>>
    BY <1>6 DEF hcVars, connVars, coreVars
  <2>2. HcTyped'
    BY <2>1 DEF IInv, HcTyped, ChansTyped, HcTypeOK
  <2>3. /\ WireFits'
        /\ \A d \in Calls : /\ Silent(d)' <=> Silent(d)
                            /\ Alive(d)' <=> Alive(d)
                            /\ Gone(d)' <=> Gone(d)
                            /\ Unanswered(d)' <=> Unanswered(d)
    BY <2>1, WireKept
  <2>4. CoreFits' /\ LossFits'
    BY <2>1, <2>3 DEF IInv, CoreFits, LossFits
  <2>5. ChannelFits'
    BY <2>1, <2>3 DEF IInv, ChannelFits, ChannelIs, HeldClose
  <2> QED BY <2>2, <2>3, <2>4, <2>5 DEF IInv
<1> QED BY <1>1, <1>2, <1>3, <1>4, <1>5, <1>6 DEF HcNext

\* Every step keeps the order.
LEMMA NextOrdered == IInv /\ Ordered /\ [HcNext]_hcVars => Ordered'
<1> SUFFICES ASSUME IInv, Ordered, [HcNext]_hcVars PROVE Ordered'
  OBVIOUS
<1>1. CASE UNCHANGED hcVars
  BY <1>1, OrderStays DEF hcVars, connVars, coreVars
<1>2. CASE Fail
  <2>1. up => ~up'
    BY <1>2 DEF Fail
  <2> QED BY <1>2 DEF Fail, Ordered
<1>3. CASE ReadFrame
  BY <1>3, ReadFrameInOrder
<1>4. CASE \E c \in Calls : CoreSends(c) \/ CoreReplies(c) \/ CoreCloses(c)
  BY <1>4, CoreSendsInOrder, CoreRepliesInOrder, CoreClosesInOrder
<1>5. CASE \E c \in Calls : OpenChannel(c)
  BY <1>5, OpenChannelInOrder
<1>6. CASE \E c \in Calls : Register(c) \/ Request(c) \/ TakeReply(c) \/ GivesUp(c)
                         \/ CloseChannel(c) \/ Detach(c) \/ Lose(c)
  BY <1>6, OthersInOrder
<1> QED BY <1>1, <1>2, <1>3, <1>4, <1>5, <1>6 DEF HcNext

\* Nothing was sent at the start.
LEMMA InitOrdered == HcInit => Ordered
<1> SUFFICES ASSUME HcInit, NEW c \in Calls PROVE InOrder(c)
  BY DEF Ordered
<1>1. Len(wire) = 0 /\ Len(early[c]) = 0 /\ sent[c] = 0 /\ call[c] = "idle"
  BY EmptySeq DEF HcInit
<1>2. Held(c, 0) /\ RestComes(c, 0)
  BY <1>1 DEF Held, RestComes
<1> QED BY <1>1, <1>2 DEF InOrder, Unopened

\* Both hold in every state of every behaviour.
THEOREM Inductive == HcSpec => [](IInv /\ Ordered)
  BY InitIInv, InitOrdered, NextIInv, NextOrdered, PTL DEF HcSpec

-----------------------------------------------------------------------------
(* What follows from it.                                                   *)

\* A call is pending as long as nothing answered it, and a channel is known as
\* open or as closing, never as both.
THEOREM HcTypeCorrect == HcSpec => []HcTypeOK
<1>1. IInv => HcTypeOK
  BY DEF IInv, HcTyped
<1> QED BY <1>1, Inductive, PTL

\* An open channel has every frame the core sent but those on their way, each
\* once and in order.
THEOREM FramesArriveWhole == HcSpec => []FramesWhole
<1>1. IInv /\ Ordered => FramesWhole
  <2> SUFFICES ASSUME IInv, Ordered, NEW c \in Calls, up, call[c] = "open"
               PROVE  LET got == chan[c].got
                      IN  /\ got = [n \in 1..Len(got) |-> n]
                          /\ RestComes(c, Len(got))
                          /\ chan[c].ended => \A i \in 1..Len(wire) : wire[i].of # c
    BY DEF FramesWhole
  <2>1. PICK k \in Nat : chan[c].got = [n \in 1..k |-> n] /\ RestComes(c, k)
    BY DEF Ordered, InOrder
  <2>2. Len([n \in 1..k |-> n]) = k
    OBVIOUS
  <2>3. chan[c].ended => Silent(c)
    BY DEF IInv, ChannelFits, ChannelIs, Gone
  <2> QED BY <2>1, <2>2, <2>3 DEF Silent
<1> QED BY <1>1, Inductive, PTL

\* Every open channel of a connection that is gone was told.
THEOREM ReadersKnow == HcSpec => []LossIsTold
<1>1. IInv => LossIsTold
  BY DEF IInv, LossFits, LossIsTold
<1> QED BY <1>1, Inductive, PTL

\* What an item on the way looks like when it is a CLOSE or a reply.
LEMMA Seen ==
    ASSUME HcTyped, WireFits, NEW c \in Calls
    PROVE  /\ Ends(c) => Comes(Frame(c, CLOSE))
           /\ Answers(c) => Comes(Reply(c, TRUE)) \/ Comes(Reply(c, FALSE))
<1>1. ASSUME NEW i \in 1..Len(wire), wire[i].of = c
      PROVE  wire[i] = [of |-> c, kind |-> wire[i].kind, n |-> wire[i].n]
             /\ wire[i].kind \in {"frame", "reply", "error"}
  <2>1. wire[i] \in Item
    BY ElementOfSeq DEF HcTyped
  <2> QED BY <1>1, <2>1 DEF Item
<1>2. Ends(c) => Comes(Frame(c, CLOSE))
  BY <1>1, Zenon DEF Ends, Comes, Frame
<1>3. ASSUME NEW i \in 1..Len(wire), wire[i].of = c, wire[i].kind # "frame"
      PROVE  wire[i] = Reply(c, TRUE) \/ wire[i] = Reply(c, FALSE)
  <2>1. wire[i].n = CLOSE
    BY <1>1, <1>3 DEF WireFits
  <2> QED BY <1>1, <1>3, <2>1 DEF Reply
<1>4. Answers(c) => Comes(Reply(c, TRUE)) \/ Comes(Reply(c, FALSE))
  BY <1>3, Zenon DEF Answers, Comes
<1> QED BY <1>2, <1>4

\* A channel is held for closing only while the core's CLOSE is to come.
THEOREM ClosingComesToAnEnd == HcSpec => []ClosingEnds
<1>1. IInv => ClosingEnds
  <2> SUFFICES ASSUME IInv, up, NEW c \in closing
               PROVE  core[c] = "open" \/ Comes(Frame(c, CLOSE))
    BY DEF ClosingEnds
  <2>1. c \in Calls
    BY DEF IInv, HcTyped, HcTypeOK
  <2>2. Alive(c)
    BY <2>1 DEF IInv, ChannelFits, ChannelIs
  <2> QED BY <2>1, <2>2, Seen DEF IInv, Alive
<1> QED BY <1>1, Inductive, PTL

\* A call that failed or a channel that was closed leaves nothing behind, once
\* its reply was handled.
THEOREM NothingOrphaned == HcSpec => []NoOrphan
<1>1. IInv => NoOrphan
  <2> SUFFICES ASSUME IInv, NEW c \in Calls \ dropped, up, Handled(c),
                      call[c] \in {"failed", "closed"}
               PROVE  early[c] = <<>> /\ (core[c] = "open" => c \in askedClose)
    BY DEF NoOrphan
  <2>1. ~Unanswered(c)
    BY Seen DEF IInv, Handled, Unanswered
  <2> QED BY <2>1 DEF IInv, ChannelFits, ChannelIs
<1> QED BY <1>1, Inductive, PTL

\* No reader and no channel id waits for what will not come.
THEOREM WaitsForNothing == HcSpec => []NothingWaits
BY ReadersKnow, ClosingComesToAnEnd, PTL DEF NothingWaits

-----------------------------------------------------------------------------
(* HcConn implements HcChannel.                                            *)

Reads == {"open", "closing", "closed"}

\* What the state of a channel has to do with where its call is.
ReaderIs(c) ==
    /\ call[c] \notin Reads => ~chan[c].ended /\ ~chan[c].lost /\ ~chan[c].closed
    /\ call[c] = "open" => ~chan[c].closed
    /\ call[c] \in {"closing", "closed"} => chan[c].closed
    /\ c \in toLose => call[c] \in Reads /\ ~chan[c].ended /\ ~chan[c].lost

ReadersFit == \A c \in Calls : ReaderIs(c)

\* The state of HcChannel.
Over == {c \in Calls : core[c] = "closed"}
Opened == {c \in Calls : call[c] \in Reads}
Got == [c \in Calls |-> chan[c].got]
Ended == {c \in Calls : chan[c].ended}
Lost == {c \in Calls : chan[c].lost}
Left == {c \in Calls : chan[c].closed}
Shown == <<up, sent, Over, Opened, Got, Ended, Lost, Left>>

\* A step that HcChannel has, or one that it does not see.
Allowed == Channel!Next \/ UNCHANGED Shown

\* A step that no reader and no core sees.
LEMMA Unseen ==
    ASSUME UNCHANGED <<up, sent>>,
           \A d \in Calls : /\ core'[d] = "closed" <=> core[d] = "closed"
                            /\ call'[d] \in Reads <=> call[d] \in Reads
                            /\ chan'[d] = chan[d]
    PROVE  UNCHANGED Shown
<1>1. Over' = Over /\ Opened' = Opened
  BY DEF Over, Opened
<1>2. Got' = Got /\ Ended' = Ended /\ Lost' = Lost /\ Left' = Left
  BY DEF Got, Ended, Lost, Left
<1> QED BY <1>1, <1>2 DEF Shown

\* What the change of one channel makes of what is seen.
LEMMA Seeing ==
    ASSUME NEW c \in Calls, \A d \in Calls : d # c => chan'[d] = chan[d]
    PROVE  /\ Got' = [Got EXCEPT ![c] = chan'[c].got]
           /\ Ended' = IF chan'[c].ended THEN Ended \cup {c} ELSE Ended \ {c}
           /\ Lost' = IF chan'[c].lost THEN Lost \cup {c} ELSE Lost \ {c}
           /\ Left' = IF chan'[c].closed THEN Left \cup {c} ELSE Left \ {c}
<1>1. Got' = [Got EXCEPT ![c] = chan'[c].got]
  BY DEF Got
<1> QED BY <1>1 DEF Ended, Lost, Left

\* A step that leaves channels and their loss alone, and moves no call among
\* those that read but to the end of its close.
LEMMA ReadersStay ==
    ASSUME ReadersFit, UNCHANGED <<chan, toLose>>,
           \A d \in Calls : \/ call'[d] = call[d]
                            \/ call[d] \notin Reads /\ call'[d] \notin Reads
                            \/ call[d] = "closing" /\ call'[d] = "closed"
    PROVE  ReadersFit'
  BY DEF ReadersFit, ReaderIs, Reads

\* The steps of the core, of the calls, and the last of a close, in one.
Quiet(c) ==
    \/ CoreSends(c) \/ CoreReplies(c) \/ CoreCloses(c)
    \/ Register(c) \/ Request(c) \/ TakeReply(c) \/ GivesUp(c) \/ Detach(c)

\* They leave every channel alone, and no call starts or stops to read.
LEMMA QuietIs ==
    ASSUME IInv, NEW c \in Calls, Quiet(c)
    PROVE  /\ UNCHANGED <<up, chan, toLose>>
           /\ \A d \in Calls : d # c => call'[d] = call[d]
           /\ \/ call'[c] = call[c]
              \/ call[c] \notin Reads /\ call'[c] \notin Reads
              \/ call[c] = "closing" /\ call'[c] = "closed"
<1>1. call \in [Calls -> {"idle", "writing", "waiting", "replied", "answered",
                          "open", "closing", "closed", "failed"}]
  BY DEF IInv, HcTyped, HcTypeOK
<1>2. CASE CoreSends(c) \/ CoreReplies(c) \/ CoreCloses(c)
  BY <1>2 DEF CoreSends, CoreReplies, CoreCloses, connVars
<1>3. CASE Register(c)
  BY <1>1, <1>3 DEF Register, Reads
<1>4. CASE Request(c)
  BY <1>1, <1>4 DEF Request, Reads
<1>5. CASE TakeReply(c)
  BY <1>1, <1>5 DEF TakeReply, Reads
<1>6. CASE GivesUp(c)
  BY <1>1, <1>6 DEF GivesUp, Reads
<1>7. CASE Detach(c)
  BY <1>1, <1>7 DEF Detach
<1> QED BY <1>2, <1>3, <1>4, <1>5, <1>6, <1>7 DEF Quiet

\* A reply that is handled leaves the channels alone, and the calls that
\* read.
LEMMA ReplyIs ==
    ASSUME IInv, NEW c \in Calls, NEW ok \in BOOLEAN, HandleControl(c, ok)
    PROVE  /\ chan' = chan
           /\ \A d \in Calls : d # c => call'[d] = call[d]
           /\ call'[c] = call[c] \/ (call[c] \notin Reads /\ call'[c] \notin Reads)
<1>1. /\ call \in [Calls -> {"idle", "writing", "waiting", "replied", "answered",
                             "open", "closing", "closed", "failed"}]
      /\ c \in pending => call[c] \in {"writing", "waiting"}
  BY DEF IInv, HcTyped, HcTypeOK
<1> QED BY <1>1 DEF HandleControl, Reads

\* A channel given an item that was read.
LEMMA RouteIs ==
    ASSUME IInv, NEW c \in Calls, NEW n \in Nat, Route(c, n)
    PROVE  /\ UNCHANGED call
           /\ \A d \in Calls : d # c => chan'[d] = chan[d]
           /\ c \notin chans => chan' = chan
           /\ c \in chans =>
                /\ up /\ toLose = {} /\ call[c] \in {"open", "closing"}
                /\ ~chan[c].ended /\ ~chan[c].lost
                /\ chan'[c].lost = chan[c].lost /\ chan'[c].closed = chan[c].closed
                /\ n = CLOSE => chan'[c].ended /\ chan'[c].got = chan[c].got
                /\ n # CLOSE /\ chan[c].closed => chan'[c] = chan[c]
                /\ n # CLOSE /\ ~chan[c].closed =>
                        /\ chan'[c].got = Append(chan[c].got, n)
                        /\ chan'[c].ended = chan[c].ended
<1>1. chan = [d \in Calls |-> chan[d]] /\ IsChannel(chan[c])
  BY DEF IInv, HcTyped, ChansTyped
<1>2. c \in chans => /\ up /\ toLose = {} /\ call[c] \in {"open", "closing"}
                     /\ ~chan[c].ended /\ ~chan[c].lost
  BY DEF IInv, LossFits, HcTyped, HcTypeOK, ChannelFits, ChannelIs
<1>3. c \in chans => chan'[c] = Delivered(chan[c], n)
  BY <1>1 DEF Route
<1>4. \A d \in Calls : d # c => chan'[d] = chan[d]
  BY <1>1 DEF Route
<1>5. Delivered(chan[c], n).lost = chan[c].lost /\ Delivered(chan[c], n).closed = chan[c].closed
  BY <1>1 DEF Delivered, IsChannel
<1>6. n = CLOSE => /\ Delivered(chan[c], n).ended
                   /\ Delivered(chan[c], n).got = chan[c].got
  BY <1>1 DEF Delivered, IsChannel
<1>7. n # CLOSE /\ chan[c].closed => Delivered(chan[c], n) = chan[c]
  BY DEF Delivered
<1>8. n # CLOSE /\ ~chan[c].closed =>
        /\ Delivered(chan[c], n).got = Append(chan[c].got, n)
        /\ Delivered(chan[c], n).ended = chan[c].ended
  BY <1>1 DEF Delivered, IsChannel
<1> QED BY <1>2, <1>3, <1>4, <1>5, <1>6, <1>7, <1>8 DEF Route

\* A channel that opens starts with the frames held, and has ended if CLOSE
\* was held.
LEMMA OpenIs ==
    ASSUME IInv, Ordered, NEW c \in Calls, OpenChannel(c), up
    PROVE  \E k \in Nat :
            /\ Held(c, k) /\ RestComes(c, k)
            /\ call[c] = "answered" /\ call' = [call EXCEPT ![c] = "open"]
            /\ UNCHANGED <<up, toLose, core, sent>>
            /\ \A d \in Calls : d # c => chan'[d] = chan[d]
            /\ chan'[c].ended <=> HeldClose(c)
            /\ ~chan'[c].lost /\ ~chan'[c].closed
            /\ chan'[c].got = [n \in 1..k |-> n]
<1>1. /\ call[c] = "answered" /\ call' = [call EXCEPT ![c] = "open"]
      /\ chan' = [chan EXCEPT ![c] = Replayed(c)]
      /\ UNCHANGED <<up, toLose, core, sent>>
  BY DEF OpenChannel, StillUp, coreVars
<1>2. PICK k \in Nat : Held(c, k) /\ RestComes(c, k)
  BY <1>1 DEF Ordered, InOrder, Unopened
<1>3. /\ IsChannel(Replayed(c)) /\ (Replayed(c).ended <=> HeldClose(c))
      /\ ~Replayed(c).lost /\ ~Replayed(c).closed
      /\ Replayed(c).got = [n \in 1..k |-> n]
  BY <1>2, ReplayedIs DEF IInv
<1>4. chan'[c] = Replayed(c) /\ \A d \in Calls : d # c => chan'[d] = chan[d]
  <2>1. chan = [d \in Calls |-> chan[d]]
    BY DEF IInv, HcTyped, ChansTyped
  <2> QED BY <1>1, <2>1
<1> QED BY <1>1, <1>2, <1>3, <1>4

\* A channel that its reader closes keeps what it was given.
LEMMA CloseIs ==
    ASSUME IInv, NEW c \in Calls, CloseChannel(c)
    PROVE  /\ call[c] = "open" /\ call'[c] \in {"closing", "closed"}
           /\ \A d \in Calls : d # c => call'[d] = call[d] /\ chan'[d] = chan[d]
           /\ chan'[c].got = chan[c].got /\ chan'[c].ended = chan[c].ended
           /\ chan'[c].lost = chan[c].lost /\ chan'[c].closed
           /\ UNCHANGED <<up, toLose, core, sent>>
<1>1. chan = [d \in Calls |-> chan[d]] /\ IsChannel(chan[c])
      /\ call \in [Calls -> {"idle", "writing", "waiting", "replied", "answered",
                             "open", "closing", "closed", "failed"}]
  BY DEF IInv, HcTyped, ChansTyped, HcTypeOK
<1> QED BY <1>1 DEF CloseChannel, IsChannel, coreVars

\* A channel that is told of the loss was told of nothing before, and keeps
\* what it was given.
LEMMA LoseIs ==
    ASSUME IInv, NEW c \in Calls, Lose(c)
    PROVE  /\ c \in toLose /\ toLose' = toLose \ {c} /\ ~up
           /\ UNCHANGED <<up, call, core, sent>>
           /\ \A d \in Calls : d # c => chan'[d] = chan[d]
           /\ chan'[c].got = chan[c].got /\ chan'[c].ended = chan[c].ended
           /\ chan'[c].lost /\ chan'[c].closed = chan[c].closed
<1>1. chan = [d \in Calls |-> chan[d]] /\ IsChannel(chan[c]) /\ (up => toLose = {})
  BY DEF IInv, HcTyped, ChansTyped, LossFits
<1> QED BY <1>1 DEF Lose, IsChannel, coreVars

-----------------------------------------------------------------------------
\* Every step keeps the readers' part of the invariant.
LEMMA ReadersKept ==
    ASSUME IInv, Ordered, ReadersFit, [HcNext]_hcVars
    PROVE  ReadersFit'
<1>1. ASSUME NEW c \in Calls, Quiet(c) PROVE ReadersFit'
  BY <1>1, QuietIs, ReadersStay
<1>2. CASE Fail
  <2>1. /\ UNCHANGED <<call, chan>> /\ toLose' = chans
    BY <1>2 DEF Fail
  <2>2. \A c \in chans : call[c] \in Reads /\ ~chan[c].ended /\ ~chan[c].lost
    BY <1>2 DEF Fail, IInv, HcTyped, HcTypeOK, ChannelFits, ChannelIs, Reads
  <2> QED BY <2>1, <2>2 DEF ReadersFit, ReaderIs
<1>3. CASE ReadFrame
  <2>1. /\ wire # <<>> /\ toLose' = toLose /\ wire' = Tail(wire)
    BY <1>3 DEF ReadFrame
  <2>2. wire[1] \in Item /\ Head(wire) = wire[1]
    BY <2>1, Reading DEF IInv
  <2>3. CASE wire[1].kind = "frame"
    <3>1. PICK c \in Calls, n \in Nat : Route(c, n)
      BY <1>3, <2>2, <2>3 DEF ReadFrame, Item
    <3> QED BY <3>1, <2>1, RouteIs DEF ReadersFit, ReaderIs, Reads
  <2>4. CASE wire[1].kind # "frame"
    <3>1. PICK c \in Calls : HandleControl(c, wire[1].kind = "reply")
      BY <1>3, <2>2, <2>4 DEF ReadFrame, Item
    <3>2. /\ chan' = chan
          /\ \A d \in Calls : d # c => call'[d] = call[d]
          /\ call'[c] = call[c] \/ (call[c] \notin Reads /\ call'[c] \notin Reads)
      BY <3>1, ReplyIs
    <3> QED BY <2>1, <3>2, ReadersStay
  <2> QED BY <2>3, <2>4
<1>4. ASSUME NEW c \in Calls, OpenChannel(c) PROVE ReadersFit'
  <2>1. call \in [Calls -> {"idle", "writing", "waiting", "replied", "answered",
                            "open", "closing", "closed", "failed"}]
    BY DEF IInv, HcTyped, HcTypeOK
  <2>2. CASE up
    <3>1. /\ call[c] = "answered" /\ call' = [call EXCEPT ![c] = "open"]
          /\ toLose' = toLose
          /\ \A d \in Calls : d # c => chan'[d] = chan[d]
          /\ ~chan'[c].closed
      BY <1>4, <2>2, OpenIs
    <3> QED BY <2>1, <3>1 DEF ReadersFit, ReaderIs, Reads
  <2>3. CASE ~up
    <3>1. /\ call[c] = "answered" /\ call' = [call EXCEPT ![c] = "failed"]
          /\ UNCHANGED <<toLose, chan>>
      BY <1>4, <2>3 DEF OpenChannel, StillUp
    <3>2. /\ call[c] \notin Reads /\ call'[c] \notin Reads
          /\ \A d \in Calls : d # c => call'[d] = call[d]
      BY <2>1, <3>1 DEF Reads
    <3> QED BY <3>1, <3>2, ReadersStay
  <2> QED BY <2>2, <2>3
<1>5. ASSUME NEW c \in Calls, CloseChannel(c) PROVE ReadersFit'
  <2>1. /\ call[c] = "open" /\ call'[c] \in {"closing", "closed"}
        /\ \A d \in Calls : d # c => call'[d] = call[d] /\ chan'[d] = chan[d]
        /\ chan'[c].ended = chan[c].ended
        /\ chan'[c].lost = chan[c].lost /\ chan'[c].closed
        /\ toLose' = toLose
    BY <1>5, CloseIs
  <2> QED BY <2>1 DEF ReadersFit, ReaderIs, Reads
<1>6. ASSUME NEW c \in Calls, Lose(c) PROVE ReadersFit'
  <2>1. /\ c \in toLose /\ toLose' = toLose \ {c}
        /\ call' = call
        /\ \A d \in Calls : d # c => chan'[d] = chan[d]
        /\ chan'[c].ended = chan[c].ended
        /\ chan'[c].closed = chan[c].closed
    BY <1>6, LoseIs
  <2> QED BY <2>1 DEF ReadersFit, ReaderIs, Reads
<1>7. CASE UNCHANGED hcVars
  <2>1. UNCHANGED <<call, chan, toLose>>
    BY <1>7 DEF hcVars, connVars
  <2> QED BY <2>1, ReadersStay
<1> QED BY <1>1, <1>2, <1>3, <1>4, <1>5, <1>6, <1>7 DEF HcNext, Quiet

\* At the start there is no reader.
LEMMA InitReaders == HcInit => ReadersFit
  BY DEF HcInit, ReadersFit, ReaderIs, Reads, NoChannel

-----------------------------------------------------------------------------
(* Each step is one of HcChannel, or changes nothing that it sees.         *)

\* The core sends a frame, or sends no more, or answers, which is not seen.
LEMMA CoreAllowed ==
    ASSUME IInv, NEW c \in Calls, CoreSends(c) \/ CoreReplies(c) \/ CoreCloses(c)
    PROVE  Allowed
<1>0. core \in [Calls -> {"none", "asked", "open", "closed"}] /\ sent \in [Calls -> Nat]
  BY DEF IInv, HcTyped
<1>1. UNCHANGED <<up, Opened, Got, Ended, Lost, Left, chan, call>>
  BY DEF CoreSends, CoreReplies, CoreCloses, connVars, Opened, Got, Ended, Lost, Left
<1>2. CASE CoreSends(c)
  <2>1. /\ c \notin Over /\ Over' = Over /\ sent' = [sent EXCEPT ![c] = @ + 1]
    BY <1>2 DEF CoreSends, Over
  <2>2. Channel!Send(c)
    BY <1>1, <2>1 DEF Channel!Send, Channel!readers, Over, Opened, Got, Ended, Lost, Left, Reads
  <2> QED BY <2>2 DEF Allowed, Channel!Next
<1>3. CASE (CoreReplies(c) \/ CoreCloses(c)) /\ core'[c] = "closed"
  <2>1. /\ c \notin Over /\ Over' = Over \cup {c} /\ sent' = sent
    BY <1>0, <1>3 DEF CoreReplies, CoreCloses, Over
  <2>2. Channel!Finish(c)
    BY <1>1, <2>1 DEF Channel!Finish, Channel!readers, Over, Opened, Got, Ended, Lost, Left, Reads
  <2> QED BY <2>2 DEF Allowed, Channel!Next
<1>4. CASE CoreReplies(c) /\ core'[c] # "closed"
  <2>1. /\ Over' = Over /\ sent' = sent
    BY <1>0, <1>4 DEF CoreReplies, Over
  <2> QED BY <1>1, <2>1 DEF Allowed, Shown
<1>5. CoreCloses(c) => core'[c] = "closed"
  BY <1>0 DEF CoreCloses
<1> QED BY <1>2, <1>3, <1>4, <1>5

\* The end of the connection.
LEMMA FailAllowed == Fail => Allowed
<1> SUFFICES ASSUME Fail PROVE Allowed
  OBVIOUS
<1>1. up /\ up' = FALSE /\ UNCHANGED <<sent, Over, Opened, Got, Ended, Lost, Left>>
  BY DEF Fail, coreVars, Over, Opened, Got, Ended, Lost, Left
<1>2. Channel!Cut
  BY <1>1 DEF Channel!Cut, Channel!coreState, Channel!readers,
              Over, Opened, Got, Ended, Lost, Left, Reads
<1> QED BY <1>2 DEF Allowed, Channel!Next

\* A reader told of it.
LEMMA LoseAllowed ==
    ASSUME IInv, ReadersFit, NEW c \in Calls, Lose(c)
    PROVE  Allowed
<1>1. /\ ~up /\ c \in Opened \ (Ended \cup Lost)
  BY LoseIs DEF ReadersFit, ReaderIs, Opened, Ended, Lost
<1>2. /\ UNCHANGED <<up, sent, Over, Opened>>
  BY LoseIs DEF Over, Opened
<1>3. /\ Got' = [Got EXCEPT ![c] = Got[c]]
      /\ Ended' = Ended /\ Lost' = Lost \cup {c} /\ Left' = Left
  <2>1. /\ Got' = [Got EXCEPT ![c] = chan'[c].got]
        /\ Ended' = IF chan'[c].ended THEN Ended \cup {c} ELSE Ended \ {c}
        /\ Lost' = IF chan'[c].lost THEN Lost \cup {c} ELSE Lost \ {c}
        /\ Left' = IF chan'[c].closed THEN Left \cup {c} ELSE Left \ {c}
    BY LoseIs, Seeing
  <2>2. chan'[c].got = Got[c]
    BY LoseIs DEF Got
  <2>3. (c \in Ended <=> chan'[c].ended) /\ chan'[c].lost /\ (c \in Left <=> chan'[c].closed)
    BY LoseIs DEF Ended, Left
  <2> QED BY <2>1, <2>2, <2>3
<1>4. Got' = Got
  BY <1>3 DEF Got
<1>5. Channel!Lose(c)
  BY <1>1, <1>2, <1>3, <1>4 DEF Channel!Lose, Channel!coreState,
              Over, Opened, Got, Ended, Lost, Left, Reads
<1> QED BY <1>5 DEF Allowed, Channel!Next

\* A reader that leaves.
LEMMA CloseAllowed ==
    ASSUME IInv, ReadersFit, NEW c \in Calls, CloseChannel(c)
    PROVE  Allowed
<1>1. c \in Opened \ Left
  BY CloseIs DEF ReadersFit, ReaderIs, Opened, Left, Reads
<1>2. /\ UNCHANGED <<up, sent, Over, Opened>>
  BY CloseIs DEF Over, Opened, Reads
<1>3. Got' = Got /\ Ended' = Ended /\ Lost' = Lost
  BY CloseIs DEF Got, Ended, Lost
<1>4. Left' = Left \cup {c}
  BY CloseIs, Seeing
<1>5. Channel!Leave(c)
  BY <1>1, <1>2, <1>3, <1>4 DEF Channel!Leave, Channel!coreState,
              Over, Opened, Got, Ended, Lost, Left, Reads
<1> QED BY <1>5 DEF Allowed, Channel!Next

\* A reader gets its channel, unless the connection is gone.
LEMMA OpenAllowed ==
    ASSUME IInv, Ordered, ReadersFit, NEW c \in Calls, OpenChannel(c)
    PROVE  Allowed
<1>0. call \in [Calls -> {"idle", "writing", "waiting", "replied", "answered",
                          "open", "closing", "closed", "failed"}]
  BY DEF IInv, HcTyped, HcTypeOK
<1>1. CASE ~up
  <2>1. /\ call[c] = "answered" /\ call' = [call EXCEPT ![c] = "failed"]
        /\ UNCHANGED <<up, sent, core, chan>>
    BY <1>1 DEF OpenChannel, StillUp, coreVars
  <2>2. \A d \in Calls : call'[d] \in Reads <=> call[d] \in Reads
    BY <1>0, <2>1 DEF Reads
  <2> QED BY <2>1, <2>2, Unseen DEF Allowed
<1>2. CASE up
  <2>1. PICK k \in Nat :
            /\ Held(c, k) /\ RestComes(c, k)
            /\ call[c] = "answered" /\ call' = [call EXCEPT ![c] = "open"]
            /\ UNCHANGED <<up, toLose, core, sent>>
            /\ \A d \in Calls : d # c => chan'[d] = chan[d]
            /\ chan'[c].ended <=> HeldClose(c)
            /\ ~chan'[c].lost /\ ~chan'[c].closed
            /\ chan'[c].got = [n \in 1..k |-> n]
    BY <1>2, OpenIs
  <2>2. /\ c \notin Opened /\ c \notin Ended /\ c \notin Lost /\ c \notin Left
    BY <2>1 DEF ReadersFit, ReaderIs, Reads, Opened, Ended, Lost, Left
  <2>3. /\ Opened' = Opened \cup {c} /\ UNCHANGED <<up, sent, Over>>
    BY <1>0, <2>1 DEF Opened, Over, Reads
  <2>4. /\ Got' = [Got EXCEPT ![c] = [n \in 1..k |-> n]]
        /\ Ended' = IF chan'[c].ended THEN Ended \cup {c} ELSE Ended
        /\ Lost' = Lost /\ Left' = Left
    <3>1. /\ Got' = [Got EXCEPT ![c] = chan'[c].got]
          /\ Ended' = IF chan'[c].ended THEN Ended \cup {c} ELSE Ended \ {c}
          /\ Lost' = IF chan'[c].lost THEN Lost \cup {c} ELSE Lost \ {c}
          /\ Left' = IF chan'[c].closed THEN Left \cup {c} ELSE Left \ {c}
      BY <2>1, Seeing
    <3>2. /\ Got' = [Got EXCEPT ![c] = [n \in 1..k |-> n]]
      BY <2>1, <3>1
    <3>3. /\ Ended' = IF chan'[c].ended THEN Ended \cup {c} ELSE Ended
          /\ Lost' = Lost /\ Left' = Left
      BY <2>1, <2>2, <3>1
    <3> QED BY <3>2, <3>3
  <2>5. k \in 0..sent[c]
    BY <2>1 DEF RestComes, IInv, HcTyped
  <2>6. HeldClose(c) => c \in Over /\ k = sent[c]
    <3> SUFFICES ASSUME HeldClose(c) PROVE c \in Over /\ k = sent[c]
      OBVIOUS
    <3>1. Gone(c)
      BY <1>2, <2>1 DEF IInv, ChannelFits, ChannelIs
    <3>2. c \in Over
      BY <3>1 DEF Gone, Over
    <3>3. \A n \in k + 1 .. sent[c] : FALSE
      BY <2>1, <3>1 DEF RestComes, Gone, Silent
    <3> QED BY <2>5, <3>2, <3>3 DEF IInv, HcTyped
  <2>7. Got'[c] = [n \in 1..k |-> n] /\ Len(Got'[c]) = k
    <3>1. Got'[c] = [n \in 1..k |-> n]
      BY <2>4 DEF Got
    <3> QED BY <3>1
  <2>8. \/ Ended' = Ended
        \/ c \in Over /\ Len(Got'[c]) = sent[c] /\ Ended' = Ended \cup {c}
    BY <2>1, <2>4, <2>6, <2>7
  <2>9. \E j \in 0..sent[c] : Got' = [Got EXCEPT ![c] = [n \in 1..j |-> n]]
    BY <2>4, <2>5
  <2>10. Channel!Open(c)
    BY <1>2, <2>2, <2>3, <2>4, <2>8, <2>9 DEF Channel!Open, Channel!coreState,
              Over, Opened, Got, Ended, Lost, Left, Reads
  <2> QED BY <2>10 DEF Allowed, Channel!Next
<1> QED BY <1>1, <1>2

\* A frame for a channel is its next one; its CLOSE comes after all of them.
LEMMA RouteAllowed ==
    ASSUME IInv, Ordered, ReadersFit, ReadFrame, NEW c \in Calls, wire[1].of = c,
           wire[1].kind = "frame", Route(c, wire[1].n)
    PROVE  Allowed
<1> DEFINE n == wire[1].n
<1>1. /\ wire' = Tail(wire) /\ wire # <<>> /\ n \in Nat
      /\ UNCHANGED <<up, sent, core, call>> /\ 1 \in 1..Len(wire)
  <2>1. wire' = Tail(wire) /\ wire # <<>> /\ wire[1] \in Item /\ UNCHANGED <<up, core, sent>>
    BY ReadFacts
  <2>2. 1 \in 1..Len(wire)
    BY <2>1, Reading DEF IInv
  <2> QED BY <2>1, <2>2 DEF Route, Item
<1>2. Route(c, n)
  OBVIOUS
<1>3. n = CLOSE => core[c] = "closed"
  BY <1>1 DEF IInv, WireFits
<1>4. \A k \in Nat : RestComes(c, k) =>
        /\ k <= sent[c]
        /\ IF n = CLOSE THEN k = sent[c] ELSE n = k + 1 /\ k + 1 <= sent[c]
  <2> SUFFICES ASSUME NEW k \in Nat, RestComes(c, k)
               PROVE  /\ k <= sent[c]
                      /\ IF n = CLOSE THEN k = sent[c] ELSE n = k + 1 /\ k + 1 <= sent[c]
    OBVIOUS
  <2>1. IF n = CLOSE THEN k = sent[c] ELSE n = k + 1 /\ RestComes(c, k + 1)'
    BY <1>1, ReadInOrder
  <2>2. RestComes(c, k + 1)' => k + 1 <= sent[c]
    BY <1>1 DEF RestComes
  <2> QED BY <2>1, <2>2 DEF RestComes
<1> HIDE DEF n
<1>5. UNCHANGED <<Over, Opened>>
  BY <1>1 DEF Over, Opened
<1>6. CASE c \notin chans
  BY <1>1, <1>2, <1>6, RouteIs, Unseen DEF Allowed
<1>7. CASE c \in chans
  <2>1. /\ up /\ call[c] \in {"open", "closing"} /\ ~chan[c].ended /\ ~chan[c].lost
        /\ \A d \in Calls : d # c => chan'[d] = chan[d]
        /\ chan'[c].lost = chan[c].lost /\ chan'[c].closed = chan[c].closed
    BY <1>1, <1>2, <1>7, RouteIs
  <2>2. c \in Opened \ (Ended \cup Lost) /\ (c \in Left <=> call[c] = "closing")
    BY <2>1 DEF Opened, Ended, Lost, Left, ReadersFit, ReaderIs, Reads
  <2>3. /\ Got' = [Got EXCEPT ![c] = chan'[c].got]
        /\ Ended' = IF chan'[c].ended THEN Ended \cup {c} ELSE Ended
        /\ Lost' = Lost /\ Left' = Left
    <3>1. (chan'[c].lost <=> c \in Lost) /\ (chan'[c].closed <=> c \in Left) /\ c \notin Ended
      BY <2>1 DEF Ended, Lost, Left
    <3>2. /\ Got' = [Got EXCEPT ![c] = chan'[c].got]
          /\ Ended' = IF chan'[c].ended THEN Ended \cup {c} ELSE Ended \ {c}
          /\ Lost' = IF chan'[c].lost THEN Lost \cup {c} ELSE Lost \ {c}
          /\ Left' = IF chan'[c].closed THEN Left \cup {c} ELSE Left \ {c}
      BY <2>1, Seeing
    <3>3. Lost' = Lost /\ Left' = Left
      BY <3>1, <3>2
    <3>4. Ended' = IF chan'[c].ended THEN Ended \cup {c} ELSE Ended
      BY <3>1, <3>2
    <3> QED BY <3>2, <3>3, <3>4
  <2>4. call[c] = "open" =>
            \E k \in Nat : chan[c].got = [i \in 1..k |-> i] /\ RestComes(c, k)
    BY <2>1 DEF Ordered, InOrder
  <2>5. CASE n = CLOSE
    <3>1. chan'[c].ended /\ chan'[c].got = chan[c].got
      BY <1>1, <1>2, <1>7, <2>5, RouteIs
    <3>2. Ended' = Ended \cup {c} /\ Got' = Got
      BY <2>1, <2>3, <3>1 DEF Got
    <3>3. c \notin Left => Len(Got[c]) = sent[c]
      <4> SUFFICES ASSUME call[c] = "open" PROVE Len(Got[c]) = sent[c]
        BY <2>1, <2>2
      <4>1. PICK k \in Nat : chan[c].got = [i \in 1..k |-> i] /\ RestComes(c, k)
        BY <2>4
      <4>2. Len(Got[c]) = k
        BY <4>1 DEF Got
      <4> QED BY <1>4, <2>5, <4>1, <4>2
    <3>4. c \in Over
      BY <1>3, <2>5 DEF Over
    <3>5. Channel!End(c)
      BY <1>1, <1>5, <2>2, <2>3, <3>2, <3>3, <3>4 DEF Channel!End, Channel!coreState,
              Over, Opened, Got, Ended, Lost, Left, Reads
    <3> QED BY <3>5 DEF Allowed, Channel!Next
  <2>6. CASE n # CLOSE /\ chan[c].closed
    <3>1. chan'[c] = chan[c]
      BY <1>1, <1>2, <1>7, <2>6, RouteIs
    <3> QED BY <1>1, <2>1, <3>1, Unseen DEF Allowed
  <2>7. CASE n # CLOSE /\ ~chan[c].closed
    <3>1. chan'[c].got = Append(chan[c].got, n) /\ chan'[c].ended = chan[c].ended
      BY <1>1, <1>2, <1>7, <2>7, RouteIs
    <3>2. c \notin Left /\ call[c] = "open"
      BY <2>1, <2>2, <2>7 DEF Left
    <3>3. PICK k \in Nat : chan[c].got = [i \in 1..k |-> i] /\ RestComes(c, k)
      BY <2>4, <3>2
    <3>4. Got[c] = chan[c].got /\ Len(Got[c]) = k
      BY <3>3 DEF Got
    <3>5. n = Len(Got[c]) + 1 /\ Len(Got[c]) < sent[c]
      <4>1. k + 1 <= sent[c] /\ n = k + 1 /\ sent[c] \in Nat
        BY <1>4, <2>7, <3>3 DEF IInv, HcTyped
      <4> QED BY <3>4, <4>1
    <3>6. Got' = [Got EXCEPT ![c] = Append(Got[c], Len(Got[c]) + 1)]
      BY <2>3, <3>1, <3>4, <3>5
    <3>7. Ended' = Ended
      BY <2>1, <2>3, <3>1
    <3>8. Channel!Deliver(c)
      BY <1>1, <1>5, <2>2, <2>3, <3>2, <3>5, <3>6, <3>7 DEF Channel!Deliver,
              Channel!coreState, Over, Opened, Got, Ended, Lost, Left, Reads
    <3> QED BY <3>8 DEF Allowed, Channel!Next
  <2> QED BY <2>5, <2>6, <2>7
<1> QED BY <1>6, <1>7

\* Every step of the connection.
LEMMA StepAllowed ==
    ASSUME IInv, Ordered, ReadersFit, [HcNext]_hcVars
    PROVE  Allowed
<1>1. ASSUME NEW c \in Calls,
             Register(c) \/ Request(c) \/ TakeReply(c) \/ GivesUp(c) \/ Detach(c)
      PROVE  Allowed
  <2>1. UNCHANGED sent /\ \A d \in Calls : core'[d] = "closed" <=> core[d] = "closed"
    <3>1. core \in [Calls -> {"none", "asked", "open", "closed"}]
      BY DEF IInv, HcTyped
    <3>2. call[c] = "writing" => core[c] = "none"
      BY DEF IInv, CoreFits
    <3> QED BY <1>1, <3>1, <3>2 DEF Register, Request, TakeReply, GivesUp, Detach, coreVars
  <2>2. /\ UNCHANGED <<up, chan>>
        /\ \A d \in Calls : call'[d] \in Reads <=> call[d] \in Reads
    BY <1>1, QuietIs DEF Quiet, Reads
  <2> QED BY <2>1, <2>2, Unseen DEF Allowed
<1>2. CASE ReadFrame
  <2>1. wire # <<>> /\ wire' = Tail(wire) /\ UNCHANGED <<up, core, sent>>
    BY <1>2 DEF ReadFrame
  <2>2. wire[1] \in Item /\ Head(wire) = wire[1]
    BY <2>1, Reading DEF IInv
  <2> DEFINE c == wire[1].of
  <2>3. c \in Calls
    BY <2>2 DEF Item
  <2>4. CASE wire[1].kind = "frame"
    <3>1. Route(c, wire[1].n)
      BY <1>2, <2>2, <2>4 DEF ReadFrame
    <3> QED BY <1>2, <2>3, <2>4, <3>1, RouteAllowed
  <2>5. CASE wire[1].kind # "frame"
    <3>1. HandleControl(c, wire[1].kind = "reply")
      BY <1>2, <2>2, <2>5 DEF ReadFrame
    <3> HIDE DEF c
    <3>2. /\ chan' = chan
          /\ \A d \in Calls : d # c => call'[d] = call[d]
          /\ call'[c] = call[c] \/ (call[c] \notin Reads /\ call'[c] \notin Reads)
      BY <2>3, <3>1, ReplyIs
    <3> QED BY <2>1, <3>2, Unseen DEF Allowed
  <2> QED BY <2>4, <2>5
<1>3. CASE UNCHANGED hcVars
  <2>1. UNCHANGED <<up, sent, core, call, chan>>
    BY <1>3 DEF hcVars, connVars, coreVars
  <2> QED BY <2>1, Unseen DEF Allowed
<1> QED BY <1>1, <1>2, <1>3, CoreAllowed, FailAllowed, LoseAllowed, CloseAllowed, OpenAllowed
        DEF HcNext

\* The connection keeps the promise of HcChannel: a reader is given the frames
\* the core sent, from the first, each once and in order, then the end that
\* comes after them, or that the connection is gone (call, readLoop,
\* openChannel, fail and close of hc_conn.go together).
THEOREM KeepsItsPromise == HcSpec => Promised
<1>1. HcInit => Channel!Init
  BY DEF HcInit, Channel!Init, NoChannel
<1>2. IInv /\ Ordered /\ ReadersFit /\ [HcNext]_hcVars =>
        [Channel!Next]_<<up, Channel!coreState, Channel!readers>>
  <2>1. UNCHANGED Shown => UNCHANGED <<up, Channel!coreState, Channel!readers>>
    BY DEF Shown, Channel!coreState, Channel!readers, Over, Opened, Got, Ended, Lost, Left, Reads
  <2> QED BY <2>1, StepAllowed DEF Allowed
<1>3. IInv /\ Ordered /\ ReadersFit /\ [HcNext]_hcVars => ReadersFit'
  BY ReadersKept
<1> QED BY <1>1, <1>2, <1>3, InitReaders, Inductive, PTL DEF HcSpec, Promised, Channel!Spec

=============================================================================
