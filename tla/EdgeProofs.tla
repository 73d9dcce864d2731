----------------------------- MODULE EdgeProofs ------------------------------
(***************************************************************************)
(* Theorems about the gateway firmware: EdgeCommands and EdgeGateway, for  *)
(* any number of commands, readings, power failures and resets.            *)
(***************************************************************************)
EXTENDS EdgeGateway, EdgeCommands, FiniteSetTheorems, TLAPS

(***************************************************************************)
(* EdgeCommands: what a command does, and how often.                       *)
(***************************************************************************)
\* What a sequence holds at an index is in its range.
LEMMA HeldIsInRange ==
  ASSUME NEW S, NEW s \in Seq(S), NEW i \in 1 .. Len(s)
  PROVE  s[i] \in S /\ s[i] \in Range(s)
<1>1. s[i] \in S
  OBVIOUS
<1>2. i \in DOMAIN s
  OBVIOUS
<1>3. s[i] \in Range(s)
  BY <1>2 DEF Range
<1> QED
  BY <1>1, <1>3

\* A sequence with one more element, without its first, without its last.
LEMMA RangeOfAppend ==
  ASSUME NEW S, NEW s \in Seq(S), NEW e \in S
  PROVE  /\ Append(s, e) \in Seq(S) /\ Range(Append(s, e)) = Range(s) \cup {e}
         /\ Len(Append(s, e)) = Len(s) + 1 /\ Append(s, e)[Len(s) + 1] = e
         /\ \A i \in 1 .. Len(s) : Append(s, e)[i] = s[i]
BY DEF Range

\* The range without the first element.
LEMMA RangeOfTail ==
  ASSUME NEW S, NEW s \in Seq(S), s # << >>
  PROVE  Tail(s) \in Seq(S) /\ Head(s) \in S /\ Range(s) = {Head(s)} \cup Range(Tail(s))
<1>1. /\ Tail(s) \in Seq(S) /\ Len(s) > 0 /\ Len(s) \in Nat /\ Len(Tail(s)) = Len(s) - 1
      /\ \A i \in 1 .. Len(Tail(s)) : Tail(s)[i] = s[i + 1]
  OBVIOUS
<1>2. Head(s) = s[1] /\ Head(s) \in S
  OBVIOUS
<1>3. ASSUME NEW i \in 1 .. Len(s) PROVE s[i] \in {Head(s)} \cup Range(Tail(s))
  <2>1. CASE i = 1
    BY <1>2, <2>1
  <2>2. CASE i # 1
    <3>1. i - 1 \in 1 .. Len(Tail(s)) /\ Tail(s)[i - 1] = s[i]
      BY <1>1, <2>2
    <3> DEFINE t == Tail(s)
    <3>2. t \in Seq(S) /\ i - 1 \in 1 .. Len(t)
      BY <1>1, <3>1
    <3>3. t[i - 1] \in Range(t)
      <4> HIDE DEF t
      <4> QED
        BY <3>2, HeldIsInRange, Zenon
    <3> QED
      BY <3>1, <3>3
  <2> QED
    BY <2>1, <2>2
<1>4. ASSUME NEW i \in 1 .. Len(Tail(s)) PROVE Tail(s)[i] \in Range(s)
  <2>1. i + 1 \in 1 .. Len(s)
    BY <1>1
  <2> QED
    BY <1>1, <2>1 DEF Range
<1> QED
  BY <1>1, <1>2, <1>3, <1>4 DEF Range

\* The range without the last element.
LEMMA RangeOfFront ==
  ASSUME NEW S, NEW s \in Seq(S), s # << >>
  PROVE  /\ Front(s) \in Seq(S) /\ Last(s) \in S /\ Range(s) = Range(Front(s)) \cup {Last(s)}
         /\ Len(s) \in Nat \ {0} /\ Len(Front(s)) = Len(s) - 1
         /\ \A i \in 1 .. Len(s) - 1 : Front(s)[i] = s[i]
<1>1. Len(s) \in Nat \ {0}
  OBVIOUS
<1> DEFINE n == Len(s) - 1
<1>5. n \in Nat /\ n <= Len(s)
  BY <1>1
<1>6. /\ SubSeq(s, 1, n) \in Seq(S) /\ Len(SubSeq(s, 1, n)) = n
      /\ \A i \in 1 .. n : SubSeq(s, 1, n)[i] = s[i]
  <2> HIDE DEF n
  <2>1. \A i \in 1 .. n : s[i] \in S
    BY <1>5, <1>1
  <2> QED
    BY <1>5, <1>1, <2>1
<1>2. /\ Front(s) \in Seq(S) /\ Len(Front(s)) = Len(s) - 1
      /\ \A i \in 1 .. Len(s) - 1 : Front(s)[i] = s[i]
  BY <1>6 DEF Front
<1>3. Last(s) = s[Len(s)] /\ Last(s) \in S
  BY <1>1 DEF Last
<1>4. \A i \in 1 .. Len(s) : i \in 1 .. Len(s) - 1 \/ i = Len(s)
  BY <1>1
<1> QED
  BY SMTT(30), <1>1, <1>2, <1>3, <1>4 DEF Range

\* Leaving a command out adds none.
LEMMA RangeOfWithout ==
  ASSUME NEW S, NEW s \in Seq(S), NEW c
  PROVE  Without(s, c) \in Seq(S) /\ Range(Without(s, c)) \subseteq Range(s)
<1>1. CASE c \notin Range(s)
  BY <1>1 DEF Without
<1>2. CASE c \in Range(s)
  <2> DEFINE k == CHOOSE i \in DOMAIN s : s[i] = c
  <2>1. k \in 1 .. Len(s) /\ Len(s) \in Nat
    BY <1>2 DEF Range
  <2> HIDE DEF k
  <2> DEFINE a == SubSeq(s, 1, k - 1)
             b == SubSeq(s, k + 1, Len(s))
  <2>2. /\ a \in Seq(S) /\ Len(a) = k - 1
        /\ \A i \in 1 .. k - 1 : a[i] = s[i]
    BY <2>1
  <2>3. /\ b \in Seq(S) /\ Len(b) = Len(s) - k
        /\ \A i \in 1 .. Len(s) - k : b[i] = s[k + i]
    BY <2>1
  <2>4. Without(s, c) = a \o b
    BY <1>2 DEF Without, RemoveAt, k
  <2> HIDE DEF a, b
  <2>5. ASSUME NEW i \in 1 .. Len(a \o b) PROVE (a \o b)[i] \in Range(s)
    <3>1. Len(a \o b) = Len(s) - 1
      <4>1. Len(a \o b) = Len(a) + Len(b)
        BY <2>2, <2>3
      <4> QED
        BY <2>1, <2>2, <2>3, <4>1
    <3>2. CASE i <= k - 1
      <4>1. i \in 1 .. k - 1 /\ i \in 1 .. Len(s)
        BY <2>1, <3>1, <3>2
      <4>2. (a \o b)[i] = a[i]
        BY <2>2, <2>3, <4>1
      <4>3. s[i] \in Range(s)
        BY <4>1, HeldIsInRange, Zenon
      <4> QED
        BY <2>2, <4>1, <4>2, <4>3
    <3>3. CASE ~(i <= k - 1)
      <4>1. (a \o b)[i] = b[i - (k - 1)]
        BY <2>1, <2>2, <2>3, <3>1, <3>3
      <4>2. i - (k - 1) \in 1 .. Len(s) - k /\ k + (i - (k - 1)) = i + 1 /\ i + 1 \in 1 .. Len(s)
        BY <2>1, <3>1, <3>3
      <4> QED
        BY <2>3, <4>1, <4>2 DEF Range
    <3> QED
      BY <3>2, <3>3
  <2>6. a \o b \in Seq(S)
    BY <2>2, <2>3
  <2> QED
    BY <2>4, <2>5, <2>6 DEF Range
<1> QED
  BY <1>1, <1>2

\* The places of the effects of c among acks, one per callback that will leave it.
Places(c, s) == {i \in 1 .. Len(s) : s[i].effect /\ s[i].command = c}

\* How many effects of c wait for the callback of a publish.
Waiting(c, s) == Cardinality(Places(c, s))

\* A condition as a number, to add to the others.
Number(b) == IF b THEN 1 ELSE 0

\* An acknowledgement whose publish, once done, applies the effect of c.
Brings(ack, c) == ack.effect /\ ack.command = c

\* Places are counted; an ack adds one, one that leaves takes it away.
LEMMA WaitingCounts ==
  ASSUME NEW c, NEW s \in Seq(Acks)
  PROVE  IsFiniteSet(Places(c, s)) /\ Waiting(c, s) \in Nat
<1>1. IsFiniteSet(1 .. Len(s))
  <2>1. Len(s) \in Int /\ 1 \in Int
    OBVIOUS
  <2> QED
    BY <2>1, FS_Interval
<1>2. Places(c, s) \subseteq 1 .. Len(s)
  BY DEF Places
<1>3. IsFiniteSet(Places(c, s))
  BY <1>1, <1>2, FS_Subset
<1> QED
  BY <1>3, FS_CardinalityType DEF Waiting

\* Nothing waits when no acknowledgement is open.
LEMMA WaitingNone ==
  ASSUME NEW c
  PROVE  Waiting(c, << >>) = 0
<1>1. Places(c, << >>) = {}
  BY DEF Places
<1> QED
  BY <1>1, FS_EmptySet DEF Waiting

\* A new acknowledgement brings its effect.
LEMMA WaitingAppend ==
  ASSUME NEW c, NEW s \in Seq(Acks), NEW ack \in Acks
  PROVE  Waiting(c, Append(s, ack)) = Waiting(c, s) + Number(Brings(ack, c))
<1> DEFINE t == Append(s, ack)
           n == Len(s) + 1
<1>1. /\ Len(t) = n /\ t[n] = ack /\ Len(s) \in Nat
      /\ \A i \in 1 .. Len(s) : t[i] = s[i]
  BY RangeOfAppend
<1>2. n \notin Places(c, s) /\ \A i \in 1 .. n : i \in 1 .. Len(s) \/ i = n
  BY <1>1 DEF Places
<1>3. n \in 1 .. n /\ \A i \in 1 .. Len(s) : i \in 1 .. n /\ i # n
  BY <1>1
<1> HIDE DEF n, t
<1>4. CASE Brings(ack, c)
  <2>1. Places(c, t) = Places(c, s) \cup {n}
    BY <1>1, <1>2, <1>3, <1>4 DEF Places, Brings
  <2>2. Cardinality(Places(c, s) \cup {n}) = Cardinality(Places(c, s)) + 1
    BY <1>2, WaitingCounts, FS_AddElement
  <2> QED
    BY <1>4, <2>1, <2>2 DEF Waiting, Number, t
<1>5. CASE ~Brings(ack, c)
  <2>1. Places(c, t) = Places(c, s)
    BY <1>1, <1>2, <1>3, <1>5 DEF Places, Brings
  <2> QED
    BY <1>5, <2>1, WaitingCounts DEF Waiting, Number, t
<1> QED
  BY <1>4, <1>5

\* The acknowledgement that leaves takes its effect with it.
LEMMA WaitingFront ==
  ASSUME NEW c, NEW s \in Seq(Acks), s # << >>
  PROVE  Waiting(c, Front(s)) = Waiting(c, s) - Number(Brings(Last(s), c))
<1> DEFINE t == Front(s)
           n == Len(s)
<1>1. /\ Len(t) = n - 1 /\ n \in Nat \ {0} /\ Last(s) = s[n]
      /\ \A i \in 1 .. n - 1 : t[i] = s[i]
  BY RangeOfFront DEF Last
<1>2. \A i \in 1 .. n : i \in 1 .. n - 1 \/ i = n
  BY <1>1
<1>3. n \in 1 .. n /\ \A i \in 1 .. n - 1 : i \in 1 .. n /\ i # n
  BY <1>1
<1>4. Waiting(c, s) \in Nat /\ IsFiniteSet(Places(c, s))
  BY WaitingCounts
<1> HIDE DEF n, t
<1>5. CASE Brings(Last(s), c)
  <2>1. Places(c, t) = Places(c, s) \ {n} /\ n \in Places(c, s)
    BY <1>1, <1>2, <1>3, <1>5 DEF Places, Brings, n
  <2>2. Cardinality(Places(c, s) \ {n}) = Cardinality(Places(c, s)) - 1
    BY <1>4, <2>1, FS_RemoveElement
  <2> QED
    BY <1>5, <2>1, <2>2 DEF Waiting, Number, t
<1>6. CASE ~Brings(Last(s), c)
  <2>1. Places(c, t) = Places(c, s)
    BY <1>1, <1>2, <1>3, <1>6 DEF Places, Brings, n
  <2> QED
    BY <1>4, <1>6, <2>1 DEF Waiting, Number, t
<1> QED
  BY <1>5, <1>6

-----------------------------------------------------------------------------
\* What the variables of EdgeCommands hold.
EffectTypes ==
  /\ recent \in Seq(Commands) /\ open \in Seq(Acks) /\ slot \in Commands \cup {NoCommand}
  /\ applied \in [Commands -> Nat] /\ lapses \in [Commands -> Nat]

\* Effects applied and still to be applied, against the times c was new to the registry.
EffectsFit(c) ==
  applied[c] + Waiting(c, open) + Number(slot = c) <= lapses[c] + Number(Known(c))

\* The gateway knows c, is about to acknowledge it, or has.
HeardOf(c) ==
  Known(c) \/ (\E a \in Range(open) : a.command = c) \/ <<c, "executed">> \in acked

\* The effect of c took place, is to take place, or was lost.
Met(c) ==
  applied[c] > 0 \/ slot = c \/ c \in dropped \/ \E a \in Range(open) : Brings(a, c)

\* What is proved to be inductive of EdgeCommands.
EffectInv ==
  /\ EffectTypes
  /\ \A c \in Commands : EffectsFit(c)
  /\ \A c \in WithEffect : HeardOf(c) => Met(c)

\* What Forget adds.
LEMMA ForgetAdds ==
  ASSUME EffectTypes, NEW lost, Forget(lost)
  PROVE  /\ lapses' \in [Commands -> Nat]
         /\ \A c \in Commands : lapses'[c] = lapses[c] + Number(c \in lost)
BY DEF EffectTypes, Forget, Number

\* Number counts.
LEMMA NumberIsNat ==
  ASSUME NEW b
  PROVE  Number(b) \in Nat
BY DEF Number

\* The values that the counts of one command have.
LEMMA CountsAreNat ==
  ASSUME EffectTypes, NEW c \in Commands
  PROVE  /\ applied[c] \in Nat /\ lapses[c] \in Nat /\ Waiting(c, open) \in Nat
BY WaitingCounts DEF EffectTypes

\* The registry makes room for a command, and may forget another.
LEMMA DeliverRemembers ==
  ASSUME EffectTypes, NEW d \in Commands, Deliver(d)
  PROVE  /\ recent' \in Seq(Commands) /\ d \in Range(recent')
         /\ Range(recent') \subseteq Range(Added(d)) /\ Range(Added(d)) = Range(recent) \cup {d}
<1>1. /\ Added(d) \in Seq(Commands) /\ Range(Added(d)) = Range(recent) \cup {d}
  <2>1. CASE Known(d)
    BY <2>1 DEF Added, Known, EffectTypes
  <2>2. CASE ~Known(d)
    BY <2>2, RangeOfAppend DEF Added, EffectTypes
  <2> QED
    BY <2>1, <2>2
<1>2. CASE d \notin Unsupported
  BY <1>1, <1>2 DEF Deliver
<1>3. CASE d \in Unsupported
  <2> DEFINE room == IF Len(Added(d)) >= MaxRecent THEN Tail(Added(d)) ELSE Added(d)
             rest == Without(room, d)
  <2>1. room \in Seq(Commands) /\ Range(room) \subseteq Range(Added(d))
    <3>1. Added(d) # << >>
      <4>1. Range(<< >>) = {}
        BY DEF Range
      <4> QED
        BY <1>1, <4>1
    <3>2. /\ Tail(Added(d)) \in Seq(Commands)
          /\ Range(Tail(Added(d))) \subseteq Range(Added(d))
      BY <1>1, <3>1, RangeOfTail
    <3> QED
      BY <1>1, <3>2
  <2>2. recent' = Append(rest, d)
    BY <1>3 DEF Deliver, Remembered
  <2> HIDE DEF room
  <2>3. rest \in Seq(Commands) /\ Range(rest) \subseteq Range(room)
    BY <2>1, RangeOfWithout
  <2> HIDE DEF rest
  <2>4. Append(rest, d) \in Seq(Commands) /\ Range(Append(rest, d)) = Range(rest) \cup {d}
    BY <2>3, RangeOfAppend
  <2> QED
    BY <1>1, <2>1, <2>2, <2>3, <2>4
<1> QED
  BY <1>2, <1>3

\* A command arrives: an effect starts only if the registry did not know the command.
LEMMA DeliverKeeps ==
  ASSUME EffectInv, NEW d \in Commands, Deliver(d)
  PROVE  EffectInv'
<1> DEFINE ack == Answer(d)
           lost == Range(Added(d)) \ Range(recent')
<1>0. EffectTypes
  BY DEF EffectInv
<1>1. /\ open' = Append(open, ack) /\ Forget(lost)
      /\ slot' = slot /\ acked' = acked /\ applied' = applied /\ dropped' = dropped
  BY DEF Deliver
<1>2. /\ ack \in Acks /\ ack.command = d
      /\ ack.effect => ~Known(d)
      /\ d \in WithEffect /\ ~Known(d) => ack.effect
  BY DEF Answer, Ack, Acks, WithEffect, Unsupported, BadArgument
<1>3. /\ recent' \in Seq(Commands) /\ d \in Range(recent')
      /\ Range(recent') \subseteq Range(recent) \cup {d} /\ Range(recent) \ Range(recent') \subseteq lost
      /\ d \notin lost
  BY <1>0, DeliverRemembers
<1> HIDE DEF ack, lost
<1>4. /\ open' \in Seq(Acks) /\ Range(open') = Range(open) \cup {ack}
  BY <1>0, <1>1, <1>2, RangeOfAppend DEF EffectTypes
<1>5. /\ lapses' \in [Commands -> Nat]
      /\ \A c \in Commands : lapses'[c] = lapses[c] + Number(c \in lost)
  BY <1>0, <1>1, ForgetAdds
<1>6. EffectTypes'
  BY <1>0, <1>1, <1>3, <1>4, <1>5 DEF EffectTypes
<1>7. ASSUME NEW c \in Commands PROVE EffectsFit(c)'
  <2>1. Waiting(c, open') = Waiting(c, open) + Number(Brings(ack, c))
    BY <1>0, <1>1, <1>2, WaitingAppend DEF EffectTypes
  <2>2. Number(Brings(ack, c)) + Number(Known(c)) <= Number(c \in lost) + Number(Known(c)')
    BY <1>2, <1>3 DEF Number, Brings, Known
  <2>3. applied[c] + Waiting(c, open) + Number(slot = c) <= lapses[c] + Number(Known(c))
    BY DEF EffectInv, EffectsFit
  <2>4. /\ applied[c] \in Nat /\ lapses[c] \in Nat /\ Waiting(c, open) \in Nat
        /\ Number(Brings(ack, c)) \in Nat /\ Number(Known(c)) \in Nat
        /\ Number(c \in lost) \in Nat /\ Number(Known(c)') \in Nat /\ Number(slot = c) \in Nat
    BY <1>0, CountsAreNat, NumberIsNat
  <2>5. lapses'[c] = lapses[c] + Number(c \in lost) /\ applied'[c] = applied[c]
    BY <1>1, <1>5
  <2>6. applied[c] + (Waiting(c, open) + Number(Brings(ack, c))) + Number(slot = c)
          <= (lapses[c] + Number(c \in lost)) + Number(Known(c)')
    BY <2>2, <2>3, <2>4
  <2> QED
    BY <1>1, <2>1, <2>5, <2>6 DEF EffectsFit
<1>8. ASSUME NEW c \in WithEffect, HeardOf(c)' PROVE Met(c)'
  <2>1. Met(c) => Met(c)'
    BY <1>1, <1>4 DEF Met
  <2>2. CASE c = d /\ ack.effect
    BY <1>2, <1>4, <2>2 DEF Met, Brings
  <2>3. CASE c = d /\ ~ack.effect
    <3>1. Known(c)
      BY <1>2, <1>8, <2>3
    <3> QED
      BY <2>1, <3>1 DEF EffectInv, HeardOf
  <2>4. CASE c # d
    <3>1. HeardOf(c)
      BY <1>1, <1>2, <1>3, <1>4, <1>8, <2>4 DEF HeardOf, Known
    <3> QED
      BY <2>1, <3>1 DEF EffectInv
  <2> QED
    BY <2>2, <2>3, <2>4
<1> QED
  BY <1>6, <1>7, <1>8 DEF EffectInv

\* A callback returns: its ack leaves `open`, with the effect it brings.
LEMMA Returns ==
  ASSUME EffectTypes, open # << >>, open' = Front(open)
  PROVE  /\ open' \in Seq(Acks) /\ Last(open) \in Acks
         /\ Range(open) = Range(open') \cup {Last(open)}
         /\ \A c \in Commands :
              Waiting(c, open') = Waiting(c, open) - Number(Brings(Last(open), c))
BY RangeOfFront, WaitingFront DEF EffectTypes

\* An ack is published: its effect goes to the slot, over one that waits there.
LEMMA AckPublishedKeeps ==
  ASSUME EffectInv, AckPublished
  PROVE  EffectInv'
<1> DEFINE ack == Last(open)
<1>0. EffectTypes
  BY DEF EffectInv
<1>1. /\ open # << >> /\ open' = Front(open)
      /\ acked' = acked \cup {<<ack.command, ack.status>>}
      /\ slot' = SlotAfter(ack)
      /\ dropped' = dropped \cup (IF ack.effect THEN {slot} \ {NoCommand, ack.command} ELSE {})
      /\ recent' = recent /\ applied' = applied /\ lapses' = lapses
  BY DEF AckPublished
<1>2. /\ open' \in Seq(Acks) /\ ack \in Acks /\ Range(open) = Range(open') \cup {ack}
      /\ \A c \in Commands : Waiting(c, open') = Waiting(c, open) - Number(Brings(ack, c))
  BY <1>0, <1>1, Returns
<1> HIDE DEF ack
<1>3. EffectTypes'
  BY <1>0, <1>1, <1>2 DEF EffectTypes, SlotAfter, Acks
<1>4. ASSUME NEW c \in Commands PROVE EffectsFit(c)'
  <2>1. Waiting(c, open') = Waiting(c, open) - Number(Brings(ack, c))
    BY <1>2
  <2>2. Number(slot' = c) <= Number(slot = c) + Number(Brings(ack, c))
    BY <1>1 DEF Number, Brings, SlotAfter
  <2>3. applied[c] + Waiting(c, open) + Number(slot = c) <= lapses[c] + Number(Known(c))
    BY DEF EffectInv, EffectsFit
  <2>4. /\ applied[c] \in Nat /\ lapses[c] \in Nat /\ Waiting(c, open) \in Nat
        /\ Number(Brings(ack, c)) \in Nat /\ Number(Known(c)) \in Nat
        /\ Number(slot' = c) \in Nat /\ Number(slot = c) \in Nat
    BY <1>0, CountsAreNat, NumberIsNat
  <2>5. applied[c] + (Waiting(c, open) - Number(Brings(ack, c))) + Number(slot' = c)
          <= lapses[c] + Number(Known(c))
    BY <2>2, <2>3, <2>4
  <2>6. Known(c)' <=> Known(c)
    BY <1>1 DEF Known
  <2>7. Number(Known(c)') = Number(Known(c))
    BY <2>6 DEF Number
  <2> QED
    BY <1>1, <2>1, <2>5, <2>7 DEF EffectsFit
<1>5. ASSUME NEW c \in WithEffect, HeardOf(c)' PROVE Met(c)'
  <2>1. HeardOf(c)
    BY <1>1, <1>2, <1>5 DEF HeardOf, Known
  <2>2. Met(c)
    BY <2>1 DEF EffectInv
  <2>3. c # NoCommand
    BY DEF WithEffect, NoCommand
  <2> QED
    BY <1>1, <1>2, <2>2, <2>3 DEF Met, Brings, SlotAfter
<1> QED
  BY <1>3, <1>4, <1>5 DEF EffectInv

\* A step that starts no effect, makes nothing known, and gives up only what it drops.
LEMMA FewerKeeps ==
  ASSUME EffectInv, EffectTypes',
         \A c \in Commands :
           /\ applied'[c] + Waiting(c, open') + Number(slot' = c)
                <= applied[c] + Waiting(c, open) + Number(slot = c)
           /\ lapses[c] + Number(Known(c)) <= lapses'[c] + Number(Known(c)'),
         \A c \in WithEffect : (HeardOf(c)' => HeardOf(c)) /\ (Met(c) => Met(c)')
  PROVE  EffectInv'
<1>1. ASSUME NEW c \in Commands PROVE EffectsFit(c)'
  <2>1. /\ applied[c] \in Nat /\ lapses[c] \in Nat /\ Waiting(c, open) \in Nat
        /\ Number(slot = c) \in Nat /\ Number(Known(c)) \in Nat
    BY CountsAreNat, NumberIsNat DEF EffectInv
  <2>2. /\ applied'[c] \in Nat /\ lapses'[c] \in Nat /\ Waiting(c, open') \in Nat
        /\ Number(slot' = c) \in Nat /\ Number(Known(c)') \in Nat
    BY WaitingCounts, NumberIsNat DEF EffectTypes
  <2>3. applied[c] + Waiting(c, open) + Number(slot = c) <= lapses[c] + Number(Known(c))
    BY DEF EffectInv, EffectsFit
  <2>4. applied'[c] + Waiting(c, open') + Number(slot' = c) <= lapses'[c] + Number(Known(c)')
    BY <2>1, <2>2, <2>3
  <2> QED
    BY <2>4 DEF EffectsFit
<1> QED
  BY <1>1 DEF EffectInv

\* The publish of an ack raises: its effect is dropped.
LEMMA AckFailsKeeps ==
  ASSUME EffectInv, AckFails
  PROVE  EffectInv'
<1>0. EffectTypes
  BY DEF EffectInv
<1>1. /\ open # << >> /\ open' = Front(open) /\ dropped' = dropped \cup Effects({Last(open)})
      /\ recent' = recent /\ applied' = applied /\ lapses' = lapses
      /\ slot' = slot /\ acked' = acked
  BY DEF AckFails
<1>2. /\ open' \in Seq(Acks) /\ Last(open) \in Acks
      /\ Range(open) = Range(open') \cup {Last(open)}
      /\ \A c \in Commands :
           Waiting(c, open') = Waiting(c, open) - Number(Brings(Last(open), c))
  BY <1>0, <1>1, Returns
<1>3. EffectTypes'
  BY <1>0, <1>1, <1>2 DEF EffectTypes
<1>4. ASSUME NEW c \in Commands
      PROVE  /\ applied'[c] + Waiting(c, open') + Number(slot' = c)
                  <= applied[c] + Waiting(c, open) + Number(slot = c)
             /\ lapses[c] + Number(Known(c)) <= lapses'[c] + Number(Known(c)')
  <2>1. /\ applied[c] \in Nat /\ lapses[c] \in Nat /\ Waiting(c, open) \in Nat
        /\ Number(Brings(Last(open), c)) \in Nat /\ Number(Known(c)) \in Nat
        /\ Number(slot = c) \in Nat
    BY <1>0, CountsAreNat, NumberIsNat
  <2>2. Waiting(c, open') = Waiting(c, open) - Number(Brings(Last(open), c))
    BY <1>2
  <2>3. (Known(c)' <=> Known(c)) /\ applied' = applied /\ slot' = slot /\ lapses' = lapses
    BY <1>1 DEF Known
  <2>4. Number(Known(c)') = Number(Known(c)) /\ Number(slot' = c) = Number(slot = c)
    BY <2>3 DEF Number
  <2> QED
    BY <2>1, <2>2, <2>3, <2>4
<1>5. ASSUME NEW c \in WithEffect PROVE (HeardOf(c)' => HeardOf(c)) /\ (Met(c) => Met(c)')
  <2>1. Brings(Last(open), c) => c \in Effects({Last(open)})
    BY DEF Brings, Effects
  <2> QED
    BY <1>1, <1>2, <2>1 DEF HeardOf, Met, Known
<1> QED
  BY <1>3, <1>4, <1>5, FewerKeeps

\* RAM is lost: with the registry, every callback and the slot.
LEMMA ResetClears ==
  ASSUME EffectTypes, Reset
  PROVE  /\ recent' = << >> /\ open' = << >> /\ slot' = NoCommand /\ Range(open') = {}
         /\ recent' \in Seq(Commands) /\ open' \in Seq(Acks)
         /\ lapses' \in [Commands -> Nat]
         /\ \A c \in Commands :
              /\ Waiting(c, open') = 0 /\ Number(slot' = c) = 0 /\ ~Known(c)'
              /\ lapses[c] + Number(Known(c)) <= lapses'[c] + Number(Known(c)')
<1>1. /\ recent' = << >> /\ open' = << >> /\ slot' = NoCommand /\ Forget(Range(recent))
  BY DEF Reset
<1>2. Range(<< >>) = {}
  BY DEF Range
<1>3. /\ lapses' \in [Commands -> Nat]
      /\ \A c \in Commands : lapses'[c] = lapses[c] + Number(c \in Range(recent))
  BY <1>1, ForgetAdds
<1>4. ASSUME NEW c \in Commands
      PROVE  /\ Waiting(c, open') = 0 /\ Number(slot' = c) = 0 /\ ~Known(c)'
             /\ lapses[c] + Number(Known(c)) <= lapses'[c] + Number(Known(c)')
  <2>1. c # NoCommand
    BY DEF Commands, WithEffect, BadArgument, Unsupported, NoCommand
  <2>2. Number(slot' = c) = 0 /\ ~Known(c)'
    BY <1>1, <1>2, <2>1 DEF Number, Known
  <2>3. Waiting(c, open') = 0
    BY <1>1, WaitingNone
  <2>4. Number(c \in Range(recent)) = Number(Known(c)) /\ Number(Known(c)') = 0
    BY <2>2 DEF Known, Number
  <2>5. lapses[c] \in Nat /\ Number(Known(c)) \in Nat
    BY CountsAreNat, NumberIsNat
  <2> QED
    BY <1>3, <2>2, <2>3, <2>4, <2>5
<1> QED
  BY <1>1, <1>2, <1>3, <1>4

\* The power fails: what waited in the slot or in a callback is dropped.
LEMMA PowerFailsKeeps ==
  ASSUME EffectInv, PowerFails
  PROVE  EffectInv'
<1>0. EffectTypes
  BY DEF EffectInv
<1>1. /\ Reset /\ acked' = acked /\ applied' = applied
      /\ dropped' = dropped \cup ({slot} \ {NoCommand}) \cup Effects(Range(open))
  BY DEF PowerFails
<1>2. /\ recent' = << >> /\ open' = << >> /\ slot' = NoCommand /\ Range(open') = {}
      /\ recent' \in Seq(Commands) /\ open' \in Seq(Acks)
      /\ lapses' \in [Commands -> Nat]
      /\ \A c \in Commands :
           /\ Waiting(c, open') = 0 /\ Number(slot' = c) = 0 /\ ~Known(c)'
           /\ lapses[c] + Number(Known(c)) <= lapses'[c] + Number(Known(c)')
  BY <1>0, <1>1, ResetClears
<1>3. EffectTypes'
  BY <1>0, <1>1, <1>2 DEF EffectTypes
<1>4. ASSUME NEW c \in Commands
      PROVE  /\ applied'[c] + Waiting(c, open') + Number(slot' = c)
                  <= applied[c] + Waiting(c, open) + Number(slot = c)
             /\ lapses[c] + Number(Known(c)) <= lapses'[c] + Number(Known(c)')
  <2>1. applied[c] \in Nat /\ Waiting(c, open) \in Nat /\ Number(slot = c) \in Nat
    BY <1>0, CountsAreNat, NumberIsNat
  <2>2. applied' = applied /\ Waiting(c, open') = 0 /\ Number(slot' = c) = 0
    BY <1>1, <1>2
  <2> QED
    BY <1>2, <2>1, <2>2
<1>5. ASSUME NEW c \in WithEffect PROVE (HeardOf(c)' => HeardOf(c)) /\ (Met(c) => Met(c)')
  <2>1. c # NoCommand /\ c \in Commands
    BY DEF Commands, WithEffect, NoCommand
  <2>2. \A a \in Range(open) : Brings(a, c) => c \in Effects(Range(open))
    BY DEF Brings, Effects
  <2> QED
    BY <1>1, <1>2, <2>1, <2>2 DEF HeardOf, Met
<1> QED
  BY <1>2, <1>3, <1>4, <1>5, FewerKeeps

\* The loop applies the effect in the slot; a reboot loses the registry with it.
LEMMA ApplyEffectKeeps ==
  ASSUME EffectInv, ApplyEffect
  PROVE  EffectInv'
<1>0. EffectTypes
  BY DEF EffectInv
<1>1. /\ open = << >> /\ slot # NoCommand /\ slot \in Commands
      /\ applied' = [applied EXCEPT ![slot] = @ + 1] /\ acked' = acked /\ dropped' = dropped
  BY <1>0 DEF ApplyEffect, EffectTypes
<1>2. /\ slot' = NoCommand /\ open' = << >> /\ recent' \in Seq(Commands)
      /\ lapses' \in [Commands -> Nat]
      /\ \A c \in Commands :
           /\ Known(c)' => Known(c)
           /\ lapses[c] + Number(Known(c)) <= lapses'[c] + Number(Known(c)')
  <2>1. CASE Reset
    BY <1>0, <2>1, ResetClears
  <2>2. CASE slot' = NoCommand /\ UNCHANGED <<recent, open, lapses>>
    <3>1. ASSUME NEW c \in Commands
          PROVE  /\ Known(c)' => Known(c)
                 /\ lapses[c] + Number(Known(c)) <= lapses'[c] + Number(Known(c)')
      <4>1. (Known(c)' <=> Known(c)) /\ lapses' = lapses
        BY <2>2 DEF Known
      <4>2. Number(Known(c)') = Number(Known(c))
        BY <4>1 DEF Number
      <4>3. lapses[c] \in Nat /\ Number(Known(c)) \in Nat
        BY <1>0, CountsAreNat, NumberIsNat
      <4> QED
        BY <4>1, <4>2, <4>3
    <3> QED
      BY <1>0, <1>1, <2>2, <3>1 DEF EffectTypes
  <2> QED
    BY <2>1, <2>2 DEF ApplyEffect
<1>3. EffectTypes'
  <2>1. applied' \in [Commands -> Nat]
    BY <1>0, <1>1 DEF EffectTypes
  <2>2. open' \in Seq(Acks)
    BY <1>2
  <2> QED
    BY <1>2, <2>1, <2>2 DEF EffectTypes
<1>4. ASSUME NEW c \in Commands
      PROVE  /\ applied'[c] + Waiting(c, open') + Number(slot' = c)
                  <= applied[c] + Waiting(c, open) + Number(slot = c)
             /\ lapses[c] + Number(Known(c)) <= lapses'[c] + Number(Known(c)')
  <2>1. c # NoCommand
    BY DEF Commands, WithEffect, BadArgument, Unsupported, NoCommand
  <2>2. Waiting(c, open') = 0 /\ Waiting(c, open) = 0
    BY <1>1, <1>2, WaitingNone
  <2>3. Number(slot' = c) = 0
    BY <1>2, <2>1 DEF Number
  <2>4. applied'[c] = applied[c] + Number(slot = c) /\ applied[c] \in Nat
    BY <1>0, <1>1 DEF EffectTypes, Number
  <2>5. Number(slot = c) \in Nat
    BY NumberIsNat
  <2> QED
    BY <1>2, <2>2, <2>3, <2>4, <2>5
<1>5. ASSUME NEW c \in WithEffect PROVE (HeardOf(c)' => HeardOf(c)) /\ (Met(c) => Met(c)')
  <2>1. c \in Commands /\ applied[c] \in Nat
    BY <1>0 DEF Commands, EffectTypes
  <2>2. (applied[c] > 0 => applied'[c] > 0) /\ (slot = c => applied'[c] > 0)
    BY <1>0, <1>1, <2>1 DEF EffectTypes
  <2>3. Range(open) = {} /\ Range(open') = {}
    BY <1>1, <1>2 DEF Range
  <2> QED
    BY <1>1, <1>2, <2>1, <2>2, <2>3 DEF HeardOf, Met
<1> QED
  BY <1>2, <1>3, <1>4, <1>5, FewerKeeps

\* The probe's answer cannot be published, or the registry forgets its oldest command.
LEMMA ProbeFailsKeeps ==
  ASSUME EffectInv, ProbeFails
  PROVE  EffectInv'
<1>0. EffectTypes
  BY DEF EffectInv
<1>1. /\ slot' = NoCommand /\ dropped' = dropped \cup {slot}
      /\ recent' = recent /\ applied' = applied /\ lapses' = lapses
      /\ open' = open /\ acked' = acked
  BY DEF ProbeFails
<1>2. EffectTypes'
  BY <1>0, <1>1 DEF EffectTypes
<1>3. ASSUME NEW c \in Commands
      PROVE  /\ applied'[c] + Waiting(c, open') + Number(slot' = c)
                  <= applied[c] + Waiting(c, open) + Number(slot = c)
             /\ lapses[c] + Number(Known(c)) <= lapses'[c] + Number(Known(c)')
  <2>1. c # NoCommand
    BY DEF Commands, WithEffect, BadArgument, Unsupported, NoCommand
  <2>2. Number(slot' = c) = 0
    BY <1>1, <2>1 DEF Number
  <2>3. /\ applied[c] \in Nat /\ lapses[c] \in Nat /\ Waiting(c, open) \in Nat
        /\ Number(slot = c) \in Nat /\ Number(Known(c)) \in Nat
    BY <1>0, CountsAreNat, NumberIsNat
  <2>4. (Known(c)' <=> Known(c)) /\ applied' = applied /\ open' = open /\ lapses' = lapses
    BY <1>1 DEF Known
  <2>5. Number(Known(c)') = Number(Known(c)) /\ Waiting(c, open') = Waiting(c, open)
    BY <2>4 DEF Number
  <2> QED
    BY <2>2, <2>3, <2>4, <2>5
<1>4. ASSUME NEW c \in WithEffect PROVE (HeardOf(c)' => HeardOf(c)) /\ (Met(c) => Met(c)')
  BY <1>1 DEF HeardOf, Met, Known
<1> QED
  BY <1>2, <1>3, <1>4, FewerKeeps

\* A command that leaves the registry may come as a new one.
LEMMA PruneKeeps ==
  ASSUME EffectInv, Prune
  PROVE  EffectInv'
<1>0. EffectTypes
  BY DEF EffectInv
<1>1. /\ recent # << >> /\ recent' = Tail(recent) /\ Forget({Head(recent)})
      /\ slot' = slot /\ dropped' = dropped /\ applied' = applied
      /\ open' = open /\ acked' = acked
  BY DEF Prune
<1>2. /\ recent' \in Seq(Commands) /\ Range(recent) = {Head(recent)} \cup Range(recent')
  BY <1>0, <1>1, RangeOfTail DEF EffectTypes
<1>3. /\ lapses' \in [Commands -> Nat]
      /\ \A c \in Commands : lapses'[c] = lapses[c] + Number(c \in {Head(recent)})
  BY <1>0, <1>1, ForgetAdds
<1>4. EffectTypes'
  BY <1>0, <1>1, <1>2, <1>3 DEF EffectTypes
<1>5. ASSUME NEW c \in Commands
      PROVE  /\ applied'[c] + Waiting(c, open') + Number(slot' = c)
                  <= applied[c] + Waiting(c, open) + Number(slot = c)
             /\ lapses[c] + Number(Known(c)) <= lapses'[c] + Number(Known(c)')
  <2>1. Number(Known(c)) <= Number(c \in {Head(recent)}) + Number(Known(c)')
    BY <1>2 DEF Number, Known
  <2>2. /\ applied[c] \in Nat /\ lapses[c] \in Nat /\ Waiting(c, open) \in Nat
        /\ Number(slot = c) \in Nat /\ Number(Known(c)) \in Nat
        /\ Number(c \in {Head(recent)}) \in Nat /\ Number(Known(c)') \in Nat
    BY <1>0, CountsAreNat, NumberIsNat
  <2>3. lapses[c] + Number(Known(c)) <= lapses'[c] + Number(Known(c)')
    BY <1>3, <2>1, <2>2
  <2>4. /\ applied' = applied /\ Waiting(c, open') = Waiting(c, open)
        /\ Number(slot' = c) = Number(slot = c)
    BY <1>1
  <2> QED
    BY <2>2, <2>3, <2>4
<1>6. ASSUME NEW c \in WithEffect PROVE (HeardOf(c)' => HeardOf(c)) /\ (Met(c) => Met(c)')
  BY <1>1, <1>2 DEF HeardOf, Met, Known
<1> QED
  BY <1>4, <1>5, <1>6, FewerKeeps

\* Effects and memories of a command are counted in step (firmware/commands.py).
THEOREM EffectInvHolds == EdgeCommandsSpec => []EffectInv
<1>1. EdgeCommandsInit => EffectInv
  <2> SUFFICES ASSUME EdgeCommandsInit PROVE EffectInv
    OBVIOUS
  <2>1. Range(<< >>) = {} /\ recent = << >> /\ open = << >> /\ slot = NoCommand /\ acked = {}
    BY DEF EdgeCommandsInit, Range
  <2>2. EffectTypes
    BY DEF EdgeCommandsInit, EffectTypes
  <2>3. ASSUME NEW c \in Commands PROVE EffectsFit(c)
    <3>1. c # NoCommand
      BY DEF Commands, WithEffect, BadArgument, Unsupported, NoCommand
    <3>2. Waiting(c, open) = 0 /\ Number(slot = c) = 0 /\ Number(Known(c)) \in Nat
      BY <2>1, <3>1, WaitingNone, NumberIsNat DEF Number
    <3>3. applied[c] = 0 /\ lapses[c] = 0
      BY DEF EdgeCommandsInit
    <3> QED
      BY <3>2, <3>3 DEF EffectsFit
  <2>4. ASSUME NEW c \in WithEffect PROVE ~HeardOf(c)
    BY <2>1 DEF HeardOf, Known
  <2> QED
    BY <2>2, <2>3, <2>4 DEF EffectInv
<1>2. EffectInv /\ [EdgeCommandsNext]_edgeCmdVars => EffectInv'
  <2> SUFFICES ASSUME EffectInv, [EdgeCommandsNext]_edgeCmdVars PROVE EffectInv'
    OBVIOUS
  <2>1. ASSUME NEW c \in Commands, Deliver(c) PROVE EffectInv'
    BY <2>1, DeliverKeeps
  <2>2. CASE AckPublished
    BY <2>2, AckPublishedKeeps
  <2>3. CASE AckFails
    BY <2>3, AckFailsKeeps
  <2>4. CASE ApplyEffect
    BY <2>4, ApplyEffectKeeps
  <2>5. CASE ProbeFails
    BY <2>5, ProbeFailsKeeps
  <2>6. CASE PowerFails
    BY <2>6, PowerFailsKeeps
  <2>7. CASE Prune
    BY <2>7, PruneKeeps
  <2>8. CASE UNCHANGED edgeCmdVars
    BY <2>8 DEF EffectInv, EffectTypes, EffectsFit, HeardOf, Met, Known, edgeCmdVars
  <2> QED
    BY <2>1, <2>2, <2>3, <2>4, <2>5, <2>6, <2>7, <2>8 DEF EdgeCommandsNext
<1> QED
  BY <1>1, <1>2, PTL DEF EdgeCommandsSpec

\* A command has its effect once each time the registry has lost it and once more, and an
\* acknowledged one has had it, waits for it or lost it (firmware/commands.py), for any number
\* of deliveries, acknowledgements under way, failed publishes and resets.
THEOREM EffectsAccountedHolds == EdgeCommandsSpec => []EffectsAccounted
<1>1. EffectInv => EffectsAccounted
  <2> SUFFICES ASSUME EffectInv PROVE EffectsAccounted
    OBVIOUS
  <2>0. EffectTypes
    BY DEF EffectInv
  <2>1. ASSUME NEW c \in Commands PROVE applied[c] <= 1 + lapses[c]
    <3>1. applied[c] + Waiting(c, open) + Number(slot = c) <= lapses[c] + Number(Known(c))
      BY DEF EffectInv, EffectsFit
    <3>2. /\ applied[c] \in Nat /\ lapses[c] \in Nat /\ Waiting(c, open) \in Nat
          /\ Number(slot = c) \in Nat
      BY <2>0, CountsAreNat, NumberIsNat
    <3>3. Number(Known(c)) \in 0 .. 1
      BY DEF Number
    <3> QED
      BY <3>1, <3>2, <3>3
  <2>2. ASSUME NEW c \in WithEffect, <<c, "executed">> \in acked
        PROVE  applied[c] > 0 \/ slot = c \/ c \in Effects(Range(open)) \cup dropped
    <3>1. Met(c)
      BY <2>2 DEF EffectInv, HeardOf
    <3>2. \A a \in Range(open) : Brings(a, c) => c \in Effects(Range(open))
      BY DEF Brings, Effects
    <3> QED
      BY <3>1, <3>2 DEF Met
  <2> QED
    BY <2>1, <2>2 DEF EffectsAccounted, AppliedOnce, ExecutedIsApplied
<1> QED
  BY <1>1, EffectInvHolds, PTL

-----------------------------------------------------------------------------
(* EdgeCommands: what its variables hold; a command is in the registry once. *)

\* A new element, one less, and one that is left out, keep elements apart.
LEMMA OnceAppended ==
  ASSUME NEW S, NEW s \in Seq(S), IsInjective(s), NEW e \in S, e \notin Range(s)
  PROVE  IsInjective(Append(s, e))
<1> DEFINE t == Append(s, e)
           n == Len(s) + 1
<1>1. /\ t \in Seq(S) /\ Len(t) = n /\ t[n] = e /\ Len(s) \in Nat
      /\ \A i \in 1 .. Len(s) : t[i] = s[i] /\ s[i] # e
  BY RangeOfAppend, HeldIsInRange
<1>2. /\ DOMAIN t = 1 .. n /\ DOMAIN s = 1 .. Len(s)
      /\ \A i \in 1 .. n : i \in 1 .. Len(s) \/ i = n
  BY <1>1
<1> HIDE DEF t, n
<1>3. IsInjective(t)
  BY <1>1, <1>2 DEF IsInjective
<1> QED
  BY <1>3 DEF t

\* The rest of a sequence keeps elements apart.
LEMMA OnceTail ==
  ASSUME NEW S, NEW s \in Seq(S), IsInjective(s), s # << >>
  PROVE  IsInjective(Tail(s))
<1> DEFINE t == Tail(s)
<1>1. /\ t \in Seq(S) /\ Len(t) = Len(s) - 1 /\ Len(s) \in Nat
      /\ \A i \in 1 .. Len(t) : t[i] = s[i + 1] /\ i + 1 \in 1 .. Len(s)
  OBVIOUS
<1>2. DOMAIN t = 1 .. Len(t) /\ DOMAIN s = 1 .. Len(s)
  BY <1>1
<1> HIDE DEF t
<1>3. ASSUME NEW i \in 1 .. Len(t), NEW j \in 1 .. Len(t), t[i] = t[j] PROVE i = j
  <2>1. s[i + 1] = s[j + 1] /\ i + 1 \in DOMAIN s /\ j + 1 \in DOMAIN s
    BY <1>1, <1>2, <1>3
  <2>2. i + 1 = j + 1
    BY <2>1 DEF IsInjective
  <2> QED
    BY <2>2
<1>4. IsInjective(t)
  BY <1>2, <1>3 DEF IsInjective
<1> QED
  BY <1>4 DEF t

\* A command left out of a sequence that held it once is no longer there.
LEMMA OnceWithout ==
  ASSUME NEW S, NEW s \in Seq(S), IsInjective(s), NEW c
  PROVE  IsInjective(Without(s, c)) /\ c \notin Range(Without(s, c))
<1>1. CASE c \notin Range(s)
  BY <1>1 DEF Without
<1>2. CASE c \in Range(s)
  <2> DEFINE k == CHOOSE i \in DOMAIN s : s[i] = c
  <2>1. k \in 1 .. Len(s) /\ Len(s) \in Nat
    BY <1>2 DEF Range
  <2>0. s[k] = c /\ DOMAIN s = 1 .. Len(s)
    BY <1>2 DEF Range
  <2> HIDE DEF k
  <2> DEFINE a == SubSeq(s, 1, k - 1)
             b == SubSeq(s, k + 1, Len(s))
             t == a \o b
             At(i) == IF i <= k - 1 THEN i ELSE i + 1
  <2>2. /\ a \in Seq(S) /\ Len(a) = k - 1
        /\ \A i \in 1 .. k - 1 : a[i] = s[i]
    BY <2>1
  <2>3. /\ b \in Seq(S) /\ Len(b) = Len(s) - k
        /\ \A i \in 1 .. Len(s) - k : b[i] = s[k + i]
    BY <2>1
  <2>4. Without(s, c) = t
    BY <1>2 DEF Without, RemoveAt, k
  <2> HIDE DEF a, b
  <2>5. t \in Seq(S) /\ Len(t) = Len(a) + Len(b)
    BY <2>2, <2>3
  <2>6. Len(t) = Len(s) - 1
    BY <2>1, <2>2, <2>3, <2>5
  <2>13. DOMAIN t = 1 .. Len(t)
    BY <2>5
  <2>7. ASSUME NEW i \in 1 .. Len(s) - 1
        PROVE  /\ t[i] = s[At(i)] /\ At(i) \in DOMAIN s /\ At(i) # k
    <3>1. CASE i <= k - 1
      <4>1. i \in 1 .. k - 1 /\ i \in 1 .. Len(s)
        BY <2>1, <3>1
      <4>2. t[i] = a[i]
        BY <2>2, <2>3, <4>1
      <4> QED
        BY <2>0, <2>1, <2>2, <3>1, <4>1, <4>2
    <3>2. CASE ~(i <= k - 1)
      <4>1. t[i] = b[i - (k - 1)]
        BY <2>1, <2>2, <2>3, <2>6, <3>2
      <4>2. i - (k - 1) \in 1 .. Len(s) - k /\ k + (i - (k - 1)) = i + 1 /\ i + 1 \in 1 .. Len(s)
        BY <2>1, <3>2
      <4>3. t[i] = s[i + 1]
        BY <2>3, <4>1, <4>2
      <4> QED
        BY <2>0, <2>1, <3>2, <4>2, <4>3
    <3> QED
      BY <3>1, <3>2
  <2> HIDE DEF t
  <2>8. ASSUME NEW i \in 1 .. Len(s) - 1, NEW j \in 1 .. Len(s) - 1, At(i) = At(j) PROVE i = j
    BY <2>1, <2>8
  <2> HIDE DEF At
  <2>9. ASSUME NEW i \in DOMAIN t, NEW j \in DOMAIN t, t[i] = t[j] PROVE i = j
    <3>1. At(i) = At(j)
      BY <2>6, <2>7, <2>9, <2>13 DEF IsInjective
    <3> QED
      BY <2>6, <2>8, <2>13, <3>1
  <2>10. IsInjective(t)
    BY <2>9 DEF IsInjective
  <2>11. ASSUME NEW i \in DOMAIN t PROVE t[i] # c
    BY <2>0, <2>1, <2>6, <2>7, <2>13 DEF IsInjective
  <2>12. c \notin Range(t)
    BY <2>11 DEF Range
  <2> QED
    BY <2>4, <2>10, <2>12
<1> QED
  BY <1>1, <1>2

\* What a command leaves in the registry is there once.
LEMMA DeliverOnce ==
  ASSUME EffectTypes, IsInjective(recent), NEW d \in Commands, Deliver(d)
  PROVE  IsInjective(recent')
<1>1. Added(d) \in Seq(Commands) /\ IsInjective(Added(d)) /\ Added(d) # << >>
  <2>1. CASE Known(d)
    <3>1. Range(<< >>) = {}
      BY DEF Range
    <3> QED
      BY <2>1, <3>1 DEF Added, Known, EffectTypes
  <2>2. CASE ~Known(d)
    <3>1. Added(d) = Append(recent, d)
      BY <2>2 DEF Added
    <3>2. recent \in Seq(Commands) /\ d \notin Range(recent)
      BY <2>2 DEF EffectTypes, Known
    <3>3. IsInjective(Append(recent, d))
      BY <3>2, OnceAppended
    <3> QED
      BY <3>1, <3>2, <3>3
  <2> QED
    BY <2>1, <2>2
<1>2. CASE d \notin Unsupported
  BY <1>1, <1>2 DEF Deliver
<1>3. CASE d \in Unsupported
  <2> DEFINE room == IF Len(Added(d)) >= MaxRecent THEN Tail(Added(d)) ELSE Added(d)
             rest == Without(room, d)
  <2>1. recent' = Append(rest, d)
    BY <1>3 DEF Deliver, Remembered
  <2>2. Tail(Added(d)) \in Seq(Commands) /\ IsInjective(Tail(Added(d)))
    BY <1>1, RangeOfTail, OnceTail
  <2>3. room \in Seq(Commands) /\ IsInjective(room)
    BY <1>1, <2>2
  <2> HIDE DEF room
  <2>4. rest \in Seq(Commands)
    BY <2>3, RangeOfWithout
  <2>5. IsInjective(rest) /\ d \notin Range(rest)
    BY <2>3, OnceWithout
  <2> HIDE DEF rest
  <2>6. IsInjective(Append(rest, d))
    BY <2>4, <2>5, OnceAppended
  <2> QED
    BY <2>1, <2>6
<1> QED
  BY <1>2, <1>3

\* What the invariant of the effects leaves open of the types.
CommandTypes ==
  /\ IsInjective(recent) /\ slot \in WithEffect \cup {NoCommand}
  /\ Effects(Range(open)) \subseteq WithEffect
  /\ acked \subseteq (Commands \X {"executed", "rejected"})
  /\ dropped \subseteq WithEffect
  /\ deliveries \in 0 .. MaxDeliveries /\ upsets \in 0 .. MaxUpsets

\* What the variables of EdgeCommands hold: only commands with an effect wait in the slot,
\* and a command is in the registry once.
LEMMA EdgeCommandsTypes == EdgeCommandsSpec => []EdgeCommandsTypeOK
<1>0. /\ IsInjective(<< >>) /\ Range(<< >>) = {} /\ Effects({}) = {} /\ WithEffect \subseteq Commands
  BY DEF IsInjective, Range, Effects, Commands
<1>1. EdgeCommandsInit => CommandTypes
  <2> SUFFICES ASSUME EdgeCommandsInit PROVE CommandTypes
    OBVIOUS
  <2>1. 0 \in 0 .. MaxDeliveries /\ 0 \in 0 .. MaxUpsets
    BY EdgeCommandsAssumption DEF EdgeCommandsAssumption
  <2> QED
    BY <1>0, <2>1 DEF EdgeCommandsInit, CommandTypes
<1>2. EffectInv /\ CommandTypes /\ [EdgeCommandsNext]_edgeCmdVars => CommandTypes'
  <2> SUFFICES ASSUME EffectInv, CommandTypes, [EdgeCommandsNext]_edgeCmdVars PROVE CommandTypes'
    OBVIOUS
  <2>0. EffectTypes /\ MaxUpsets \in Nat /\ MaxDeliveries \in Nat
    BY EdgeCommandsAssumption DEF EffectInv, EdgeCommandsAssumption
  <2>1. Upset => upsets' \in 0 .. MaxUpsets
    BY <2>0 DEF CommandTypes, Upset
  <2>2. ASSUME NEW d \in Commands, Deliver(d) PROVE CommandTypes'
    <3>1. IsInjective(recent')
      BY <2>0, <2>2, DeliverOnce DEF CommandTypes
    <3>2. deliveries' \in 0 .. MaxDeliveries
      BY <2>0, <2>2 DEF CommandTypes, Deliver
    <3>3. Answer(d) \in Acks /\ (Answer(d).effect => Answer(d).command \in WithEffect)
      BY <2>2 DEF Answer, Ack, Acks, Commands, WithEffect, Unsupported, BadArgument
    <3>4. Range(open') = Range(open) \cup {Answer(d)}
      BY <2>0, <2>2, <3>3, RangeOfAppend DEF EffectTypes, Deliver
    <3>5. Effects(Range(open')) \subseteq WithEffect
      BY <3>3, <3>4 DEF CommandTypes, Effects
    <3>6. UNCHANGED <<slot, acked, dropped, upsets>>
      BY <2>2 DEF Deliver
    <3> QED
      BY <3>1, <3>2, <3>5, <3>6 DEF CommandTypes
  <2>3. CASE AckPublished \/ AckFails
    <3>1. /\ Last(open) \in Acks /\ Range(open) = Range(open') \cup {Last(open)}
      BY <2>0, <2>3, Returns DEF AckPublished, AckFails
    <3>2. /\ Effects(Range(open')) \subseteq WithEffect
          /\ Last(open).effect => Last(open).command \in WithEffect
      BY <3>1 DEF CommandTypes, Effects
    <3>3. CASE AckPublished
      <4>1. slot' \in WithEffect \cup {NoCommand} /\ dropped' \subseteq WithEffect
        BY <3>2, <3>3 DEF AckPublished, SlotAfter, CommandTypes
      <4>2. <<Last(open).command, Last(open).status>> \in Commands \X {"executed", "rejected"}
        BY <3>1 DEF Acks
      <4>3. acked' \subseteq (Commands \X {"executed", "rejected"})
        BY <3>3, <4>2 DEF AckPublished, CommandTypes
      <4> QED
        BY <3>2, <3>3, <4>1, <4>3 DEF AckPublished, CommandTypes
    <3>4. CASE AckFails
      <4>1. dropped' \subseteq WithEffect
        BY <3>2, <3>4 DEF AckFails, CommandTypes, Effects
      <4> QED
        BY <2>1, <3>2, <3>4, <4>1 DEF AckFails, CommandTypes
    <3> QED
      BY <2>3, <3>3, <3>4
  <2>4. CASE ApplyEffect \/ PowerFails
    <3>1. /\ recent' \in {recent, << >>} /\ open' \in {open, << >>} /\ slot' = NoCommand
          /\ dropped' \subseteq dropped \cup ({slot} \ {NoCommand}) \cup Effects(Range(open))
          /\ UNCHANGED <<acked, deliveries>> /\ upsets' \in 0 .. MaxUpsets
      BY <2>1, <2>4 DEF ApplyEffect, PowerFails, Reset, CommandTypes
    <3>2. IsInjective(recent')
      BY <1>0, <3>1 DEF CommandTypes
    <3>3. Effects(Range(open')) \subseteq WithEffect
      BY <1>0, <3>1 DEF CommandTypes
    <3>4. dropped' \subseteq WithEffect
      BY <3>1 DEF CommandTypes
    <3> QED
      BY <3>1, <3>2, <3>3, <3>4 DEF CommandTypes
  <2>5. CASE ProbeFails
    BY <2>1, <2>5 DEF ProbeFails, CommandTypes, WithEffect
  <2>6. CASE Prune
    <3>1. IsInjective(recent')
      BY <2>0, <2>6, OnceTail DEF Prune, CommandTypes, EffectTypes
    <3> QED
      BY <2>1, <2>6, <3>1 DEF Prune, CommandTypes
  <2>7. CASE UNCHANGED edgeCmdVars
    BY <2>7 DEF edgeCmdVars, CommandTypes
  <2> QED
    BY <2>2, <2>3, <2>4, <2>5, <2>6, <2>7 DEF EdgeCommandsNext
<1>3. EffectInv /\ CommandTypes => EdgeCommandsTypeOK
  BY DEF EffectInv, EffectTypes, CommandTypes, EdgeCommandsTypeOK
<1> QED
  BY <1>1, <1>2, <1>3, EffectInvHolds, PTL DEF EdgeCommandsSpec

------------------------------------------------------------------------------
(***************************************************************************)
(* EdgeGateway: the readings on the flash.                                 *)
(***************************************************************************)

\* A line of the buffer file.
FlashLine == [frames : SUBSET Readings, size : Nat, whole : BOOLEAN, open : BOOLEAN]

\* A whole line is one reading: what a torn line has taken in is not JSON.
OneEach(lines) == \A i \in 1 .. Len(lines) : lines[i].whole => \E f \in Readings : lines[i].frames = {f}

\* What is in the lines, by index.
LEMMA InFileIs ==
  ASSUME NEW lines \in Seq(FlashLine)
  PROVE  /\ Len(lines) \in Nat /\ DOMAIN lines = 1 .. Len(lines)
         /\ InFile(lines) \subseteq Readings
         /\ \A x : x \in InFile(lines) <=> \E i \in 1 .. Len(lines) : x \in lines[i].frames
<1>1. Len(lines) \in Nat /\ DOMAIN lines = 1 .. Len(lines)
  OBVIOUS
<1>2. \A i \in 1 .. Len(lines) : lines[i] \in FlashLine
  OBVIOUS
<1>3. \A x : x \in InFile(lines) <=> \E i \in 1 .. Len(lines) : x \in lines[i].frames
  BY <1>1 DEF InFile
<1> QED
  BY <1>1, <1>2, <1>3 DEF FlashLine

\* The readable lines before line i, itself included: their number is its place in the snapshot;
\* each line has a place of its own, and each place a line.
LEMMA SnapshotPlaces ==
  ASSUME NEW size \in Nat, NEW good, good \subseteq 1 .. size
  PROVE  /\ Cardinality(good) \in Nat
         /\ \A i \in good : Cardinality({j \in good : j <= i}) \in 1 .. Cardinality(good)
         /\ \A k, i \in good :
              Cardinality({j \in good : j <= k}) = Cardinality({j \in good : j <= i}) => k = i
         /\ \A n \in 1 .. Cardinality(good) :
              \E i \in good : Cardinality({j \in good : j <= i}) = n
<1> DEFINE upTo(k) == {j \in good : j <= k}
<1>1. IsFiniteSet(good) /\ Cardinality(good) \in Nat
  <2>1. IsFiniteSet(1 .. size)
    <3>1. size \in Int /\ 1 \in Int
      OBVIOUS
    <3> QED
      BY <3>1, FS_Interval
  <2> QED
    BY <2>1, FS_Subset, FS_CardinalityType
<1>2. good \subseteq Int
  OBVIOUS
<1>3. ASSUME NEW k \in good
      PROVE  IsFiniteSet(upTo(k)) /\ Cardinality(upTo(k)) \in 1 .. Cardinality(good)
  <2>1. upTo(k) \subseteq good
    OBVIOUS
  <2>2. IsFiniteSet(upTo(k)) /\ Cardinality(upTo(k)) <= Cardinality(good)
    BY <1>1, <2>1, FS_Subset
  <2>3. Cardinality(upTo(k)) \in Nat
    BY <2>2, FS_CardinalityType
  <2>4. k \in upTo(k)
    BY <1>2
  <2>5. upTo(k) # {}
    BY <2>4
  <2>6. Cardinality(upTo(k)) # 0
    <3> HIDE DEF upTo
    <3> QED
      BY <2>2, <2>5, FS_EmptySet
  <2> QED
    BY <1>1, <2>2, <2>3, <2>6
<1>4. ASSUME NEW k \in good, NEW l \in good, k < l
      PROVE  Cardinality(upTo(k)) # Cardinality(upTo(l))
  <2>1. ASSUME NEW j \in upTo(k) PROVE j \in upTo(l)
    <3>1. j \in good /\ j \in Int /\ k \in Int /\ l \in Int /\ j <= k
      BY <1>2, <2>1
    <3>2. j <= l
      BY <1>4, <3>1
    <3> QED
      BY <3>1, <3>2
  <2>2. l \in upTo(l) /\ l \notin upTo(k)
    BY <1>2, <1>4
  <2>3. IsFiniteSet(upTo(l)) /\ upTo(k) # upTo(l)
    BY <1>3, <2>2
  <2> HIDE DEF upTo
  <2> QED
    BY <2>1, <2>3, FS_Subset
<1>5. ASSUME NEW k \in good, NEW i \in good, Cardinality(upTo(k)) = Cardinality(upTo(i)) PROVE k = i
  <2>1. k < i \/ i < k \/ k = i
    BY <1>2
  <2> HIDE DEF upTo
  <2> QED
    BY <1>4, <1>5, <2>1
<1>6. \A n \in 1 .. Cardinality(good) : \E i \in good : Cardinality(upTo(i)) = n
  <2> DEFINE f == [i \in good |-> Cardinality(upTo(i))]
             T == 1 .. Cardinality(good)
  <2>1. f \in Injection(good, T)
    <3>1. f \in [good -> T]
      BY <1>3
    <3>2. \A k, i \in DOMAIN f : f[k] = f[i] => k = i
      BY <1>5
    <3> HIDE DEF f
    <3> QED
      BY <3>1, <3>2 DEF Injection, IsInjective
  <2>2. IsFiniteSet(T) /\ Cardinality(T) = Cardinality(good)
    <3>1. 1 \in Int /\ Cardinality(good) \in Int
      BY <1>1
    <3>2. Cardinality(T) = IF 1 > Cardinality(good) THEN 0 ELSE Cardinality(good) - 1 + 1
      BY <3>1, FS_Interval
    <3> QED
      BY <1>1, <3>1, <3>2, FS_Interval
  <2>3. f \in Surjection(good, T)
    <3> HIDE DEF f, T
    <3> QED
      BY <2>1, <2>2, FS_Injection
  <2>4. \A n \in T : \E i \in good : f[i] = n
    <3> HIDE DEF f, T
    <3> QED
      BY <2>3 DEF Surjection
  <2> QED
    BY <2>4
<1> QED
  BY <1>1, <1>3, <1>5, <1>6

\* The snapshot holds the reading of every line that can be read, and no other.
LEMMA SnapshotHolds ==
  ASSUME NEW lines \in Seq(FlashLine), OneEach(lines)
  PROVE  /\ Snapshot(lines) \in Seq(Readings)
         /\ \A i \in 1 .. Len(lines) : Readable(lines, i) =>
              lines[i].frames \subseteq Range(Snapshot(lines))
<1> DEFINE good == {i \in DOMAIN lines : Readable(lines, i)}
           place(i) == Cardinality({j \in good : j <= i})
           nth(n) == CHOOSE i \in good : place(i) = n
           held(n) == CHOOSE f \in lines[nth(n)].frames : TRUE
           count == Cardinality(good)
<1>1. Snapshot(lines) = [n \in 1 .. count |-> held(n)]
  BY DEF Snapshot
<1>2. /\ good \subseteq 1 .. Len(lines) /\ Len(lines) \in Nat
      /\ \A i \in good : lines[i].whole
      /\ \A i \in 1 .. Len(lines) : Readable(lines, i) => i \in good
  BY DEF Readable
<1> HIDE DEF good
<1>3. /\ count \in Nat
      /\ \A i \in good : place(i) \in 1 .. count
      /\ \A k, i \in good : place(k) = place(i) => k = i
      /\ \A n \in 1 .. count : \E i \in good : place(i) = n
  BY <1>2, SnapshotPlaces
<1> HIDE DEF place
<1>4. \A n \in 1 .. count : nth(n) \in good /\ place(nth(n)) = n
  BY <1>3
<1> HIDE DEF nth
<1>5. \A i \in good : nth(place(i)) = i
  BY <1>3, <1>4
<1>6. ASSUME NEW i \in good PROVE \E f \in Readings : lines[i].frames = {f}
  BY <1>2, <1>6 DEF OneEach
<1>7. ASSUME NEW n \in 1 .. count PROVE held(n) \in Readings /\ lines[nth(n)].frames = {held(n)}
  <2>1. PICK f \in Readings : lines[nth(n)].frames = {f}
    BY <1>4, <1>6
  <2> QED
    BY <2>1
<1> HIDE DEF held, count
<1>8. Snapshot(lines) \in Seq(Readings) /\ DOMAIN Snapshot(lines) = 1 .. count
  BY <1>1, <1>3, <1>7
<1>9. ASSUME NEW i \in 1 .. Len(lines), Readable(lines, i)
      PROVE  lines[i].frames \subseteq Range(Snapshot(lines))
  <2>1. /\ i \in good /\ place(i) \in 1 .. count
    BY <1>2, <1>3, <1>9
  <2>2. lines[i].frames = {held(place(i))} /\ Snapshot(lines)[place(i)] = held(place(i))
    BY <1>1, <1>5, <1>7, <2>1
  <2> QED
    BY <1>8, <2>1, <2>2 DEF Range
<1> QED
  BY <1>8, <1>9

\* append keeps every reading, and a line that is whole holds one.
LEMMA WithFrameHolds ==
  ASSUME NEW lines \in Seq(FlashLine), OneEach(lines), NEW f \in Readings, NEW size \in Nat,
         NEW isOpen \in BOOLEAN
  PROVE  /\ WithFrame(lines, f, size, isOpen) \in Seq(FlashLine)
         /\ OneEach(WithFrame(lines, f, size, isOpen))
         /\ InFile(lines) \cup {f} \subseteq InFile(WithFrame(lines, f, size, isOpen))
<1> DEFINE longer == WithFrame(lines, f, size, isOpen)
           n == Len(lines)
<1>1. CASE lines # << >> /\ lines[Len(lines)].open
  <2> DEFINE torn == lines[n]
             last == Line(torn.frames \cup {f}, torn.size + size, FALSE, isOpen)
  <2>1. longer = [lines EXCEPT ![n] = last]
    BY <1>1 DEF WithFrame
  <2>2. n \in 1 .. Len(lines) /\ torn \in FlashLine
    BY <1>1
  <2>3. last \in FlashLine /\ last.whole = FALSE /\ last.frames = torn.frames \cup {f}
    BY <2>2 DEF FlashLine, Line
  <2> HIDE DEF last
  <2>4. /\ longer \in Seq(FlashLine) /\ Len(longer) = Len(lines) /\ longer[n] = last
        /\ \A i \in 1 .. Len(lines) : i # n => longer[i] = lines[i]
    BY <2>1, <2>2, <2>3
  <2> HIDE DEF longer
  <2>5. OneEach(longer)
    BY <2>3, <2>4 DEF OneEach
  <2>6. \A x : x \in InFile(lines) \cup {f} => x \in InFile(longer)
    <3>1. \A x : x \in InFile(lines) <=> \E i \in 1 .. Len(lines) : x \in lines[i].frames
      BY InFileIs
    <3>2. \A x : x \in InFile(longer) <=> \E i \in 1 .. Len(longer) : x \in longer[i].frames
      BY <2>4, InFileIs
    <3> QED
      BY <2>2, <2>3, <2>4, <3>1, <3>2
  <2> QED
    BY <2>4, <2>5, <2>6 DEF longer
<1>2. CASE ~(lines # << >> /\ lines[Len(lines)].open)
  <2> DEFINE last == Line({f}, size, size >= LineSize - 1, isOpen)
  <2>1. longer = Append(lines, last)
    BY <1>2 DEF WithFrame
  <2>2. last \in FlashLine /\ last.frames = {f}
    <3>1. (size >= LineSize - 1) \in BOOLEAN
      OBVIOUS
    <3> QED
      BY <3>1 DEF FlashLine, Line
  <2> HIDE DEF last
  <2>3. /\ longer \in Seq(FlashLine) /\ Len(longer) = n + 1 /\ longer[n + 1] = last
        /\ \A i \in 1 .. n : longer[i] = lines[i]
    BY <2>1, <2>2
  <2> HIDE DEF longer
  <2>4. Len(lines) \in Nat /\ \A i \in 1 .. n + 1 : i \in 1 .. n \/ i = n + 1
    OBVIOUS
  <2>5. OneEach(longer)
    BY <2>2, <2>3, <2>4 DEF OneEach
  <2>6. \A x : x \in InFile(lines) \cup {f} => x \in InFile(longer)
    <3>1. \A x : x \in InFile(lines) <=> \E i \in 1 .. Len(lines) : x \in lines[i].frames
      BY InFileIs
    <3>2. \A x : x \in InFile(longer) <=> \E i \in 1 .. Len(longer) : x \in longer[i].frames
      BY <2>3, InFileIs
    <3>3. n + 1 \in 1 .. Len(longer) /\ \A i \in 1 .. n : i \in 1 .. Len(longer)
      BY <2>3, <2>4
    <3> QED
      BY <2>2, <2>3, <3>1, <3>2, <3>3
  <2> QED
    BY <2>3, <2>5, <2>6 DEF longer
<1> QED
  BY <1>1, <1>2

\* What _trim leaves is a file of the same kind.
LEMMA KeptHolds ==
  ASSUME NEW lines \in Seq(FlashLine), OneEach(lines), EdgeAssumption
  PROVE  /\ Kept(lines) \in Seq(FlashLine) /\ OneEach(Kept(lines))
         /\ Kept(lines) # lines => Len(Kept(lines)) = BufferMax
<1> DEFINE frames == Snapshot(lines)
           over == Len(frames) - BufferMax
           cut == [i \in 1 .. BufferMax |-> GoodLine(frames[i + over])]
<1>1. frames \in Seq(Readings) /\ BufferMax \in Nat
  BY SnapshotHolds DEF EdgeAssumption
<1>2. Kept(lines) = IF over <= 0 THEN lines ELSE cut
  BY DEF Kept
<1>3. CASE over <= 0
  BY <1>2, <1>3
<1>4. CASE ~(over <= 0)
  <2>1. ASSUME NEW i \in 1 .. BufferMax
        PROVE  GoodLine(frames[i + over]) \in FlashLine
               /\ \E f \in Readings : GoodLine(frames[i + over]).frames = {f}
    <3> HIDE DEF frames
    <3>1. i + over \in 1 .. Len(frames)
      BY <1>1, <1>4
    <3>2. frames[i + over] \in Readings
      BY <1>1, <3>1
    <3>3. LineSize \in Nat
      BY DEF EdgeAssumption
    <3> HIDE DEF over
    <3> QED
      BY <3>2, <3>3 DEF GoodLine, Line, FlashLine
  <2> HIDE DEF frames, over
  <2>2. cut \in Seq(FlashLine) /\ Len(cut) = BufferMax
    BY <1>1, <2>1
  <2>3. \A i \in 1 .. BufferMax : cut[i] = GoodLine(frames[i + over])
    OBVIOUS
  <2> HIDE DEF cut
  <2>4. OneEach(cut)
    BY <2>1, <2>2, <2>3 DEF OneEach
  <2> QED
    BY <1>2, <1>4, <2>2, <2>4
<1> QED
  BY <1>3, <1>4

-----------------------------------------------------------------------------
\* What the variables of EdgeGateway hold, as far as the argument needs it.
EdgeTypes ==
  /\ hand \in {NoFrame} \cup Readings /\ file \in Seq(FlashLine) /\ replay \in Seq(Readings)
  /\ sampled \in 0 .. MaxFrames

\* In a replay, what the file holds and can be read is with the broker, given up, or to come.
Replaying ==
  at = "replay" => \A i \in 1 .. Len(file) : Readable(file, i) =>
    file[i].frames \subseteq delivered \cup excused \cup Range(replay)

\* What is proved to be inductive of EdgeGateway.
EdgeLossInv ==
  /\ EdgeTypes /\ OneEach(file) /\ Replaying /\ LossHasCause
  /\ at \in {"sample", "poll", "connect"} => hand = NoFrame

\* What a publish does with its reading, if it returns.
LEMMA PublishedGives ==
  ASSUME NEW f, Published(f)
  PROVE  /\ delivered \subseteq delivered' /\ excused \subseteq excused'
         /\ Give(f) \subseteq delivered' \cup excused'
BY DEF Published, Answered, Unanswered, Give

\* A step outside of a replay that gives no reading up without a cause.
LEMMA NothingLost ==
  ASSUME EdgeLossInv, EdgeTypes', OneEach(file)', at' # "replay", sampled' = sampled,
         at' \in {"sample", "poll", "connect"} => hand' = NoFrame,
         delivered \cup InFile(file) \cup Give(hand) \cup excused
           \subseteq delivered' \cup InFile(file') \cup Give(hand') \cup excused'
  PROVE  EdgeLossInv'
<1>1. LossHasCause'
  BY DEF EdgeLossInv, LossHasCause
<1> QED
  BY <1>1 DEF EdgeLossInv, Replaying

\* A reading is taken when no other is in hand.
LEMMA SampleKeeps ==
  ASSUME EdgeLossInv, Sample
  PROVE  EdgeLossInv'
<1>1. /\ hand = NoFrame /\ at' \in {"offline", "publish", "greet"}
      /\ UNCHANGED <<file, replay, delivered, excused>> /\ EdgeTypes /\ LossHasCause
      /\ MaxFrames \in Nat
  BY EdgeAssumption DEF EdgeLossInv, Sample, EdgeAssumption
<1>2. CASE sampled < MaxFrames /\ sampled' = sampled + 1 /\ hand' = sampled'
  <2>1. /\ hand' \in Readings /\ sampled' \in 0 .. MaxFrames /\ Give(hand') = {hand'}
        /\ \A x \in 1 .. sampled' : x \in 1 .. sampled \/ x = hand'
    BY <1>1, <1>2 DEF EdgeTypes, Readings, Give, NoFrame
  <2>2. LossHasCause'
    BY <1>1, <2>1 DEF LossHasCause, Give
  <2> QED
    BY <1>1, <2>1, <2>2 DEF EdgeLossInv, EdgeTypes, Replaying
<1>3. CASE hand' = NoFrame /\ UNCHANGED sampled
  BY <1>1, <1>3, NothingLost DEF EdgeLossInv, EdgeTypes, Give
<1> QED
  BY <1>2, <1>3 DEF Sample

\* A new connection replays what the file holds.
LEMMA GreetKeeps ==
  ASSUME EdgeLossInv, Greet
  PROVE  EdgeLossInv'
<1>1. /\ delivered \subseteq delivered' /\ excused \subseteq excused'
      /\ at' = "replay" /\ replay' = Snapshot(file) /\ UNCHANGED <<hand, file, sampled>>
  BY PublishedGives DEF Greet
<1>2. /\ Snapshot(file) \in Seq(Readings)
      /\ \A i \in 1 .. Len(file) : Readable(file, i) => file[i].frames \subseteq Range(Snapshot(file))
  BY SnapshotHolds DEF EdgeLossInv, EdgeTypes
<1>3. EdgeTypes' /\ OneEach(file)' /\ Replaying'
  BY <1>1, <1>2 DEF EdgeLossInv, EdgeTypes, Replaying
<1>4. LossHasCause'
  BY <1>1 DEF EdgeLossInv, LossHasCause
<1> QED
  BY <1>1, <1>3, <1>4 DEF EdgeLossInv

\* A replayed reading is with the broker or given up before it leaves the snapshot.
LEMMA ReplayOneKeeps ==
  ASSUME EdgeLossInv, ReplayOne
  PROVE  EdgeLossInv'
<1>1. /\ delivered \subseteq delivered' /\ excused \subseteq excused'
      /\ Give(Head(replay)) \subseteq delivered' \cup excused'
      /\ at = "replay" /\ at' = at /\ replay # << >> /\ replay' = Tail(replay)
      /\ UNCHANGED <<hand, file, sampled>>
  BY PublishedGives DEF ReplayOne
<1>2. /\ Tail(replay) \in Seq(Readings) /\ Head(replay) \in Readings
      /\ Range(replay) = {Head(replay)} \cup Range(Tail(replay))
  BY <1>1, RangeOfTail DEF EdgeLossInv, EdgeTypes
<1>3. Head(replay) \in delivered' \cup excused'
  BY <1>1, <1>2 DEF Give, NoFrame, Readings
<1>4. EdgeTypes' /\ OneEach(file)' /\ Replaying'
  BY <1>1, <1>2, <1>3 DEF EdgeLossInv, EdgeTypes, Replaying
<1>5. LossHasCause'
  BY <1>1 DEF EdgeLossInv, LossHasCause
<1> QED
  BY <1>1, <1>4, <1>5 DEF EdgeLossInv

\* A replay that is done clears the file: what could not be read is given up.
LEMMA ClearBufferKeeps ==
  ASSUME EdgeLossInv, ClearBuffer
  PROVE  EdgeLossInv'
<1>1. /\ at = "replay" /\ replay = << >> /\ at' = "publish" /\ file' = << >>
      /\ excused' = excused \cup UNION {file[i].frames : i \in {j \in DOMAIN file : ~Readable(file, j)}}
      /\ UNCHANGED <<hand, replay, sampled, delivered>> /\ EdgeTypes
  BY DEF ClearBuffer, EdgeLossInv
<1>2. /\ DOMAIN file = 1 .. Len(file)
      /\ \A x : x \in InFile(file) <=> \E i \in 1 .. Len(file) : x \in file[i].frames
  BY <1>1, InFileIs DEF EdgeTypes
<1>3. Range(replay) = {}
  BY <1>1 DEF Range
<1>4. ASSUME NEW i \in 1 .. Len(file) PROVE file[i].frames \subseteq delivered' \cup excused'
  <2>1. CASE Readable(file, i)
    BY <1>1, <1>3, <2>1 DEF EdgeLossInv, Replaying
  <2>2. CASE ~Readable(file, i)
    BY <1>1, <1>2, <2>2
  <2> QED
    BY <2>1, <2>2
<1>5. InFile(file) \subseteq delivered' \cup excused'
  BY <1>2, <1>4
<1>6. EdgeTypes' /\ OneEach(file)'
  BY <1>1 DEF EdgeTypes, OneEach
<1> QED
  BY <1>1, <1>5, <1>6, NothingLost

\* The steps that leave the file alone and the replay, if there is one.
LEMMA StepKeeps ==
  ASSUME EdgeLossInv,
         \/ GreetRaises \/ ReplayBreaks \/ PublishReading \/ PublishRaises \/ PollQuiet
         \/ PingRaises \/ Connect \/ CommandArrives \/ WatchdogReset
  PROVE  EdgeLossInv'
<1>0. << >> \in Seq(Readings)
  OBVIOUS
<1>1. EdgeTypes /\ OneEach(file) /\ NoFrame \in {NoFrame} \cup Readings
  BY DEF EdgeLossInv
<1>2. /\ file' = file /\ at' # "replay" /\ sampled' = sampled
      /\ replay' \in {replay, << >>} /\ hand' \in {hand, NoFrame}
  BY DEF GreetRaises, ReplayBreaks, AfterBreak, PublishReading, PublishRaises, PollQuiet, PingRaises,
         Connect, CommandArrives, WatchdogReset, Disconnect, Boot
<1>3. EdgeTypes' /\ OneEach(file)'
  BY <1>0, <1>1, <1>2 DEF EdgeTypes
<1>4. /\ at' \in {"sample", "poll", "connect"} => hand' = NoFrame
      /\ delivered \subseteq delivered' /\ excused \subseteq excused'
      /\ Give(hand) \subseteq delivered' \cup excused' \cup Give(hand')
  <2>1. CASE PublishReading
    <3>1. hand' = NoFrame
      BY <2>1 DEF PublishReading
    <3>2. CASE hand # NoFrame /\ Published(hand)
      BY <3>1, <3>2, PublishedGives
    <3>3. CASE hand = NoFrame /\ UNCHANGED <<sock, delivered, excused, faults>>
      BY <3>1, <3>3 DEF Give
    <3> QED
      BY <2>1, <3>2, <3>3 DEF PublishReading
  <2>2. CASE GreetRaises \/ ReplayBreaks
    BY <2>2 DEF GreetRaises, ReplayBreaks, Raises
  <2>3. CASE PublishRaises \/ PingRaises \/ WatchdogReset
    BY <2>3 DEF PublishRaises, PingRaises, WatchdogReset, Disconnect, Boot
  <2>4. CASE PollQuiet \/ Connect \/ CommandArrives
    BY <2>4 DEF PollQuiet, Connect, CommandArrives, EdgeLossInv
  <2> QED
    BY <2>1, <2>2, <2>3, <2>4
<1> QED
  BY <1>2, <1>3, <1>4, NothingLost

\* A reading goes to the flash, which may push others out.
LEMMA OfflineKeeps ==
  ASSUME EdgeLossInv, Offline, EdgeAssumption
  PROVE  EdgeLossInv'
<1>1. /\ at' = "connect" /\ hand' = NoFrame /\ UNCHANGED <<replay, sampled, delivered>>
      /\ EdgeTypes /\ OneEach(file)
  BY DEF Offline, EdgeLossInv
<1>2. CASE \/ hand = NoFrame /\ UNCHANGED <<file, excused, faults>>
           \/ hand # NoFrame /\ Fault /\ excused' = excused \cup {hand} /\ UNCHANGED file
  BY <1>1, <1>2, NothingLost DEF EdgeTypes, Give
<1> DEFINE longer == WithFrame(file, hand, LineSize, FALSE)
<1>3. CASE hand # NoFrame /\ file' = Kept(longer)
           /\ excused' = excused \cup (InFile(longer) \ InFile(Kept(longer)))
  <2>1. hand \in Readings /\ LineSize \in Nat
    BY <1>1, <1>3 DEF EdgeTypes, EdgeAssumption
  <2>2. longer \in Seq(FlashLine) /\ OneEach(longer) /\ InFile(file) \cup {hand} \subseteq InFile(longer)
    BY <1>1, <2>1, WithFrameHolds DEF EdgeTypes
  <2> HIDE DEF longer
  <2>3. Kept(longer) \in Seq(FlashLine) /\ OneEach(Kept(longer))
    BY <2>2, KeptHolds
  <2>4. EdgeTypes' /\ OneEach(file)'
    BY <1>1, <1>3, <2>3 DEF EdgeTypes
  <2> QED
    BY <1>1, <1>3, <2>2, <2>4, NothingLost DEF Give
<1> QED
  BY <1>2, <1>3 DEF Offline

\* The power fails, in the middle of a write or not.
LEMMA PowerCutKeeps ==
  ASSUME EdgeLossInv, PowerCut, EdgeAssumption
  PROVE  EdgeLossInv'
<1> DEFINE longer == WithFrame(file, hand, LineSize, FALSE)
<1>1. /\ at' = "sample" /\ hand' = NoFrame /\ replay' = << >> /\ UNCHANGED <<sampled, delivered>>
      /\ excused' = excused \cup ((Give(hand) \cup InFile(file)) \ InFile(file'))
      /\ EdgeTypes /\ OneEach(file) /\ replay' \in Seq(Readings)
  BY DEF PowerCut, Boot, EdgeLossInv
<1>2. file' \in Seq(FlashLine) /\ OneEach(file')
  <2>1. CASE UNCHANGED file
    BY <1>1, <2>1 DEF EdgeTypes
  <2>2. ASSUME NEW size \in {LineSize - 2, LineSize - 1}, hand # NoFrame,
               file' = WithFrame(file, hand, size, TRUE)
        PROVE  file' \in Seq(FlashLine) /\ OneEach(file')
    <3>1. size \in Nat /\ hand \in Readings
      BY <1>1, <2>2 DEF EdgeTypes, EdgeAssumption
    <3>2. file \in Seq(FlashLine)
      BY <1>1 DEF EdgeTypes
    <3>3. /\ WithFrame(file, hand, size, TRUE) \in Seq(FlashLine)
          /\ OneEach(WithFrame(file, hand, size, TRUE))
      BY <1>1, <3>1, <3>2, WithFrameHolds
    <3> QED
      BY <2>2, <3>3
  <2>3. ASSUME NEW n \in 0 .. BufferMax - 1, hand # NoFrame, Kept(longer) # longer,
               file' = SubSeq(Kept(longer), 1, n)
        PROVE  file' \in Seq(FlashLine) /\ OneEach(file')
    <3>1. hand \in Readings /\ LineSize \in Nat /\ BufferMax \in Nat
      BY <1>1, <2>3 DEF EdgeTypes, EdgeAssumption
    <3>2. longer \in Seq(FlashLine) /\ OneEach(longer)
      BY <1>1, <3>1, WithFrameHolds DEF EdgeTypes
    <3> DEFINE kept == Kept(longer)
    <3>3. kept \in Seq(FlashLine) /\ OneEach(kept) /\ Len(kept) = BufferMax
      BY <2>3, <3>2, KeptHolds
    <3> HIDE DEF kept
    <3>4. \A i \in 1 .. n : i \in 1 .. Len(kept) /\ kept[i] \in FlashLine
      BY <3>1, <3>3
    <3>5. /\ SubSeq(kept, 1, n) \in Seq(FlashLine) /\ Len(SubSeq(kept, 1, n)) = n
          /\ \A i \in 1 .. n : SubSeq(kept, 1, n)[i] = kept[i]
      BY <3>1, <3>3, <3>4
    <3>6. OneEach(SubSeq(kept, 1, n))
      BY <3>3, <3>4, <3>5 DEF OneEach
    <3> QED
      BY <2>3, <3>5, <3>6 DEF kept
  <2> QED
    BY <2>1, <2>2, <2>3 DEF PowerCut
<1>3. EdgeTypes' /\ OneEach(file)'
  BY <1>1, <1>2 DEF EdgeTypes
<1> QED
  BY <1>1, <1>3, NothingLost

\* Whatever fails, a reading is kept, sent or given up for a cause, also in mid-replay.
THEOREM EdgeLossInvHolds == EdgeInit /\ [][EdgeNext]_edgeVars => []EdgeLossInv
<1>1. EdgeInit => EdgeLossInv
  <2> SUFFICES ASSUME EdgeInit PROVE EdgeLossInv
    OBVIOUS
  <2>1. MaxFrames \in Nat /\ << >> \in Seq(FlashLine) /\ << >> \in Seq(Readings)
    BY EdgeAssumption DEF EdgeAssumption
  <2> QED
    BY <2>1 DEF EdgeInit, EdgeLossInv, EdgeTypes, OneEach, Replaying, LossHasCause
<1>2. EdgeLossInv /\ [EdgeNext]_edgeVars => EdgeLossInv'
  <2> SUFFICES ASSUME EdgeLossInv, [EdgeNext]_edgeVars PROVE EdgeLossInv'
    OBVIOUS
  <2>1. CASE Sample
    BY <2>1, SampleKeeps
  <2>2. CASE Greet
    BY <2>2, GreetKeeps
  <2>3. CASE ReplayOne
    BY <2>3, ReplayOneKeeps
  <2>4. CASE ClearBuffer
    BY <2>4, ClearBufferKeeps
  <2>5. CASE \/ GreetRaises \/ ReplayBreaks \/ PublishReading \/ PublishRaises \/ PollQuiet
             \/ PingRaises \/ Connect \/ CommandArrives \/ WatchdogReset
    BY <2>5, StepKeeps
  <2>6. CASE Offline
    BY <2>6, OfflineKeeps, EdgeAssumption
  <2>7. CASE PowerCut
    BY <2>7, PowerCutKeeps, EdgeAssumption
  <2>8. CASE ConnectionLost \/ UNCHANGED edgeVars
    BY <2>8 DEF ConnectionLost, edgeVars, EdgeLossInv, EdgeTypes, Replaying, LossHasCause
  <2> QED
    BY <2>1, <2>2, <2>3, <2>4, <2>5, <2>6, <2>7, <2>8 DEF EdgeNext, LoopStep
<1> QED
  BY <1>1, <1>2, PTL

\* A sampled reading is with the broker, on the flash or in hand, or was given up for a cause
\* (firmware/main.py:164-170), for any number of readings, torn and unreadable lines, full
\* flashes, power cuts and connections lost in mid-replay.
THEOREM LossHasCauseHolds == EdgeSpec => []LossHasCause
<1>1. EdgeLossInv => LossHasCause
  BY DEF EdgeLossInv
<1> QED
  BY <1>1, EdgeLossInvHolds, PTL DEF EdgeSpec

\* What the variables of EdgeGateway hold.
LEMMA EdgeGatewayTypes == EdgeInit /\ [][EdgeNext]_edgeVars => []EdgeTypeOK
<1> DEFINE Rest ==
      /\ at \in {"sample", "greet", "replay", "publish", "poll", "offline", "connect", "dead"}
      /\ sock \in {"down", "up", "broken"} /\ greeted \in BOOLEAN
      /\ faults \in 0 .. MaxFaults /\ stranded \in BOOLEAN
      /\ delivered \subseteq Readings /\ excused \subseteq Readings
<1>1. EdgeInit => Rest
  <2>1. 0 \in 0 .. MaxFaults
    BY EdgeAssumption DEF EdgeAssumption
  <2> QED
    BY <2>1 DEF EdgeInit
<1>2. EdgeLossInv /\ Rest /\ [EdgeNext]_edgeVars => Rest'
  <2> SUFFICES ASSUME EdgeLossInv, Rest, [EdgeNext]_edgeVars PROVE Rest'
    OBVIOUS
  <2>0. /\ EdgeTypes /\ OneEach(file) /\ MaxFaults \in Nat
        /\ Give(hand) \subseteq Readings /\ Give(NoFrame) = {}
    BY EdgeAssumption DEF EdgeLossInv, EdgeTypes, EdgeAssumption, Give
  <2>1. Fault => faults' \in 0 .. MaxFaults
    BY <2>0 DEF Fault
  <2>2. InFile(file) \subseteq Readings
    BY <2>0, InFileIs DEF EdgeTypes, FlashLine
  <2>3. CASE Sample
    BY <2>3 DEF Sample
  <2>4. ASSUME NEW f, Give(f) \subseteq Readings, Published(f)
        PROVE  /\ sock' = sock /\ faults' \in 0 .. MaxFaults
               /\ delivered' \subseteq Readings /\ excused' \subseteq Readings
    BY <2>1, <2>4 DEF Published, Answered, Unanswered
  <2>5. ASSUME NEW f, Give(f) \subseteq Readings, Raises(f)
        PROVE  /\ sock' \in {"down", "up", "broken"} /\ faults' \in 0 .. MaxFaults
               /\ delivered' \subseteq Readings
    BY <2>1, <2>5 DEF Raises
  <2>6. replay # << >> => Give(Head(replay)) \subseteq Readings
    <3>1. replay # << >> => Head(replay) \in Readings
      BY <2>0 DEF EdgeTypes
    <3> QED
      BY <3>1 DEF Give
  <2>7. CASE Greet
    BY <2>0, <2>4, <2>7 DEF Greet
  <2>8. CASE GreetRaises
    BY <2>0, <2>5, <2>8 DEF GreetRaises
  <2>9. CASE ReplayOne
    BY <2>4, <2>6, <2>9 DEF ReplayOne
  <2>10. CASE ReplayBreaks
    BY <2>5, <2>6, <2>10 DEF ReplayBreaks
  <2>11. CASE ClearBuffer
    <3>1. excused' \subseteq excused \cup InFile(file)
      BY <2>11 DEF ClearBuffer, InFile
    <3> QED
      BY <2>2, <2>11, <3>1 DEF ClearBuffer
  <2>12. CASE PublishReading
    BY <2>0, <2>4, <2>12 DEF PublishReading
  <2>13. CASE PublishRaises
    <3>1. hand \in Readings
      BY <2>0, <2>13 DEF PublishRaises, EdgeTypes
    <3> QED
      BY <2>0, <2>1, <2>13, <3>1 DEF PublishRaises, Disconnect
  <2>14. CASE PollQuiet \/ PingRaises \/ Connect
    BY <2>0, <2>1, <2>14 DEF PollQuiet, PingRaises, Connect, Disconnect
  <2>15. CASE Offline
    <3> DEFINE longer == WithFrame(file, hand, LineSize, FALSE)
    <3>1. ASSUME hand # NoFrame PROVE InFile(longer) \subseteq Readings /\ hand \in Readings
      <4>1. hand \in Readings /\ LineSize \in Nat
        BY <2>0, <3>1, EdgeAssumption DEF EdgeTypes, EdgeAssumption
      <4>2. longer \in Seq(FlashLine)
        BY <2>0, <4>1, WithFrameHolds DEF EdgeTypes
      <4> HIDE DEF longer
      <4> QED
        BY <4>1, <4>2, InFileIs DEF FlashLine
    <3>2. excused' \subseteq Readings
      BY <2>15, <3>1 DEF Offline
    <3>3. faults' \in 0 .. MaxFaults
      BY <2>1, <2>15 DEF Offline
    <3> QED
      BY <2>15, <3>2, <3>3 DEF Offline, GreetedOffline
  <2>16. CASE ConnectionLost \/ CommandArrives \/ WatchdogReset
    BY <2>0, <2>1, <2>16 DEF ConnectionLost, CommandArrives, WatchdogReset, Boot
  <2>17. CASE PowerCut
    BY <2>0, <2>1, <2>2, <2>17 DEF PowerCut, Boot
  <2>18. CASE UNCHANGED edgeVars
    BY <2>18 DEF edgeVars
  <2> QED
    BY <2>3, <2>7, <2>8, <2>9, <2>10, <2>11, <2>12, <2>13, <2>14, <2>15, <2>16, <2>17, <2>18
       DEF EdgeNext, LoopStep
<1>3. EdgeLossInv /\ Rest => EdgeTypeOK
  BY DEF EdgeLossInv, EdgeTypes, EdgeTypeOK, FlashLine
<1> QED
  BY <1>1, <1>2, <1>3, EdgeLossInvHolds, PTL

==============================================================================
