-------------------------- MODULE VehicleSimProofs --------------------------
(***************************************************************************)
(* What holds of vehicle-sim for every network, capture, schedule and      *)
(* keyboard: which runner a command line reaches, which packets a search   *)
(* reports, which keys get through and which rows are written when.        *)
(***************************************************************************)
EXTENDS VehicleSim, SequenceTheorems, WellFoundedInduction, TLAPS

-----------------------------------------------------------------------------
(* Sequences of anything: what Append and \o do to them.                   *)

IsSeq(s) == s \in Seq({s[i] : i \in DOMAIN s})

\* A sequence over any set is one over its own elements.
LEMMA SeqIsSeq ==
    ASSUME NEW S, NEW s \in Seq(S)
    PROVE  IsSeq(s) /\ Len(s) \in Nat /\ DOMAIN s = 1..Len(s)
BY DEF IsSeq

\* Append keeps what is there and puts one element behind it.
LEMMA AppendIs ==
    ASSUME NEW s, NEW x, IsSeq(s)
    PROVE  /\ IsSeq(Append(s, x))
           /\ Len(s) \in Nat /\ DOMAIN s = 1..Len(s)
           /\ Len(Append(s, x)) = Len(s) + 1
           /\ DOMAIN Append(s, x) = 1..(Len(s) + 1)
           /\ Append(s, x)[Len(s) + 1] = x
           /\ \A i \in DOMAIN s : Append(s, x)[i] = s[i]
<1> DEFINE S == {s[i] : i \in DOMAIN s} \cup {x}
<1>1. s \in Seq({s[i] : i \in DOMAIN s}) /\ Len(s) \in Nat /\ DOMAIN s = 1..Len(s)
  BY DEF IsSeq
<1>2. s \in Seq(S) /\ x \in S
  BY <1>1
<1> HIDE DEF S
<1>3. Append(s, x) \in Seq(S)
  BY <1>2
<1>4. IsSeq(Append(s, x))
  BY <1>3, SeqIsSeq
<1>5. /\ Len(Append(s, x)) = Len(s) + 1
      /\ DOMAIN Append(s, x) = 1..(Len(s) + 1)
      /\ Append(s, x)[Len(s) + 1] = x
      /\ \A i \in DOMAIN s : Append(s, x)[i] = s[i]
  BY <1>2
<1> QED BY <1>1, <1>4, <1>5

\* What is in a sequence that grew by one element.
LEMMA ToSetAppend ==
    ASSUME NEW S, NEW s \in Seq(S), NEW x \in S
    PROVE  /\ Append(s, x) \in Seq(S) /\ Len(s) \in Nat /\ Len(Append(s, x)) = Len(s) + 1
           /\ ToSet(Append(s, x)) = ToSet(s) \cup {x}
<1>1. Append(s, x) \in Seq(S) /\ Len(s) \in Nat /\ Len(Append(s, x)) = Len(s) + 1
  OBVIOUS
<1>2. /\ DOMAIN s = 1..Len(s) /\ DOMAIN Append(s, x) = 1..(Len(s) + 1)
      /\ Append(s, x)[Len(s) + 1] = x /\ \A i \in 1..Len(s) : Append(s, x)[i] = s[i]
  OBVIOUS
<1>3. ToSet(Append(s, x)) \subseteq ToSet(s) \cup {x}
  BY <1>1, <1>2 DEF ToSet
<1>4. ToSet(s) \cup {x} \subseteq ToSet(Append(s, x))
  BY <1>1, <1>2 DEF ToSet
<1> QED BY <1>1, <1>3, <1>4

-----------------------------------------------------------------------------
(* The keyboard.                                                           *)

\* Only the two ends of the keyboard change it.
LEMMA KbdChanges == [Next]_vars => UNCHANGED kbd \/ ReadKey \/ PressKey
<1> SUFFICES ASSUME [Next]_vars PROVE UNCHANGED kbd \/ ReadKey \/ PressKey
  OBVIOUS
<1>1. CASE Start \/ Dispatch \/ Scan \/ Discover \/ Status \/ autoDiscoverAndAssign
             \/ Poll \/ EndPoll
  BY <1>1 DEF Start, Dispatch, Scan, Discover, Status, autoDiscoverAndAssign, Poll, EndPoll
<1>2. CASE OpenConsole \/ ReadStatus \/ Provision \/ OpenReplay \/ OpenCsvReplay \/ OpenLive
             \/ RunBle \/ OpenInteractive \/ TickRow
  BY <1>2 DEF OpenConsole, ReadStatus, Provision, OpenReplay, OpenCsvReplay, OpenLive, RunBle,
              OpenInteractive, TickRow
<1>3. CASE Sleep \/ Dispatched \/ EndFrames \/ NextRecorded \/ NextRow \/ NextDemo \/ NextLive
             \/ EndOfSource \/ Traffic
  BY <1>3 DEF Sleep, Dispatched, EndFrames, NextRecorded, NextRow, NextDemo, NextLive,
              EndOfSource, Traffic, Take
<1>4. CASE Broadcast \/ Interrupt \/ Exited \/ UNCHANGED vars
  BY <1>4 DEF Broadcast, Interrupt, Exited, vars
<1> QED BY <1>1, <1>2, <1>3, <1>4 DEF Next, Main, World

\* An escape sequence that is being typed is what was read last, so that nothing but its own
\* '[' and letter are kept from the provider.
KeysInv ==
    /\ DOMAIN kbd = {"unread", "read", "stage", "surfaced", "arrows", "quit"}
    /\ kbd.unread \in Seq(Keys) /\ kbd.read \in Seq(Keys) /\ kbd.surfaced \in Seq(Keys)
    /\ kbd.stage \in {"None", "Escape", "Bracket"} /\ kbd.arrows \in Nat
    /\ kbd.stage # "None" => Len(kbd.read) > 0
    /\ kbd.stage = "Escape" => kbd.read[Len(kbd.read)] = "ESC"
    /\ kbd.stage = "Bracket" => /\ Len(kbd.read) > 1 /\ kbd.read[Len(kbd.read)] = "["
                                /\ kbd.read[Len(kbd.read) - 1] = "ESC"
    /\ kbd.quit <=> ToSet(kbd.surfaced) \cap {"ESC", "q"} # {}
    /\ KeysKept

\* getKey() moves one key from the keyboard to what was read, and the filter takes one of five
\* ways with it.
LEMMA GetKeyIs ==
    ASSUME KeysInv, kbd.unread # <<>>, kbd' = getKey(kbd)
    PROVE  LET key == Head(kbd.unread)
           IN  /\ key \in Keys
               /\ DOMAIN kbd' = DOMAIN kbd
               /\ kbd'.unread = Tail(kbd.unread) /\ kbd'.read = Append(kbd.read, key)
               /\ kbd'.quit <=> ToSet(kbd'.surfaced) \cap {"ESC", "q"} # {}
               /\ \/ /\ kbd.stage = "None" /\ key = "ESC" /\ kbd'.stage = "Escape"
                     /\ kbd'.surfaced = kbd.surfaced /\ kbd'.arrows = kbd.arrows
                  \/ /\ kbd.stage = "None" /\ key # "ESC" /\ kbd'.stage = "None"
                     /\ kbd'.surfaced = Append(kbd.surfaced, key) /\ kbd'.arrows = kbd.arrows
                  \/ /\ kbd.stage = "Escape" /\ key = "[" /\ kbd'.stage = "Bracket"
                     /\ kbd'.surfaced = kbd.surfaced /\ kbd'.arrows = kbd.arrows
                  \/ /\ kbd.stage = "Escape" /\ key # "[" /\ kbd'.stage = "None"
                     /\ kbd'.surfaced = kbd.surfaced \o <<"ESC", key>>
                     /\ kbd'.arrows = kbd.arrows
                  \/ /\ kbd.stage = "Bracket" /\ kbd'.stage = "None"
                     /\ kbd'.surfaced = kbd.surfaced /\ kbd'.arrows = kbd.arrows + 1
<1> DEFINE key  == Head(kbd.unread)
           k    == [kbd EXCEPT !.unread = Tail(@), !.read = Append(@, key)]
           next == FilterKey(k, key)
<1>1. kbd' = [next EXCEPT !.quit = ToSet(next.surfaced) \cap {"ESC", "q"} # {}]
  BY DEF getKey
<1>2. key \in Keys
  BY DEF KeysInv
<1>3. /\ DOMAIN k = DOMAIN kbd /\ k.unread = Tail(kbd.unread)
      /\ k.read = Append(kbd.read, key) /\ k.stage = kbd.stage
      /\ k.surfaced = kbd.surfaced /\ k.arrows = kbd.arrows
  BY DEF KeysInv
<1> HIDE DEF key, k
<1>4. /\ DOMAIN next = DOMAIN k /\ next.unread = k.unread /\ next.read = k.read
      /\ \/ /\ k.stage = "None" /\ key = "ESC" /\ next.stage = "Escape"
            /\ next.surfaced = k.surfaced /\ next.arrows = k.arrows
         \/ /\ k.stage = "None" /\ key # "ESC" /\ next.stage = "None"
            /\ next.surfaced = Append(k.surfaced, key) /\ next.arrows = k.arrows
         \/ /\ k.stage = "Escape" /\ key = "[" /\ next.stage = "Bracket"
            /\ next.surfaced = k.surfaced /\ next.arrows = k.arrows
         \/ /\ k.stage = "Escape" /\ key # "[" /\ next.stage = "None"
            /\ next.surfaced = k.surfaced \o <<"ESC", key>> /\ next.arrows = k.arrows
         \/ /\ k.stage = "Bracket" /\ next.stage = "None"
            /\ next.surfaced = k.surfaced /\ next.arrows = k.arrows + 1
  BY <1>3 DEF FilterKey, KeysInv
<1> HIDE DEF next
<1>5. /\ DOMAIN kbd' = DOMAIN next /\ kbd'.unread = next.unread /\ kbd'.read = next.read
      /\ kbd'.stage = next.stage /\ kbd'.surfaced = next.surfaced
      /\ kbd'.arrows = next.arrows
  BY <1>1, <1>3, <1>4
<1>6. kbd'.quit <=> ToSet(next.surfaced) \cap {"ESC", "q"} # {}
  BY <1>1, <1>3, <1>4 DEF KeysInv
<1>7. kbd'.quit <=> ToSet(kbd'.surfaced) \cap {"ESC", "q"} # {}
  BY <1>5, <1>6
<1> USE DEF key
<1> QED BY <1>2, <1>3, <1>4, <1>5, <1>7

\* Every key that is read or pressed keeps the account of the keys.
LEMMA KeysStep == KeysInv /\ [Next]_vars => KeysInv'
<1> SUFFICES ASSUME KeysInv, [Next]_vars PROVE KeysInv'
  OBVIOUS
<1>1. CASE UNCHANGED kbd
  BY <1>1 DEF KeysInv, KeysKept, Held
<1>2. CASE PressKey
  <2>1. PICK key \in Keys : kbd' = [kbd EXCEPT !.unread = Append(@, key)]
    BY <1>2 DEF PressKey
  <2>2. /\ DOMAIN kbd' = DOMAIN kbd /\ kbd'.unread = Append(kbd.unread, key)
        /\ kbd'.read = kbd.read /\ kbd'.surfaced = kbd.surfaced /\ kbd'.stage = kbd.stage
        /\ kbd'.arrows = kbd.arrows /\ kbd'.quit = kbd.quit
    BY <2>1 DEF KeysInv
  <2>3. kbd'.unread \in Seq(Keys)
    BY <2>1, <2>2 DEF KeysInv
  <2>4. Held' = Held
    BY <2>2 DEF Held
  <2>5. KeysKept'
    <3>1. KeysKept
      BY DEF KeysInv
    <3> QED BY <2>2, <2>4, <3>1 DEF KeysKept
  <2> QED BY <2>2, <2>3, <2>5 DEF KeysInv
<1>3. CASE ReadKey
  <2> DEFINE key == Head(kbd.unread)  n == Len(kbd.read)  read == kbd'.read
  <2>1. /\ key \in Keys
        /\ DOMAIN kbd' = DOMAIN kbd
        /\ kbd'.unread = Tail(kbd.unread) /\ kbd'.read = Append(kbd.read, key)
        /\ kbd'.quit <=> ToSet(kbd'.surfaced) \cap {"ESC", "q"} # {}
        /\ \/ /\ kbd.stage = "None" /\ key = "ESC" /\ kbd'.stage = "Escape"
              /\ kbd'.surfaced = kbd.surfaced /\ kbd'.arrows = kbd.arrows
           \/ /\ kbd.stage = "None" /\ key # "ESC" /\ kbd'.stage = "None"
              /\ kbd'.surfaced = Append(kbd.surfaced, key) /\ kbd'.arrows = kbd.arrows
           \/ /\ kbd.stage = "Escape" /\ key = "[" /\ kbd'.stage = "Bracket"
              /\ kbd'.surfaced = kbd.surfaced /\ kbd'.arrows = kbd.arrows
           \/ /\ kbd.stage = "Escape" /\ key # "[" /\ kbd'.stage = "None"
              /\ kbd'.surfaced = kbd.surfaced \o <<"ESC", key>>
              /\ kbd'.arrows = kbd.arrows
           \/ /\ kbd.stage = "Bracket" /\ kbd'.stage = "None"
              /\ kbd'.surfaced = kbd.surfaced /\ kbd'.arrows = kbd.arrows + 1
    BY <1>3, GetKeyIs DEF ReadKey
  <2>2. kbd.unread # <<>> /\ kbd.unread \in Seq(Keys) /\ kbd.read \in Seq(Keys)
        /\ kbd.surfaced \in Seq(Keys)
    BY <1>3 DEF ReadKey, KeysInv
  <2> HIDE DEF key
  <2>3. kbd'.unread \in Seq(Keys)
    BY <2>1, <2>2
  <2>4. /\ read \in Seq(Keys) /\ n \in Nat /\ Len(read) = n + 1 /\ read[n + 1] = key
        /\ \A i \in 1..n : read[i] = kbd.read[i]
    BY <2>1, <2>2
  <2>5. /\ kbd'.surfaced \in Seq(Keys) /\ Len(kbd.surfaced) \in Nat
        /\ \/ /\ kbd'.surfaced = kbd.surfaced
              /\ ~ (kbd.stage = "None" /\ key # "ESC") /\ ~ (kbd.stage = "Escape" /\ key # "[")
           \/ /\ kbd.stage = "None" /\ key # "ESC"
              /\ Len(kbd'.surfaced) = Len(kbd.surfaced) + 1
              /\ ToSet(kbd'.surfaced) = ToSet(kbd.surfaced) \cup {key}
           \/ /\ kbd.stage = "Escape" /\ key # "["
              /\ Len(kbd'.surfaced) = Len(kbd.surfaced) + 2
              /\ ToSet(kbd'.surfaced) = ToSet(kbd.surfaced) \cup {"ESC", key}
    <3>1. CASE kbd.stage = "None" /\ key # "ESC"
      <4>1. kbd'.surfaced = Append(kbd.surfaced, key)
        BY <2>1, <3>1
      <4>2. /\ kbd'.surfaced \in Seq(Keys) /\ Len(kbd.surfaced) \in Nat
            /\ Len(kbd'.surfaced) = Len(kbd.surfaced) + 1
            /\ ToSet(kbd'.surfaced) = ToSet(kbd.surfaced) \cup {key}
        BY <2>1, <2>2, <4>1, ToSetAppend
      <4> QED BY <3>1, <4>2
    <3>2. CASE kbd.stage = "Escape" /\ key # "["
      <4>1. kbd'.surfaced = kbd.surfaced \o <<"ESC", key>>
        BY <2>1, <3>2
      <4>2. "ESC" \in Keys
        BY DEF Keys
      <4>3. kbd'.surfaced = Append(Append(kbd.surfaced, "ESC"), key)
        BY <2>1, <2>2, <4>1, <4>2
      <4> DEFINE half == Append(kbd.surfaced, "ESC")
      <4>4. /\ half \in Seq(Keys) /\ Len(half) = Len(kbd.surfaced) + 1
            /\ Len(kbd.surfaced) \in Nat
            /\ ToSet(half) = ToSet(kbd.surfaced) \cup {"ESC"}
        BY <2>2, <4>2, ToSetAppend
      <4>5. kbd'.surfaced = Append(half, key)
        BY <4>3
      <4> HIDE DEF half
      <4>6. /\ kbd'.surfaced \in Seq(Keys) /\ Len(kbd'.surfaced) = Len(half) + 1
            /\ ToSet(kbd'.surfaced) = ToSet(half) \cup {key}
        BY <2>1, <4>4, <4>5, ToSetAppend
      <4>7. /\ Len(kbd'.surfaced) = Len(kbd.surfaced) + 2
            /\ ToSet(kbd'.surfaced) = ToSet(kbd.surfaced) \cup {"ESC", key}
        BY <4>4, <4>6
      <4> QED BY <3>2, <4>4, <4>6, <4>7
    <3>3. CASE ~ (kbd.stage = "None" /\ key # "ESC") /\ ~ (kbd.stage = "Escape" /\ key # "[")
      BY <2>1, <2>2, <3>3
    <3> QED BY <3>1, <3>2, <3>3
  <2>6. kbd.stage \in {"None", "Escape", "Bracket"} /\ kbd.arrows \in Nat
    BY DEF KeysInv
  <2>7. /\ kbd'.stage \in {"None", "Escape", "Bracket"} /\ kbd'.arrows \in Nat
        /\ kbd'.stage # "None" => Len(read) > 0
        /\ kbd'.stage = "Escape" => read[Len(read)] = "ESC"
        /\ kbd'.stage = "Bracket" => /\ Len(read) > 1 /\ read[Len(read)] = "["
                                     /\ read[Len(read) - 1] = "ESC"
    <3>1. CASE kbd'.stage = "None"
      BY <2>1, <2>6, <3>1
    <3>2. CASE kbd'.stage = "Escape" /\ key = "ESC"
      BY <2>1, <2>4, <2>6, <3>2
    <3>3. CASE kbd'.stage = "Bracket" /\ key = "[" /\ kbd.stage = "Escape"
      <4>1. n > 0 /\ kbd.read[n] = "ESC" /\ kbd'.arrows = kbd.arrows
        BY <2>1, <3>3 DEF KeysInv
      <4>2. read[n] = "ESC"
        BY <2>4, <4>1
      <4> QED BY <2>4, <2>6, <3>3, <4>1, <4>2
    <3> QED BY <2>1, <3>1, <3>2, <3>3
  <2>8. KeysKept'
    <3>1. Len(read) = Len(kbd'.surfaced) + 3 * kbd'.arrows + Held'
      <4> DEFINE s == Len(kbd.surfaced)
      <4>1. n = s + 3 * kbd.arrows + Held
        BY DEF KeysInv, KeysKept
      <4>2. \/ Len(kbd'.surfaced) = s /\ kbd'.arrows = kbd.arrows /\ Held' = Held + 1
            \/ Len(kbd'.surfaced) = s + 1 /\ kbd'.arrows = kbd.arrows /\ Held' = Held
            \/ /\ Len(kbd'.surfaced) = s + 2 /\ kbd'.arrows = kbd.arrows
               /\ Held = 1 /\ Held' = 0
            \/ Len(kbd'.surfaced) = s /\ kbd'.arrows = kbd.arrows + 1 /\ Held = 2 /\ Held' = 0
        <5>1. CASE kbd.stage = "None" /\ key = "ESC"
          <6>1. /\ kbd'.stage = "Escape" /\ kbd'.surfaced = kbd.surfaced
                /\ kbd'.arrows = kbd.arrows
            BY <2>1, <5>1
          <6> QED BY <5>1, <6>1 DEF Held
        <5>2. CASE kbd.stage = "None" /\ key # "ESC"
          <6>1. kbd'.stage = "None" /\ kbd'.arrows = kbd.arrows
            BY <2>1, <5>2
          <6>2. Len(kbd'.surfaced) = s + 1
            BY <2>5, <5>2
          <6> QED BY <5>2, <6>1, <6>2 DEF Held
        <5>3. CASE kbd.stage = "Escape" /\ key = "["
          <6>1. /\ kbd'.stage = "Bracket" /\ kbd'.surfaced = kbd.surfaced
                /\ kbd'.arrows = kbd.arrows
            BY <2>1, <5>3
          <6> QED BY <5>3, <6>1 DEF Held
        <5>4. CASE kbd.stage = "Escape" /\ key # "["
          <6>1. kbd'.stage = "None" /\ kbd'.arrows = kbd.arrows
            BY <2>1, <5>4
          <6>2. Len(kbd'.surfaced) = s + 2
            BY <2>5, <5>4
          <6> QED BY <5>4, <6>1, <6>2 DEF Held
        <5>5. CASE kbd.stage = "Bracket"
          <6>1. /\ kbd'.stage = "None" /\ kbd'.surfaced = kbd.surfaced
                /\ kbd'.arrows = kbd.arrows + 1
            BY <2>1, <5>5
          <6> QED BY <5>5, <6>1 DEF Held
        <5> QED BY <2>6, <5>1, <5>2, <5>3, <5>4, <5>5
      <4>3. s \in Nat /\ Held \in 0..2
        BY <2>5, <2>6 DEF Held
      <4>4. n \in Nat /\ Len(read) = n + 1 /\ kbd.arrows \in Nat
        BY <2>4, <2>6
      <4> DEFINE a == kbd.arrows  h == Held  l == Len(kbd'.surfaced)  b == kbd'.arrows
                 g == Held'  m == Len(read)
      <4>5. /\ m = n + 1 /\ n = s + 3 * a + h
            /\ s \in Nat /\ a \in Nat /\ h \in 0..2 /\ n \in Nat
            /\ \/ l = s /\ b = a /\ g = h + 1
               \/ l = s + 1 /\ b = a /\ g = h
               \/ l = s + 2 /\ b = a /\ h = 1 /\ g = 0
               \/ l = s /\ b = a + 1 /\ h = 2 /\ g = 0
        BY <4>1, <4>2, <4>3, <4>4
      <4> HIDE DEF s, n, a, h, l, b, g, m
      <4>6. m = l + 3 * b + g
        BY <4>5
      <4> QED BY <4>6 DEF l, b, g, m
    <3>2. ASSUME "ESC" \in ToSet(kbd'.surfaced)
          PROVE  \E i \in 1..(Len(read) - 1) : read[i] = "ESC" /\ read[i + 1] # "["
      <4>1. CASE "ESC" \in ToSet(kbd.surfaced)
        <5>1. PICK i \in 1..(n - 1) : kbd.read[i] = "ESC" /\ kbd.read[i + 1] # "["
          BY <4>1 DEF KeysInv, KeysKept
        <5> QED BY <2>4, <5>1
      <4>2. CASE "ESC" \notin ToSet(kbd.surfaced)
        <5>1. kbd.stage = "Escape" /\ key # "["
          BY <2>5, <3>2, <4>2
        <5>2. n > 0 /\ kbd.read[n] = "ESC"
          BY <5>1 DEF KeysInv
        <5> QED BY <2>4, <5>1, <5>2
      <4> QED BY <4>1, <4>2
    <3>3. ASSUME ~ kbd'.quit, NEW i \in DOMAIN read, read[i] = "q"
          PROVE  i > 2 /\ read[i - 1] = "[" /\ read[i - 2] = "ESC"
      <4>1. ToSet(kbd'.surfaced) \cap {"ESC", "q"} = {}
        BY <2>1, <3>3
      <4>2. ToSet(kbd.surfaced) \cap {"ESC", "q"} = {}
        BY <2>5, <4>1
      <4>3. i \in 1..(n + 1)
        BY <2>4, <3>3
      <4>4. CASE i <= n
        <5>1. kbd.read[i] = "q" /\ i \in DOMAIN kbd.read
          BY <2>2, <2>4, <3>3, <4>3, <4>4
        <5>2. ~ kbd.quit
          BY <4>2 DEF KeysInv
        <5>3. i > 2 /\ kbd.read[i - 1] = "[" /\ kbd.read[i - 2] = "ESC"
          BY <5>1, <5>2 DEF KeysInv, KeysKept
        <5>4. i - 1 \in 1..n /\ i - 2 \in 1..n
          BY <2>4, <4>3, <4>4, <5>3
        <5>5. read[i - 1] = kbd.read[i - 1] /\ read[i - 2] = kbd.read[i - 2]
          BY <2>4, <5>4
        <5> QED BY <5>3, <5>5
      <4>5. CASE i = n + 1
        <5>1. key = "q"
          BY <2>4, <3>3, <4>5
        <5>2. kbd.stage = "Bracket"
          BY <2>5, <2>6, <4>1, <5>1
        <5>3. n > 1 /\ kbd.read[n] = "[" /\ kbd.read[n - 1] = "ESC"
          BY <5>2 DEF KeysInv
        <5>4. i > 2 /\ i - 1 = n /\ i - 2 = n - 1 /\ n \in 1..n /\ n - 1 \in 1..n
          BY <2>4, <4>5, <5>3
        <5>5. read[n] = kbd.read[n] /\ read[n - 1] = kbd.read[n - 1]
          BY <2>4, <5>4
        <5> QED BY <5>3, <5>4, <5>5
      <4> QED BY <2>4, <4>3, <4>4, <4>5
    <3> QED BY <3>1, <3>2, <3>3 DEF KeysKept
  <2>9. DOMAIN kbd' = {"unread", "read", "stage", "surfaced", "arrows", "quit"}
    BY <2>1 DEF KeysInv
  <2> QED BY <2>1, <2>3, <2>4, <2>5, <2>7, <2>8, <2>9 DEF KeysInv
<1> QED BY <1>1, <1>2, <1>3, KbdChanges

\* An arrow never quits and no other key is lost, for any keys in any bursts
\* (CsvKeyActionTarget::consumeEscapeSequence, SteeringFilterKeyboard::getKey).
THEOREM KeysAccounted == Spec => []KeysKept
<1>1. Init => KeysInv
  BY DEF Init, KeysInv, KeysKept, Held, ToSet
<1>2. KeysInv => KeysKept
  BY DEF KeysInv
<1> QED BY <1>1, <1>2, KeysStep, PTL DEF Spec

-----------------------------------------------------------------------------
(* Finding a device.                                                       *)

\* A set of numbers has a least member.
LEMMA LeastMember ==
    ASSUME NEW S \in SUBSET Nat, S # {}
    PROVE  /\ \E x \in S : \A y \in S : x <= y
           /\ Min(S) \in S /\ \A y \in S : Min(S) <= y
<1> DEFINE Less == {pair \in Nat \X Nat : pair[1] < pair[2]}
<1>1. IsWellFoundedOn(Less, Nat)
  BY NatLessThanWellFounded DEF OpToRel
<1>2. \A a, b \in Nat : a < b => <<a, b>> \in Less
  <2>1. TAKE a, b \in Nat
  <2>2. HAVE a < b
  <2>3. <<a, b>>[1] = a /\ <<a, b>>[2] = b /\ <<a, b>> \in Nat \X Nat
    OBVIOUS
  <2> QED BY <2>2, <2>3
<1> HIDE DEF Less
<1>3. PICK x \in S : \A y \in S : ~(<<y, x>> \in Less)
  BY <1>1, WFMin
<1>4. \A y \in S : x <= y
  <2>1. TAKE y \in S
  <2>2. x \in Nat /\ y \in Nat
    OBVIOUS
  <2>3. ~(y < x)
    BY <1>2, <1>3, <2>2
  <2> QED BY <2>2, <2>3
<1> QED BY <1>4 DEF Min

\* The table drainPendingDeduplicated() fills, from nothing to the first n packets.
Table(p, n, f) == f = [k \in 0..n |-> IF k = 0 THEN <<>> ELSE Added(f[k - 1], p[k])]

\* The recursion of Devices is one over a table that exists.
LEMMA TableExists ==
    ASSUME NEW p \in Seq(Packets), NEW n \in 0..Len(p)
    PROVE  \E f : Table(p, n, f)
<1> DEFINE Bad == {k \in 0..Len(p) : ~ \E f : Table(p, k, f)}
<1>1. SUFFICES ASSUME Bad # {} PROVE FALSE
  OBVIOUS
<1>2. PICK m \in Bad : \A k \in Bad : m <= k
  <2>1. Bad \in SUBSET Nat
    OBVIOUS
  <2> HIDE DEF Bad
  <2> QED BY <1>1, <2>1, LeastMember
<1>3. m \in 0..Len(p) /\ Len(p) \in Nat /\ ~ \E f : Table(p, m, f)
  OBVIOUS
<1>4. CASE m = 0
  <2> DEFINE f == [k \in 0..0 |-> <<>>]
  <2>1. f = [k \in 0..0 |-> IF k = 0 THEN <<>> ELSE Added(f[k - 1], p[k])]
    OBVIOUS
  <2> QED BY <1>3, <1>4, <2>1 DEF Table
<1>5. CASE m > 0
  <2>1. m - 1 \in 0..Len(p) /\ m - 1 \notin Bad
    BY <1>2, <1>3, <1>5
  <2>2. PICK f : Table(p, m - 1, f)
    BY <2>1
  <2>3. \A k \in 0..(m - 1) : f[k] = IF k = 0 THEN <<>> ELSE Added(f[k - 1], p[k])
    BY <2>2 DEF Table
  <2> DEFINE g == [k \in 0..m |-> IF k < m THEN f[k] ELSE Added(f[m - 1], p[m])]
  <2>4. ASSUME NEW k \in 0..m
        PROVE  g[k] = IF k = 0 THEN <<>> ELSE Added(g[k - 1], p[k])
    <3>1. CASE k = m
      <4>1. g[k] = Added(f[m - 1], p[m]) /\ g[k - 1] = f[m - 1]
        BY <1>3, <1>5, <3>1
      <4> QED BY <1>5, <3>1, <4>1
    <3>2. CASE k < m /\ k > 0
      <4>1. k \in 0..(m - 1) /\ k - 1 \in 0..m /\ k - 1 < m
        BY <1>3, <3>2
      <4>2. g[k] = f[k] /\ g[k - 1] = f[k - 1]
        BY <3>2, <4>1
      <4> QED BY <2>3, <3>2, <4>1, <4>2
    <3>3. CASE k = 0
      <4>1. 0 \in 0..(m - 1) /\ g[0] = f[0]
        BY <1>3, <1>5, <3>3
      <4> QED BY <2>3, <3>3, <4>1
    <3> QED BY <1>3, <3>1, <3>2, <3>3
  <2>5. g = [k \in 0..m |-> g[k]]
    OBVIOUS
  <2> HIDE DEF g
  <2>6. Table(p, m, g)
    BY <2>4, <2>5 DEF Table
  <2> QED BY <1>3, <2>6
<1> QED BY <1>3, <1>4, <1>5

\* Row r names each address of the first n packets, and each once.
Deduplicated(p, n, r) ==
    /\ r \in Seq(Addresses)
    /\ ToSet(r) = {p[k].from : k \in 1..n}
    /\ \A i, j \in DOMAIN r : r[i] = r[j] => i = j

\* One packet more: its address is added unless it is there.
LEMMA AddedKeeps ==
    ASSUME NEW p \in Seq(Packets), NEW n \in 1..Len(p), NEW r, Deduplicated(p, n - 1, r)
    PROVE  Deduplicated(p, n, Added(r, p[n]))
<1>1. p[n] \in Packets /\ p[n].from \in Addresses /\ n \in Nat
  <2>1. p[n] \in Packets
    OBVIOUS
  <2> QED BY <2>1 DEF Packets
<1>2. {p[k].from : k \in 1..n} = {p[k].from : k \in 1..(n - 1)} \cup {p[n].from}
  BY <1>1
<1>3. CASE p[n].from \in ToSet(r)
  BY <1>2, <1>3 DEF Deduplicated, Added
<1>4. CASE p[n].from \notin ToSet(r)
  <2> DEFINE s == Append(r, p[n].from)
  <2>1. Added(r, p[n]) = s
    BY <1>4 DEF Added
  <2>2. r \in Seq(Addresses)
    BY DEF Deduplicated
  <2>3. s \in Seq(Addresses) /\ ToSet(s) = ToSet(r) \cup {p[n].from}
    BY <1>1, <2>2, ToSetAppend
  <2>4. /\ Len(r) \in Nat /\ DOMAIN s = 1..(Len(r) + 1) /\ s[Len(r) + 1] = p[n].from
        /\ \A i \in 1..Len(r) : s[i] = r[i] /\ r[i] \in ToSet(r)
    BY <1>1, <2>2 DEF ToSet
  <2>5. \A i, j \in DOMAIN s : s[i] = s[j] => i = j
    <3> SUFFICES ASSUME NEW i \in 1..(Len(r) + 1), NEW j \in 1..(Len(r) + 1), s[i] = s[j]
                 PROVE  i = j
      BY <2>4
    <3> HIDE DEF s
    <3>1. CASE i <= Len(r) /\ j <= Len(r)
      <4>1. i \in DOMAIN r /\ j \in DOMAIN r /\ r[i] = r[j]
        BY <2>2, <2>4, <3>1
      <4> QED BY <4>1 DEF Deduplicated
    <3>2. CASE i <= Len(r) /\ j = Len(r) + 1
      BY <1>4, <2>4, <3>2
    <3>3. CASE j <= Len(r) /\ i = Len(r) + 1
      BY <1>4, <2>4, <3>3
    <3> QED BY <2>4, <3>1, <3>2, <3>3
  <2> HIDE DEF s
  <2> QED BY <1>2, <2>1, <2>3, <2>5 DEF Deduplicated
<1> QED BY <1>3, <1>4

\* drainPendingDeduplicated() returns each address it heard, and each once.
LEMMA DevicesAre ==
    ASSUME NEW d, d.pending \in Seq(Packets)
    PROVE  Deduplicated(d.pending, Len(d.pending), Devices(d))
<1> DEFINE p == d.pending  f == CHOOSE f : Table(p, Len(p), f)
<1>1. Table(p, Len(p), f)
  <2>1. \E g : Table(p, Len(p), g)
    BY TableExists
  <2> HIDE DEF Table
  <2> QED BY <2>1
<1>2. Devices(d) = f[Len(p)]
  BY DEF Devices, Table
<1>3. Len(p) \in Nat
  OBVIOUS
<1> HIDE DEF p, f
<1>4. p \in Seq(Packets)
  BY DEF p
<1>5. \A k \in 0..Len(p) : f[k] = IF k = 0 THEN <<>> ELSE Added(f[k - 1], p[k])
  BY <1>1 DEF Table
<1> DEFINE Bad == {k \in 0..Len(p) : ~ Deduplicated(p, k, f[k])}
<1>6. CASE Bad = {}
  BY <1>2, <1>3, <1>6 DEF p
<1>7. CASE Bad # {}
  <2>1. PICK m \in Bad : \A k \in Bad : m <= k
    <3>1. Bad \in SUBSET Nat
      OBVIOUS
    <3> HIDE DEF Bad
    <3> QED BY <1>7, <3>1, LeastMember
  <2>2. m \in 0..Len(p) /\ ~ Deduplicated(p, m, f[m])
    OBVIOUS
  <2>3. CASE m = 0
    <3>1. f[0] = <<>>
      BY <1>5, <1>3
    <3>2. Deduplicated(p, 0, <<>>)
      BY DEF Deduplicated, ToSet
    <3> QED BY <2>2, <2>3, <3>1, <3>2
  <2>4. CASE m > 0
    <3>1. m \in 1..Len(p) /\ m - 1 \in 0..Len(p) /\ m - 1 \notin Bad
      BY <1>3, <2>1, <2>2, <2>4
    <3>2. Deduplicated(p, m - 1, f[m - 1]) /\ f[m] = Added(f[m - 1], p[m])
      BY <1>5, <2>2, <2>4, <3>1
    <3> QED BY <1>4, <2>2, <3>1, <3>2, AddedKeeps
  <2> QED BY <1>3, <2>2, <2>3, <2>4
<1> QED BY <1>6, <1>7

\* main() before it has searched for a device, which a run does at most once.
BeforeSearch == {"start", "check", "discover", "status", "auto"}
Searching == {"discovering", "locating", "finding"}

\* What a run ends with.
LEMMA FinishIs == (Finish(0) => pc' = "ok") /\ (Finish(1) => pc' = "failed")
BY DEF Finish

\* What changes the socket, and when a search begins.
LEMMA DiscChanges ==
    [Next]_vars =>
       \/ /\ UNCHANGED << disc, heard >>
          /\ pc' # pc => pc' \notin Searching /\ (pc' \in BeforeSearch => pc \in BeforeSearch)
       \/ pc \in BeforeSearch /\ pc' \notin BeforeSearch /\ disc' = NewPoll /\ UNCHANGED heard
       \/ Poll /\ UNCHANGED pc
       \/ EndPoll /\ pc' \notin BeforeSearch \cup Searching /\ disc' = NewPoll /\ UNCHANGED heard
       \/ Broadcast /\ UNCHANGED pc
<1> DEFINE Quiet == /\ UNCHANGED << disc, heard >>
                    /\ pc' # pc => /\ pc' \notin Searching
                                   /\ pc' \in BeforeSearch => pc \in BeforeSearch
           Begins == /\ pc \in BeforeSearch /\ pc' \notin BeforeSearch
                     /\ disc' = NewPoll /\ UNCHANGED heard
           Ends == /\ EndPoll /\ pc' \notin BeforeSearch \cup Searching
                   /\ disc' = NewPoll /\ UNCHANGED heard
<1> SUFFICES ASSUME [Next]_vars
             PROVE  Quiet \/ Begins \/ (Poll /\ UNCHANGED pc) \/ Ends
                    \/ (Broadcast /\ UNCHANGED pc)
  OBVIOUS
<1>1. CASE Start \/ Dispatch \/ Scan
  <2>1. Runner(opts) \notin Searching
    BY DEF Runner, runTransport, Searching
  <2> QED BY <1>1, <2>1 DEF Start, Dispatch, Scan, Finish, BeforeSearch, Searching
<1>2. CASE Discover \/ Status
  BY <1>2 DEF Discover, Status, StartPoll, Finish, BeforeSearch, Searching
<1>3. CASE autoDiscoverAndAssign
  <2>1. runTransport("usb:path") = "live"
    BY DEF runTransport, isTcp, isDemo, isUsb
  <2> QED BY <1>3, <2>1 DEF autoDiscoverAndAssign, StartPoll, Finish, BeforeSearch, Searching
<1>4. CASE Poll
  BY <1>4 DEF Poll
<1>5. CASE EndPoll
  <2>1. runTransport("tcp:host") = "live"
    BY DEF runTransport, isTcp, isDemo, isUsb
  <2>2. disc' = NewPoll /\ UNCHANGED heard
    BY <1>5 DEF EndPoll
  <2>3. pc' \in {"ok", "failed", "console", "live"}
    BY <1>5, <2>1 DEF EndPoll, Finish
  <2> QED BY <1>5, <2>2, <2>3 DEF BeforeSearch, Searching
<1>6. CASE OpenConsole \/ ReadStatus \/ Provision \/ OpenReplay \/ OpenCsvReplay \/ OpenLive
             \/ RunBle \/ OpenInteractive \/ TickRow
  <2>1. UNCHANGED << disc, heard >>
    BY <1>6 DEF OpenConsole, ReadStatus, Provision, OpenReplay, OpenCsvReplay, OpenLive,
                RunBle, OpenInteractive, TickRow
  <2>2. pc' = pc \/ pc' \in {"ok", "failed", "reading", "frames", "rows", "lines", "tick"}
    BY <1>6 DEF OpenConsole, ReadStatus, Provision, OpenReplay, OpenCsvReplay, OpenLive,
                RunBle, OpenInteractive, TickRow, Finish
  <2> QED BY <2>1, <2>2 DEF BeforeSearch, Searching
<1>7. CASE Sleep \/ Dispatched \/ EndFrames \/ NextRecorded \/ NextRow \/ NextDemo \/ NextLive
             \/ EndOfSource \/ Traffic \/ ReadKey \/ PressKey
  <2>1. UNCHANGED << disc, heard >>
    BY <1>7 DEF Sleep, Dispatched, EndFrames, NextRecorded, NextRow, NextDemo, NextLive,
                EndOfSource, Traffic, ReadKey, PressKey, Take
  <2>2. pc' = pc \/ pc' = "ok"
    BY <1>7 DEF Sleep, Dispatched, EndFrames, NextRecorded, NextRow, NextDemo, NextLive,
                EndOfSource, Traffic, ReadKey, PressKey, Take, Finish
  <2> QED BY <2>1, <2>2 DEF BeforeSearch, Searching
<1>8. CASE Broadcast
  BY <1>8 DEF Broadcast
<1>9. CASE Interrupt \/ Exited \/ UNCHANGED vars
  BY <1>9 DEF Interrupt, Exited, vars, BeforeSearch, Searching
<1> HIDE DEF Quiet, Begins, Ends
<1> QED BY <1>1, <1>2, <1>3, <1>4, <1>5, <1>6, <1>7, <1>8, <1>9 DEF Next, Main, World

\* What the socket has not handed on is the end of what was heard; of the rest, the packets
\* that parse are pending, and nothing else is.
SearchInv ==
    /\ DOMAIN disc = {"queue", "pending", "remaining", "draining"}
    /\ heard \in Seq(Packets) /\ disc.queue \in Seq(Packets) /\ disc.pending \in Seq(Packets)
    /\ pc \in BeforeSearch => heard = <<>>
    /\ pc \in Searching =>
          LET drained == Len(heard) - Len(disc.queue)
          IN  /\ drained >= 0
              /\ \A i \in 1..Len(disc.queue) : disc.queue[i] = heard[drained + i]
              /\ \A i \in 1..drained : heard[i].parses => heard[i] \in ToSet(disc.pending)
              /\ \A k \in DOMAIN disc.pending :
                    disc.pending[k].parses /\ disc.pending[k] \in ToSet(heard)

\* A step of poll() leaves the packets alone, or takes the first from the socket.
LEMMA PollStepIs ==
    ASSUME SearchInv, disc' = PollStep(disc)
    PROVE  /\ DOMAIN disc' = DOMAIN disc
           /\ \/ disc'.queue = disc.queue /\ disc'.pending = disc.pending
              \/ /\ disc.queue # <<>> /\ Head(disc.queue).parses /\ disc'.queue = Tail(disc.queue)
                 /\ disc'.pending = Append(disc.pending, Head(disc.queue))
              \/ /\ disc.queue # <<>> /\ ~ Head(disc.queue).parses
                 /\ disc'.queue = Tail(disc.queue) /\ disc'.pending = disc.pending
<1>1. DOMAIN disc = {"queue", "pending", "remaining", "draining"}
  BY DEF SearchInv
<1>2. CASE disc.draining /\ disc.queue = <<>>
  <2>1. disc' = [disc EXCEPT !.draining = FALSE]
    BY <1>2 DEF PollStep, tryReceive
  <2> QED BY <1>1, <2>1
<1>3. CASE disc.draining /\ disc.queue # <<>> /\ Head(disc.queue).parses
  <2>1. disc' = [disc EXCEPT !.pending = Append(@, Head(disc.queue)), !.queue = Tail(@)]
    BY <1>3 DEF PollStep, tryReceive
  <2> QED BY <1>1, <1>3, <2>1
<1>4. CASE disc.draining /\ disc.queue # <<>> /\ ~ Head(disc.queue).parses
  <2>1. disc' = [disc EXCEPT !.queue = Tail(@), !.draining = FALSE]
    BY <1>4 DEF PollStep, tryReceive
  <2> QED BY <1>1, <1>4, <2>1
<1>5. CASE ~ disc.draining
  <2>1. \/ disc' = [disc EXCEPT !.draining = TRUE]
        \/ disc' = [disc EXCEPT !.remaining = @ - 1]
    BY <1>5 DEF PollStep
  <2> QED BY <1>1, <2>1
<1> QED BY <1>2, <1>3, <1>4, <1>5

\* Every packet that comes and every step of poll() keeps the account of the packets.
LEMMA SearchStep == SearchInv /\ [Next]_vars => SearchInv'
<1> SUFFICES ASSUME SearchInv, [Next]_vars PROVE SearchInv'
  OBVIOUS
<1> DEFINE q == disc.queue  p == disc.pending  n == Len(heard) - Len(disc.queue)
<1>1. /\ DOMAIN disc = {"queue", "pending", "remaining", "draining"}
      /\ heard \in Seq(Packets) /\ q \in Seq(Packets) /\ p \in Seq(Packets)
  BY DEF SearchInv
<1>2. CASE /\ UNCHANGED << disc, heard >>
           /\ pc' # pc => pc' \notin Searching /\ (pc' \in BeforeSearch => pc \in BeforeSearch)
  BY <1>2 DEF SearchInv
<1>3. CASE \/ pc \in BeforeSearch /\ pc' \notin BeforeSearch /\ disc' = NewPoll
              /\ UNCHANGED heard
           \/ EndPoll /\ pc' \notin BeforeSearch \cup Searching /\ disc' = NewPoll
              /\ UNCHANGED heard
  <2>1. disc' = NewPoll /\ heard' = heard /\ pc' \notin BeforeSearch
        /\ (heard = <<>> \/ pc' \notin Searching)
    BY <1>3 DEF SearchInv
  <2>2. /\ DOMAIN disc' = {"queue", "pending", "remaining", "draining"}
        /\ disc'.queue = <<>> /\ disc'.pending = <<>>
    BY <2>1 DEF NewPoll
  <2>3. <<>> \in Seq(Packets) /\ Len(<<>>) = 0 /\ DOMAIN <<>> = {}
    OBVIOUS
  <2>4. CASE heard = <<>>
    BY <1>1, <2>1, <2>2, <2>3, <2>4 DEF SearchInv
  <2>5. CASE pc' \notin Searching
    BY <1>1, <2>1, <2>2, <2>3, <2>5 DEF SearchInv
  <2> QED BY <2>1, <2>4, <2>5
<1>4. CASE Poll /\ UNCHANGED pc
  <2>1. disc' = PollStep(disc) /\ heard' = heard /\ pc' = pc /\ pc \in Searching
    BY <1>4 DEF Poll, Polling, Searching
  <2>2. /\ n >= 0 /\ n \in Int
        /\ \A i \in 1..Len(q) : q[i] = heard[n + i]
        /\ \A i \in 1..n : heard[i].parses => heard[i] \in ToSet(p)
        /\ \A k \in DOMAIN p : p[k].parses /\ p[k] \in ToSet(heard)
    BY <1>1, <2>1 DEF SearchInv
  <2>3. CASE disc'.queue = q /\ disc'.pending = p
    <3>1. DOMAIN disc' = DOMAIN disc
      BY <2>1, PollStepIs
    <3> QED BY <1>1, <2>1, <2>2, <2>3, <3>1 DEF SearchInv
  <2>4. CASE /\ q # <<>> /\ disc'.queue = Tail(q)
             /\ \/ Head(q).parses /\ disc'.pending = Append(p, Head(q))
                \/ ~ Head(q).parses /\ disc'.pending = p
    <3> DEFINE np == disc'.pending  nq == disc'.queue
    <3>1. /\ Head(q) \in Packets /\ Len(q) \in Nat /\ Len(q) > 0 /\ Head(q) = q[1]
          /\ nq \in Seq(Packets) /\ Len(nq) = Len(q) - 1
          /\ \A i \in 1..Len(nq) : nq[i] = q[i + 1]
      BY <1>1, <2>4
    <3>2. heard[n + 1] = Head(q) /\ n + 1 \in 1..Len(heard) /\ Len(heard) \in Nat
      BY <1>1, <2>2, <3>1
    <3>3. np \in Seq(Packets) /\ ToSet(p) \subseteq ToSet(np)
          /\ (Head(q).parses => Head(q) \in ToSet(np))
      <4>1. CASE Head(q).parses /\ np = Append(p, Head(q))
        <5>1. /\ Append(p, Head(q)) \in Seq(Packets)
              /\ ToSet(Append(p, Head(q))) = ToSet(p) \cup {Head(q)}
          BY <1>1, <3>1, ToSetAppend
        <5> QED BY <4>1, <5>1
      <4>2. CASE ~ Head(q).parses /\ np = p
        BY <1>1, <4>2
      <4> QED BY <2>4, <4>1, <4>2
    <3>4. \A k \in DOMAIN np : np[k].parses /\ np[k] \in ToSet(heard)
      <4>1. CASE Head(q).parses /\ np = Append(p, Head(q))
        <5>1. Head(q) \in ToSet(heard)
          BY <1>1, <3>2 DEF ToSet
        <5>2. DOMAIN p = 1..Len(p) /\ Len(p) \in Nat /\ DOMAIN np = 1..(Len(p) + 1)
              /\ np[Len(p) + 1] = Head(q) /\ \A k \in 1..Len(p) : np[k] = p[k]
          BY <1>1, <3>1, <4>1
        <5> HIDE DEF np, q, p
        <5>3. ASSUME NEW k \in DOMAIN np PROVE np[k].parses /\ np[k] \in ToSet(heard)
          <6>1. CASE k = Len(p) + 1
            BY <4>1, <5>1, <5>2, <6>1
          <6>2. CASE k \in DOMAIN p
            BY <2>2, <5>2, <6>2
          <6> QED BY <5>2, <5>3, <6>1, <6>2
        <5> QED BY <5>3
      <4>2. CASE np = p
        BY <2>2, <4>2
      <4> QED BY <2>4, <4>1, <4>2
    <3>5. Len(heard) - Len(nq) = n + 1 /\ n + 1 >= 0
      BY <1>1, <2>2, <3>1, <3>2
    <3>6. \A i \in 1..Len(nq) : nq[i] = heard[n + 1 + i]
      <4>1. TAKE i \in 1..Len(nq)
      <4>2. i + 1 \in 1..Len(q) /\ nq[i] = q[i + 1] /\ n + 1 + i = n + (i + 1)
        BY <2>2, <3>1
      <4> QED BY <2>2, <4>2
    <3>7. \A i \in 1..(n + 1) : heard[i].parses => heard[i] \in ToSet(np)
      <4>1. TAKE i \in 1..(n + 1)
      <4>2. CASE i = n + 1
        BY <3>2, <3>3, <4>2
      <4>3. CASE i \in 1..n
        BY <2>2, <3>3, <4>3
      <4> QED BY <2>2, <4>2, <4>3
    <3>8. DOMAIN disc' = DOMAIN disc
      BY <2>1, PollStepIs
    <3>9. pc \notin BeforeSearch
      BY <2>1 DEF Searching, BeforeSearch
    <3> HIDE DEF np, nq, n
    <3> QED BY <1>1, <2>1, <3>1, <3>3, <3>4, <3>5, <3>6, <3>7, <3>8, <3>9
            DEF SearchInv, np, nq
  <2> QED BY <2>1, <2>3, <2>4, PollStepIs
<1>5. CASE Broadcast /\ UNCHANGED pc
  <2>1. PICK x \in Packets : disc' = [disc EXCEPT !.queue = Append(@, x)]
                             /\ heard' = Append(heard, x)
    BY <1>5 DEF Broadcast
  <2>2. /\ DOMAIN disc' = DOMAIN disc /\ disc'.queue = Append(q, x) /\ disc'.pending = p
        /\ pc' = pc /\ pc \in Searching
    BY <1>1, <1>5, <2>1 DEF Broadcast, Polling, Searching
  <2>3. /\ n >= 0 /\ n \in Int
        /\ \A i \in 1..Len(q) : q[i] = heard[n + i]
        /\ \A i \in 1..n : heard[i].parses => heard[i] \in ToSet(p)
        /\ \A k \in DOMAIN p : p[k].parses /\ p[k] \in ToSet(heard)
    BY <1>1, <2>2 DEF SearchInv
  <2> DEFINE nq == disc'.queue  nh == heard'
  <2>4. /\ nq \in Seq(Packets) /\ nh \in Seq(Packets) /\ Len(nq) = Len(q) + 1
        /\ Len(nh) = Len(heard) + 1 /\ Len(q) \in Nat /\ Len(heard) \in Nat
        /\ nq[Len(q) + 1] = x /\ nh[Len(heard) + 1] = x
        /\ \A i \in 1..Len(q) : nq[i] = q[i]
        /\ \A i \in 1..Len(heard) : nh[i] = heard[i]
        /\ ToSet(heard) \subseteq ToSet(nh)
    BY <1>1, <2>1, <2>2, ToSetAppend
  <2>5. Len(nh) - Len(nq) = n
    BY <2>4
  <2>6. \A i \in 1..Len(nq) : nq[i] = nh[n + i]
    <3>1. TAKE i \in 1..Len(nq)
    <3>2. n \in Nat /\ Len(heard) = n + Len(q) /\ Len(q) \in Nat
      BY <2>3, <2>4
    <3> HIDE DEF n, nh, nq
    <3>3. CASE i = Len(q) + 1
      <4>1. n + i = Len(heard) + 1
        BY <3>3, <3>2
      <4> QED BY <2>4, <3>3, <4>1
    <3>4. CASE i \in 1..Len(q)
      <4>1. n + i \in 1..Len(heard)
        BY <3>4, <3>2
      <4> QED BY <2>3, <2>4, <3>4, <4>1
    <3> QED BY <2>4, <3>3, <3>4
  <2>7. \A i \in 1..n : nh[i].parses => nh[i] \in ToSet(p)
    <3>1. \A i \in 1..n : i \in 1..Len(heard)
      BY <2>3, <2>4
    <3> QED BY <2>3, <2>4, <3>1
  <2>8. \A k \in DOMAIN p : p[k].parses /\ p[k] \in ToSet(nh)
    BY <2>3, <2>4
  <2>9. pc \notin BeforeSearch
    BY <2>2 DEF Searching, BeforeSearch
  <2> HIDE DEF nq, nh, n
  <2> QED BY <1>1, <2>2, <2>3, <2>4, <2>5, <2>6, <2>7, <2>8, <2>9 DEF SearchInv, nq, nh
<1> QED BY <1>2, <1>3, <1>4, <1>5, DiscChanges

\* poll() returns every address once, each of a packet it could parse, and comes back empty
\* only if every packet it could parse still waits in the socket, however the packets of
\* several devices and of strangers fall between its windows (UDPDiscovery::tryReceive,
\* drainPendingDeduplicated).
THEOREM SearchFaithful == Spec => DevicesFound
<1>1. Init => SearchInv
  BY DEF Init, SearchInv, NewPoll, BeforeSearch, Searching
<1>2. ASSUME SearchInv, EndPoll
      PROVE  /\ \A i, j \in DOMAIN found' : found'[i] = found'[j] => i = j
             /\ \A a \in ToSet(found') : [from |-> a, parses |-> TRUE] \in ToSet(heard)
             /\ found' = <<>> =>
                   \A i \in 1..(Len(heard) - Len(disc.queue)) : ~ heard[i].parses
  <2> DEFINE p == disc.pending
  <2>1. found' = Devices(disc) /\ pc \in Searching
    BY <1>2 DEF EndPoll, Polling, Searching
  <2>2. p \in Seq(Packets) /\ heard \in Seq(Packets)
    BY <1>2 DEF SearchInv
  <2>3. Deduplicated(p, Len(p), found')
    BY <2>1, <2>2, DevicesAre
  <2>4. /\ \A k \in DOMAIN p : p[k].parses /\ p[k] \in ToSet(heard)
        /\ \A i \in 1..(Len(heard) - Len(disc.queue)) :
              heard[i].parses => heard[i] \in ToSet(p)
    BY <1>2, <2>1 DEF SearchInv
  <2>5. ASSUME NEW a \in ToSet(found')
        PROVE  [from |-> a, parses |-> TRUE] \in ToSet(heard)
    <3>1. PICK k \in 1..Len(p) : a = p[k].from
      BY <2>3 DEF Deduplicated
    <3>2. p[k] \in Packets /\ p[k].parses /\ p[k] \in ToSet(heard)
      BY <2>2, <2>4
    <3>3. p[k] = [from |-> a, parses |-> TRUE]
      BY <3>1, <3>2 DEF Packets
    <3> QED BY <3>2, <3>3
  <2>6. ASSUME found' = <<>>, NEW i \in 1..(Len(heard) - Len(disc.queue)), heard[i].parses
        PROVE  FALSE
    <3>1. heard[i] \in ToSet(p)
      BY <2>4, <2>6
    <3>2. PICK k \in 1..Len(p) : TRUE
      BY <2>2, <3>1 DEF ToSet
    <3>3. p[k].from \in ToSet(found')
      BY <2>3 DEF Deduplicated
    <3> QED BY <2>6, <3>3 DEF ToSet
  <2> QED BY <2>3, <2>5, <2>6 DEF Deduplicated
<1> QED BY <1>1, <1>2, SearchStep, PTL DEF Spec, DevicesFound

-----------------------------------------------------------------------------
(* The command line and the runner it reaches.                             *)

Ops == {"clear", "reboot", "status", "set"}

\* What parseArgs() makes of any command line.
Parsed(o) ==
    /\ DOMAIN o = {"error", "help", "examples", "helpFocus", "modes", "wifi", "transport",
                   "target", "vehicle", "adapter", "log", "fixed", "startFrom", "stdoutCsv"}
    /\ o.target \in Targets \cup {""} /\ o.transport \in Targets \cup {""}
    /\ o.wifi \subseteq Ops
    /\ o.wifi # {} => o.target = ""

\* The value of an option is one of those it takes.
LEMMA ValueTyped ==
    ASSUME NEW argv \in SUBSET Pairs, NEW o \in DOMAIN Valued, Given(argv, o), NEW d
    PROVE  Value(argv, o, d) \in Valued[o]
<1>1. PICK p \in argv : p[1] = o
  BY DEF Given
<1> DEFINE q == CHOOSE q \in argv : q[1] = o
<1>2. q \in argv /\ q[1] = o
  BY <1>1
<1>3. Value(argv, o, d) = q[2]
  BY DEF Value
<1> HIDE DEF q
<1>4. o \notin Switches
  BY DEF Valued, Switches
<1>5. q \in Pairs
  BY <1>2
<1>6. q \notin Switches \X {"on"}
  BY <1>2, <1>4
<1>7. PICK v \in DOMAIN Valued : q \in {v} \X Valued[v]
  BY <1>5, <1>6 DEF Pairs
<1>8. v = o /\ q[2] \in Valued[o]
  BY <1>2, <1>7
<1> QED BY <1>3, <1>8

\* The target is that of --connect or of one of its aliases, or none.
LEMMA FoldedIs ==
    ASSUME NEW argv \in SUBSET Pairs
    PROVE  Folded(argv) \in Targets \cup {""}
<1>1. /\ {"connect", "connectUsb", "connectTcp", "connectFile"} \subseteq DOMAIN Valued
      /\ Valued["connect"] = Targets /\ Valued["connectUsb"] = {"usb:path"}
      /\ Valued["connectTcp"] = {"tcp:host", "tcp:bad"}
      /\ Valued["connectFile"] = {"file:raw", "file:csv", "file:none"}
  BY DEF Valued
<1>2. {"usb:path", "tcp:host", "tcp:bad", "file:raw", "file:csv", "file:none", "auto"}
         \subseteq Targets
  BY DEF Targets
<1>3. CASE Given(argv, "connect")
  BY <1>1, <1>3, ValueTyped DEF Folded
<1>4. CASE ~ Given(argv, "connect") /\ Given(argv, "connectUsb")
  BY <1>1, <1>2, <1>4, ValueTyped DEF Folded
<1>5. CASE /\ ~ Given(argv, "connect") /\ ~ Given(argv, "connectUsb")
           /\ ~ Given(argv, "connect-auto") /\ Given(argv, "connectTcp")
  BY <1>1, <1>2, <1>5, ValueTyped DEF Folded
<1>6. CASE /\ ~ Given(argv, "connect") /\ ~ Given(argv, "connectUsb")
           /\ ~ Given(argv, "connect-auto") /\ ~ Given(argv, "connectTcp")
           /\ Given(argv, "connectFile")
  BY <1>1, <1>2, <1>6, ValueTyped DEF Folded
<1>7. CASE /\ ~ Given(argv, "connect") /\ ~ Given(argv, "connectUsb")
           /\ \/ Given(argv, "connect-auto")
              \/ ~ Given(argv, "connectTcp") /\ ~ Given(argv, "connectFile")
  BY <1>2, <1>7 DEF Folded
<1> QED BY <1>3, <1>4, <1>5, <1>6, <1>7

\* parseArgs() keeps telemetry and device operations apart.
LEMMA ParseArgsIs ==
    ASSUME NEW argv \in SUBSET Pairs
    PROVE  Parsed(parseArgs(argv))
<1> DEFINE clean == CleanArgv(argv)  o == parseArgs(argv)
           wifi == WifiOps(clean)  target == Folded(clean)
<1>1. clean \in SUBSET Pairs
  BY DEF CleanArgv
<1>2. target \in Targets \cup {""}
  BY <1>1, FoldedIs
<1>3. wifi \subseteq Ops
  BY DEF WifiOps, Ops
<1>4. /\ DOMAIN o = {"error", "help", "examples", "helpFocus", "modes", "wifi", "transport",
                     "target", "vehicle", "adapter", "log", "fixed", "startFrom", "stdoutCsv"}
      /\ o.wifi = wifi
      /\ o.transport = (IF wifi # {} THEN target ELSE "")
      /\ o.target = (IF wifi # {} THEN "" ELSE target)
  <2> HIDE DEF wifi, target, clean
  <2>1. DOMAIN o = {"error", "help", "examples", "helpFocus", "modes", "wifi", "transport",
                    "target", "vehicle", "adapter", "log", "fixed", "startFrom", "stdoutCsv"}
    BY DEF parseArgs
  <2>2. o.wifi = wifi
    BY DEF parseArgs, wifi, clean
  <2>3. o.transport = (IF wifi # {} THEN target ELSE "")
    BY DEF parseArgs, wifi, target, clean
  <2>4. o.target = (IF wifi # {} THEN "" ELSE target)
    BY DEF parseArgs, wifi, target, clean
  <2> QED BY <2>1, <2>2, <2>3, <2>4
<1> HIDE DEF clean, o, wifi, target
<1>5. Parsed(o)
  BY <1>2, <1>3, <1>4 DEF Parsed
<1> QED BY <1>5 DEF o

\* Every command line the model tries is one of options the program has.
LEMMA ArgvsArePairs == Argvs \subseteq SUBSET Pairs
<1>1. (Switches \X {"on"}) \subseteq Pairs
      /\ \A o \in DOMAIN Valued : {o} \X Valued[o] \subseteq Pairs
  BY DEF Pairs
<1>2. TelemetryOptions \subseteq SUBSET Pairs
  <2>1. /\ {"vehicle", "log", "startFrom", "interval"} \subseteq DOMAIN Valued
        /\ {"tesla", "generic"} \subseteq Valued["vehicle"] /\ "base" \in Valued["log"]
        /\ "time" \in Valued["startFrom"] /\ "fixed" \in Valued["interval"]
        /\ "stdout-csv" \in Switches
    BY DEF Valued, Switches
  <2>2. /\ <<"vehicle", "tesla">> \in Pairs /\ <<"vehicle", "generic">> \in Pairs
        /\ <<"log", "base">> \in Pairs /\ <<"startFrom", "time">> \in Pairs
        /\ <<"interval", "fixed">> \in Pairs /\ <<"stdout-csv", "on">> \in Pairs
    BY <1>1, <2>1
  <2> QED BY <2>2 DEF TelemetryOptions
<1>3. ({"connect"} \X Targets) \cup {<<"interactive", "on">>} \subseteq Pairs
  <2>1. "connect" \in DOMAIN Valued /\ Valued["connect"] = Targets /\ "interactive" \in Switches
    BY DEF Valued, Switches
  <2> QED BY <1>1, <2>1
<1> QED BY <1>2, <1>3 DEF Argvs

\* The checks of a telemetry run, in their order.
TelemetryChecks(o) ==
    << validateAdapterProtocol(o), validateConnectRequired(o), validateInteractiveVehicleLabel(o),
       validateDecodedCsvReplayLabel(o), validateVehicle(o) >>
LEMMA ChecksAre ==
    ASSUME NEW o
    PROVE  /\ DOMAIN TelemetryChecks(o) = 1..5
           /\ TelemetryChecks(o)[2] = validateConnectRequired(o)
           /\ TelemetryChecks(o)[4] = validateDecodedCsvReplayLabel(o)
           /\ TelemetryChecks(o)[5] = validateVehicle(o)
BY DEF TelemetryChecks

\* If the first of five checks that failed passed, none failed.
LEMMA FirstFailed ==
    ASSUME NEW t, DOMAIN t = 1..5, NEW none
    PROVE  LET failed == {i \in DOMAIN t : t[i] # none}
           IN  failed = {} \/ t[CHOOSE i \in failed : \A j \in failed : i <= j] = none
                  => t[2] = none /\ t[4] = none /\ t[5] = none
<1> DEFINE failed == {i \in DOMAIN t : t[i] # none}
           first  == CHOOSE i \in failed : \A j \in failed : i <= j
<1>1. failed \subseteq 1..5
  OBVIOUS
<1>2. failed = {} \/ \E i \in failed : \A j \in failed : i <= j
  <2> HIDE DEF failed
  <2>1. failed \in SUBSET Nat
    BY <1>1
  <2> QED BY <2>1, LeastMember
<1>3. failed = {} \/ first \in failed
  <2> HIDE DEF failed
  <2> QED BY <1>2
<1>4. \A k \in 1..5 : k \in failed <=> t[k] # none
  OBVIOUS
<1>5. first \in failed => t[first] # none
  <2> HIDE DEF first
  <2> QED OBVIOUS
<1> HIDE DEF failed, first
<1>6. failed = {} \/ t[first] = none => t[2] = none /\ t[4] = none /\ t[5] = none
  BY <1>3, <1>4, <1>5
<1> QED BY <1>6 DEF failed, first

\* Of a telemetry run, validateOptions() lets pass what every one of its checks lets pass.
LEMMA ValidatedIs ==
    ASSUME NEW o, validateOptions(o) = "", ~ isInfoMode(o), ~ isProvisioning(o)
    PROVE  /\ validateConnectRequired(o) = "" /\ validateVehicle(o) = ""
           /\ validateDecodedCsvReplayLabel(o) = ""
<1> DEFINE t == TelemetryChecks(o)
           failed == {i \in DOMAIN t : t[i] # ""}
<1>1. failed = {} \/ t[CHOOSE i \in failed : \A j \in failed : i <= j] = ""
  BY DEF validateOptions, TelemetryChecks
<1>2. /\ DOMAIN t = 1..5 /\ t[2] = validateConnectRequired(o)
      /\ t[4] = validateDecodedCsvReplayLabel(o) /\ t[5] = validateVehicle(o)
  BY ChecksAre
<1> HIDE DEF t
<1>3. t[2] = "" /\ t[4] = "" /\ t[5] = ""
  BY <1>1, <1>2, FirstFailed, Zenon
<1> QED BY <1>2, <1>3

\* Where a run is, and what is so of its options there.
Pcs == {"start", "check", "scan", "discover", "discovering", "status", "locating", "console",
        "reading", "provision", "interactive", "tick", "auto", "finding", "csv replay", "rows",
        "replay", "frames", "live", "lines", "ble", "ok", "failed", "killed"}
OptionsFit(at, o) ==
    /\ at \in {"status", "locating", "console", "reading", "provision"} =>
          /\ o.wifi # {} /\ o.target = ""
          /\ o.transport \in {"", "auto", "usb:path", "usb:", "tcp:host"}
    /\ at \in {"auto", "finding"} =>
          o.wifi = {} /\ o.target = "auto" /\ o.vehicle \in Registered
    /\ at \in {"replay", "frames", "csv replay", "rows", "live", "lines"} =>
          o.wifi = {} /\ o.vehicle \in Registered
    /\ at \in {"replay", "frames"} => o.target \in {"file:raw", "file:none"}
    /\ at = "frames" => o.target = "file:raw" /\ o.log # "unwritable"
    /\ at \in {"csv replay", "rows"} => o.target \in {"file:csv", "file:empty"}
    /\ at = "rows" => o.target = "file:csv"
    /\ at \in {"live", "lines"} =>
          o.target \in {"demo", "tcp:host", "tcp:bad", "usb:path", "usb:"}
    /\ at = "lines" => o.target \in {"demo", "tcp:host", "usb:path"} /\ o.log # "unwritable"
    /\ at \in {"ble", "interactive", "tick"} =>
          o.wifi = {} /\ o.vehicle \in Registered \cup {"auto"}

\* main() sends every command line that passes validation to a runner it fits.
LEMMA RunnerFits ==
    ASSUME NEW o, Parsed(o), validateOptions(o) = "", EarlyExit(o) = ""
    PROVE  Runner(o) \in Pcs /\ OptionsFit(Runner(o), o)
<1>1. ~ o.examples /\ ~ o.help /\ "list" \notin o.modes /\ "led" \notin o.modes
  BY DEF EarlyExit
<1>2. CASE "scan" \in o.modes \/ "discover" \in o.modes
  <2>1. Runner(o) \in {"scan", "discover"}
    BY <1>2 DEF Runner
  <2> QED BY <2>1 DEF Pcs, OptionsFit
<1>3. CASE "scan" \notin o.modes /\ "discover" \notin o.modes /\ o.wifi # {}
  <2>1. Runner(o) \in {"status", "provision"}
    BY <1>3 DEF Runner, isProvisioning
  <2>2. validateProvisioningTransport(o) = ""
    BY DEF validateOptions
  <2>3. o.transport \in {"", "auto", "usb:path", "usb:", "tcp:host"}
    BY <1>3, <2>2 DEF validateProvisioningTransport, isProvisioning, isUsb, isTcp,
                      parseTcpTarget
  <2>4. o.target = ""
    BY <1>3 DEF Parsed
  <2> QED BY <1>3, <2>1, <2>3, <2>4 DEF Pcs, OptionsFit
<1>4. CASE "scan" \notin o.modes /\ "discover" \notin o.modes /\ o.wifi = {}
  <2>1. ~ isInfoMode(o) /\ ~ isProvisioning(o)
    BY <1>1, <1>4 DEF isInfoMode, isProvisioning
  <2>2. validateConnectRequired(o) = "" /\ validateVehicle(o) = ""
    BY <2>1, ValidatedIs
  <2>3. \/ o.vehicle \in Registered
        \/ o.vehicle = "auto" /\ isBLE(o.target)
    BY <2>2 DEF validateVehicle
  <2>4. "status" \notin o.wifi
    BY <1>4
  <2>5. CASE "interactive" \in o.modes
    <3>1. Runner(o) = "interactive"
      BY <1>4, <2>1, <2>4, <2>5 DEF Runner
    <3> QED BY <1>4, <2>3, <3>1 DEF Pcs, OptionsFit
  <2>6. CASE "interactive" \notin o.modes
    <3>1. o.target # "" /\ o.target \in Targets
      BY <2>2, <2>6 DEF validateConnectRequired, Parsed
    <3>2. Runner(o) = IF isAuto(o.target) THEN "auto"
                      ELSE IF isFile(o.target)
                           THEN IF isDecodedTelemetryCsv(o.target) THEN "csv replay"
                                ELSE "replay"
                      ELSE runTransport(o.target)
      BY <1>4, <2>1, <2>4, <2>6 DEF Runner
    <3>3. CASE isAuto(o.target)
      <4>1. Runner(o) = "auto" /\ o.target = "auto" /\ ~ isBLE(o.target)
        BY <3>2, <3>3 DEF isAuto, isBLE
      <4> QED BY <1>4, <2>3, <4>1 DEF Pcs, OptionsFit
    <3>4. CASE isFile(o.target)
      <4>1. ~ isAuto(o.target) /\ ~ isBLE(o.target)
        BY <3>4 DEF isAuto, isFile, isBLE
      <4>2. \/ Runner(o) = "csv replay" /\ o.target \in {"file:csv", "file:empty"}
            \/ Runner(o) = "replay" /\ o.target \in {"file:raw", "file:none"}
        BY <3>2, <3>4, <4>1 DEF isFile, isDecodedTelemetryCsv
      <4> QED BY <1>4, <2>3, <4>1, <4>2 DEF Pcs, OptionsFit
    <3>5. CASE isTcp(o.target) \/ isDemo(o.target) \/ isUsb(o.target)
      <4>1. ~ isAuto(o.target) /\ ~ isBLE(o.target) /\ ~ isFile(o.target)
        BY <3>5 DEF isAuto, isFile, isBLE, isTcp, isDemo, isUsb
      <4>2. Runner(o) = "live"
        BY <3>2, <3>5, <4>1 DEF runTransport
      <4>3. o.target \in {"demo", "tcp:host", "tcp:bad", "usb:path", "usb:"}
        BY <3>5 DEF isTcp, isDemo, isUsb
      <4> QED BY <1>4, <2>3, <4>1, <4>2, <4>3 DEF Pcs, OptionsFit
    <3>6. CASE ~ (isAuto(o.target) \/ isFile(o.target) \/ isTcp(o.target) \/ isDemo(o.target)
                    \/ isUsb(o.target))
      <4>1. isBLE(o.target)
        BY <3>1, <3>6 DEF isBLE
      <4>2. Runner(o) = "ble"
        BY <3>2, <3>6, <4>1 DEF runTransport
      <4> QED BY <1>4, <2>3, <4>2 DEF Pcs, OptionsFit
    <3> QED BY <3>3, <3>4, <3>5, <3>6
  <2> QED BY <2>5, <2>6
<1> QED BY <1>2, <1>3, <1>4

\* Every step keeps the options fit for where the run is.
OptionsInv == Parsed(opts) /\ pc \in Pcs /\ OptionsFit(pc, opts)

LEMMA OptionsStep == OptionsInv /\ [Next]_vars => OptionsInv'
<1> SUFFICES ASSUME OptionsInv, [Next]_vars PROVE OptionsInv'
  OBVIOUS
<1> DEFINE Moves(to) == opts' = opts /\ (pc' = pc \/ pc' \in to \cup {"ok", "failed", "killed"})
<1>1. ASSUME Moves({}) PROVE OptionsInv'
  BY <1>1 DEF OptionsInv, OptionsFit, Pcs
<1>2. CASE Start
  <2>1. PICK argv \in Argvs : opts' = parseArgs(argv)
    BY <1>2 DEF Start
  <2>2. Parsed(opts') /\ pc' = "check"
    BY <1>2, <2>1, ArgvsArePairs, ParseArgsIs DEF Start
  <2> QED BY <2>2 DEF OptionsInv, OptionsFit, Pcs
<1>3. CASE Dispatch
  <2>1. opts' = opts
    BY <1>3 DEF Dispatch
  <2>2. CASE pc' \in {"ok", "failed"}
    BY <1>1, <2>1, <2>2
  <2>3. CASE pc' \notin {"ok", "failed"}
    <3>1. validateOptions(opts) = "" /\ EarlyExit(opts) = "" /\ pc' = Runner(opts)
      BY <1>3, <2>3 DEF Dispatch, Finish
    <3> QED BY <2>1, <3>1, RunnerFits DEF OptionsInv
  <2> QED BY <2>2, <2>3
<1>4. CASE Discover
  <2>1. Moves({"discovering"})
    BY <1>4 DEF Discover, StartPoll, Finish
  <2> QED BY <1>1, <2>1 DEF OptionsInv, OptionsFit, Pcs
<1>5. CASE Status
  <2>1. /\ pc = "status" /\ Parsed(opts) /\ opts.wifi # {} /\ opts.target = ""
        /\ opts.transport \in {"", "auto", "usb:path", "usb:", "tcp:host"}
    BY <1>5 DEF Status, OptionsInv, OptionsFit
  <2>2. CASE pc' = "console" /\ opts' = [opts EXCEPT !.transport = normalizeTransport(@)]
    <3>1. normalizeTransport(opts.transport) \in {"usb:path", "usb:", "tcp:host"}
      BY <2>1 DEF normalizeTransport
    <3>2. /\ DOMAIN opts' = DOMAIN opts /\ opts'.wifi = opts.wifi /\ opts'.target = opts.target
          /\ opts'.transport = normalizeTransport(opts.transport)
      BY <2>1, <2>2 DEF Parsed
    <3> QED BY <2>1, <2>2, <3>1, <3>2 DEF OptionsInv, OptionsFit, Parsed, Pcs, Targets
  <2>3. CASE opts' = opts /\ pc' \in {"locating", "failed"}
    BY <2>1, <2>3 DEF OptionsInv, OptionsFit, Pcs
  <2> QED BY <1>5, <2>2, <2>3, FinishIs DEF Status, StartPoll
<1>6. CASE autoDiscoverAndAssign
  <2>1. /\ pc = "auto" /\ Parsed(opts) /\ opts.wifi = {} /\ opts.vehicle \in Registered
        /\ opts.target = "auto"
    BY <1>6 DEF autoDiscoverAndAssign, OptionsInv, OptionsFit
  <2>2. CASE pc' = runTransport("usb:path") /\ opts' = [opts EXCEPT !.target = "usb:path"]
    <3>1. pc' = "live"
      BY <2>2 DEF runTransport, isTcp, isDemo, isUsb
    <3>2. /\ DOMAIN opts' = DOMAIN opts /\ opts'.wifi = opts.wifi
          /\ opts'.target = "usb:path" /\ opts'.transport = opts.transport
          /\ opts'.vehicle = opts.vehicle
      BY <2>1, <2>2 DEF Parsed
    <3> QED BY <2>1, <3>1, <3>2 DEF OptionsInv, OptionsFit, Parsed, Pcs, Targets
  <2>3. CASE opts' = opts /\ pc' \in {"finding", "failed"}
    BY <2>1, <2>3 DEF OptionsInv, OptionsFit, Pcs
  <2> QED BY <1>6, <2>2, <2>3 DEF autoDiscoverAndAssign, StartPoll, Finish
<1>7. CASE EndPoll
  <2>1. CASE Moves({})
    BY <1>1, <2>1
  <2>2. CASE /\ pc = "locating" /\ pc' = "console"
             /\ opts' = [opts EXCEPT !.transport = "tcp:host"]
    <3>1. Parsed(opts) /\ opts.wifi # {} /\ opts.target = ""
      BY <2>2 DEF OptionsInv, OptionsFit
    <3>2. /\ DOMAIN opts' = DOMAIN opts /\ opts'.wifi = opts.wifi /\ opts'.target = opts.target
          /\ opts'.transport = "tcp:host"
      BY <2>2, <3>1 DEF Parsed
    <3> QED BY <2>2, <3>1, <3>2 DEF OptionsInv, OptionsFit, Parsed, Pcs, Targets
  <2>3. CASE /\ pc = "finding" /\ pc' = runTransport("tcp:host")
             /\ opts' = [opts EXCEPT !.target = "tcp:host"]
    <3>1. Parsed(opts) /\ opts.wifi = {} /\ opts.vehicle \in Registered
      BY <2>3 DEF OptionsInv, OptionsFit
    <3>2. pc' = "live"
      BY <2>3 DEF runTransport, isTcp
    <3>3. /\ DOMAIN opts' = DOMAIN opts /\ opts'.wifi = opts.wifi
          /\ opts'.target = "tcp:host" /\ opts'.transport = opts.transport
          /\ opts'.vehicle = opts.vehicle
      BY <2>3, <3>1 DEF Parsed
    <3> QED BY <3>1, <3>2, <3>3 DEF OptionsInv, OptionsFit, Parsed, Pcs, Targets
  <2> QED BY <1>7, <2>1, <2>2, <2>3 DEF EndPoll, Finish
<1>8. CASE OpenConsole
  <2>1. opts' = opts /\ pc = "console" /\ pc' \in {"reading", "failed"}
    BY <1>8, FinishIs DEF OpenConsole
  <2> QED BY <2>1 DEF OptionsInv, OptionsFit, Pcs
<1>9. CASE OpenReplay
  <2>1. /\ opts' = opts /\ pc = "replay"
        /\ \/ pc' = "failed"
           \/ pc' = "frames" /\ opts.target # "file:none" /\ opts.log # "unwritable"
    BY <1>9 DEF OpenReplay, Finish
  <2> QED BY <2>1 DEF OptionsInv, OptionsFit, Pcs
<1>10. CASE OpenCsvReplay
  <2>1. /\ opts' = opts /\ pc = "csv replay"
        /\ pc' = "failed" \/ (pc' = "rows" /\ opts.target # "file:empty")
    BY <1>10, FinishIs DEF OpenCsvReplay
  <2> QED BY <2>1 DEF OptionsInv, OptionsFit, Pcs
<1>11. CASE OpenLive
  <2>1. /\ opts' = opts /\ pc = "live"
        /\ \/ pc' = "failed"
           \/ /\ pc' = "lines" /\ opts.target \in {"demo", "usb:path", "tcp:host"}
              /\ opts.log # "unwritable"
    BY <1>11 DEF OpenLive, Finish
  <2> QED BY <2>1 DEF OptionsInv, OptionsFit, Pcs
<1>12. CASE OpenInteractive
  <2>1. opts' = opts /\ pc = "interactive" /\ pc' = "tick"
    BY <1>12 DEF OpenInteractive
  <2> QED BY <2>1 DEF OptionsInv, OptionsFit, Pcs
<1>13. CASE Scan \/ Poll \/ ReadStatus \/ Provision \/ RunBle \/ TickRow \/ ReadKey
  BY <1>1, <1>13 DEF Scan, Poll, ReadStatus, Provision, RunBle, TickRow, ReadKey, Finish
<1>14. CASE Sleep \/ Dispatched \/ EndFrames
  BY <1>1, <1>14 DEF Sleep, Dispatched, EndFrames, Finish
<1>15. CASE World
  BY <1>1, <1>15 DEF World, NextRecorded, NextRow, NextDemo, NextLive, Take, EndOfSource, Traffic,
                     Broadcast, PressKey, Interrupt
<1>16. CASE Exited \/ UNCHANGED vars
  BY <1>1, <1>16 DEF Exited, vars
<1> QED BY <1>2, <1>3, <1>4, <1>5, <1>6, <1>7, <1>8, <1>9, <1>10, <1>11, <1>12, <1>13, <1>14,
           <1>15, <1>16 DEF Next, Main

\* The loops over a source's frames, and where a run is once it has ended.
Loops == {"frames", "rows", "lines"}
Over == {"ok", "failed", "killed"}

\* Outside the loops nothing has been read and no sink but stdout written.
IdleInv == pc \notin Loops \cup Over => src = NewSource /\ csv = <<>> /\ raw = <<>>

LEMMA IdleStep == OptionsInv /\ IdleInv /\ [Next]_vars => IdleInv'
<1> SUFFICES ASSUME OptionsInv, IdleInv, [Next]_vars, pc' \notin Loops \cup Over
             PROVE  pc \notin Loops \cup Over /\ UNCHANGED << src, csv, raw >>
  BY DEF IdleInv
<1>1. CASE Start \/ Dispatch \/ Scan \/ Discover \/ Status \/ autoDiscoverAndAssign
             \/ Poll \/ EndPoll
  <2>1. UNCHANGED << src, csv, raw >>
    BY <1>1 DEF Start, Dispatch, Scan, Discover, Status, autoDiscoverAndAssign, Poll, EndPoll
  <2>2. pc \notin Loops \cup Over
    BY <1>1 DEF Start, Dispatch, Scan, Discover, Status, autoDiscoverAndAssign, Poll, EndPoll,
                Polling, Loops, Over
  <2> QED BY <2>1, <2>2
<1>2. CASE OpenConsole \/ ReadStatus \/ Provision \/ RunBle \/ OpenInteractive \/ ReadKey
             \/ TickRow \/ PressKey \/ Broadcast
  <2>1. UNCHANGED << src, csv, raw >>
    BY <1>2 DEF OpenConsole, ReadStatus, Provision, RunBle, OpenInteractive, ReadKey, TickRow,
                PressKey, Broadcast
  <2>2. pc \notin Loops \cup Over
    BY <1>2 DEF OpenConsole, ReadStatus, Provision, RunBle, OpenInteractive, ReadKey, TickRow,
                PressKey, Broadcast, Polling, Loops, Over
  <2> QED BY <2>1, <2>2
<1>3. CASE OpenReplay \/ OpenCsvReplay \/ OpenLive
  <2>1. pc' \in Loops \cup Over
    BY <1>3, FinishIs DEF OpenReplay, OpenCsvReplay, OpenLive, Loops, Over
  <2> QED BY <2>1
<1>4. CASE Sleep \/ Dispatched
  <2>1. src.held # NoFrame /\ pc \notin Over /\ pc' = pc
    BY <1>4 DEF Sleep, Dispatched, Ended, Over
  <2>2. src # NewSource
    BY <2>1 DEF NewSource
  <2> QED BY <2>1, <2>2 DEF IdleInv
<1>5. CASE EndFrames \/ NextRecorded \/ NextRow \/ NextDemo \/ NextLive \/ EndOfSource
             \/ Traffic
  <2>1. pc \in Loops /\ (pc' = pc \/ pc' = "ok")
    BY <1>5, FinishIs DEF EndFrames, NextRecorded, NextRow, NextDemo, NextLive, Take,
                          EndOfSource, Traffic, Loops
  <2> QED BY <2>1 DEF Over, Loops
<1>6. CASE Interrupt \/ Exited \/ UNCHANGED vars
  <2>1. UNCHANGED << src, csv, raw >> /\ (pc' = pc \/ pc' = "killed")
    BY <1>6 DEF Interrupt, Exited, vars
  <2> QED BY <2>1 DEF Over
<1> QED BY <1>1, <1>2, <1>3, <1>4, <1>5, <1>6 DEF Next, Main, World

\* The words on stdout.
Words(o) == {o[i].what : i \in DOMAIN o}

LEMMA WordsAppend ==
    ASSUME NEW o, IsSeq(o), NEW x
    PROVE  IsSeq(Append(o, x)) /\ Words(Append(o, x)) = Words(o) \cup {x.what}
<1> DEFINE p == Append(o, x)
<1>1. /\ IsSeq(p) /\ Len(o) \in Nat /\ DOMAIN o = 1..Len(o) /\ DOMAIN p = 1..(Len(o) + 1)
      /\ p[Len(o) + 1] = x /\ \A i \in DOMAIN o : p[i] = o[i]
  BY AppendIs
<1> HIDE DEF p
<1>2. Words(p) \subseteq Words(o) \cup {x.what}
  <2>1. ASSUME NEW i \in DOMAIN p PROVE p[i].what \in Words(o) \cup {x.what}
    BY <1>1, <2>1 DEF Words
  <2> QED BY <2>1 DEF Words
<1>3. Words(o) \cup {x.what} \subseteq Words(p)
  <2>1. ASSUME NEW i \in DOMAIN o PROVE o[i].what \in Words(p)
    <3>1. i \in DOMAIN p /\ p[i] = o[i]
      BY <1>1
    <3> QED BY <3>1 DEF Words
  <2>2. x.what \in Words(p)
    <3>1. Len(o) + 1 \in DOMAIN p
      BY <1>1
    <3> QED BY <1>1, <3>1 DEF Words
  <2> QED BY <2>1, <2>2 DEF Words
<1>4. IsSeq(p) /\ Words(p) = Words(o) \cup {x.what}
  BY <1>1, <1>2, <1>3
<1> QED BY <1>4 DEF p

\* What is said to the user adds no word but "text".
LEMMA SayIs ==
    ASSUME NEW o, IsSeq(o)
    PROVE  /\ IsSeq(Say(o)) /\ Words(o) \subseteq Words(Say(o))
           /\ Words(Say(o)) \subseteq Words(o) \cup {"text"}
           /\ IsSeq(Narrate(o)) /\ Words(Narrate(o)) \subseteq Words(o) \cup {"text"}
           /\ IsSeq(Announced(o)) /\ Words(Announced(o)) \subseteq Words(o) \cup {"text"}
<1>1. Item("text").what = "text"
  BY DEF Item
<1>2. Say(o) = o \/ Say(o) = Append(o, Item("text"))
  BY DEF Say
<1>3. /\ IsSeq(Say(o)) /\ Words(o) \subseteq Words(Say(o))
      /\ Words(Say(o)) \subseteq Words(o) \cup {"text"}
  BY <1>1, <1>2, WordsAppend
<1>4. Narrate(o) \in {o, Say(o)} /\ Announced(o) \in {o, Say(o)}
  BY DEF Narrate, Announced
<1> QED BY <1>3, <1>4

\* Two items more are one more, twice.
LEMMA TwoMore ==
    ASSUME NEW o, IsSeq(o), NEW h, NEW x
    PROVE  o \o <<h, x>> = Append(Append(o, h), x)
<1> DEFINE S == {o[i] : i \in DOMAIN o} \cup {h, x}
<1>1. o \in Seq({o[i] : i \in DOMAIN o})
  BY DEF IsSeq
<1>2. o \in Seq(S) /\ h \in S /\ x \in S
  BY <1>1
<1> HIDE DEF S
<1> QED BY <1>2

\* A header comes with what is said before it, if anything is.
LEMMA HeadedIs ==
    ASSUME NEW o, IsSeq(o)
    PROVE  IsSeq(Headed(o)) /\ Words(Headed(o)) \subseteq Words(o) \cup {"text", "hint", "header"}
<1>1. Item("hint").what = "hint" /\ Item("header").what = "header"
  BY DEF Item
<1>2. \/ Headed(o) = Say(o) \/ Headed(o) = Append(o, Item("header"))
      \/ Headed(o) = o \o << Item("hint"), Item("header") >>
  BY DEF Headed
<1>3. o \o << Item("hint"), Item("header") >> = Append(Append(o, Item("hint")), Item("header"))
  BY TwoMore
<1>4. /\ IsSeq(Append(o, Item("hint")))
      /\ Words(Append(o, Item("hint"))) = Words(o) \cup {"hint"}
  BY <1>1, WordsAppend
<1>5. /\ IsSeq(Append(Append(o, Item("hint")), Item("header")))
      /\ Words(Append(Append(o, Item("hint")), Item("header"))) = Words(o) \cup {"hint", "header"}
  <2> DEFINE p == Append(o, Item("hint"))
  <2>1. IsSeq(p) /\ Words(p) = Words(o) \cup {"hint"}
    BY <1>4
  <2> HIDE DEF p
  <2>2. IsSeq(Append(p, Item("header")))
         /\ Words(Append(p, Item("header"))) = Words(p) \cup {"header"}
    BY <1>1, <2>1, WordsAppend
  <2> QED BY <2>1, <2>2 DEF p
<1>6. IsSeq(Append(o, Item("header")))
      /\ Words(Append(o, Item("header"))) = Words(o) \cup {"header"}
  BY <1>1, WordsAppend
<1> QED BY <1>2, <1>3, <1>5, <1>6, SayIs

\* A device operation is named on stdout only if it was asked for, and no row or header comes
\* before the runner that writes them.
DeviceOps == {"clear", "reboot", "set"}
OutInv ==
    /\ IsSeq(out)
    /\ Words(out) \cap DeviceOps \subseteq opts.wifi
    /\ pc \notin Loops \cup Over \cup {"tick"} => Words(out) \subseteq {"text"}

\* What a step adds to stdout; only a frame that is dispatched adds a row.
LEMMA OutChanges ==
    ASSUME OptionsInv, IdleInv, OutInv, [Next]_vars
    PROVE  /\ IsSeq(out')
           /\ opts'.wifi = opts.wifi \/ Words(out') \subseteq {"text"}
           /\ \/ /\ Words(out') \subseteq Words(out) \cup {"text"}
                 /\ pc' \notin Loops \cup Over \cup {"tick"} =>
                       pc \notin Loops \cup Over \cup {"tick"}
              \/ /\ pc' \in Loops \cup Over \cup {"tick"}
                 /\ \E w \in opts.wifi \cup {"state", "hint", "header", "bench row", "status",
                                             "examples", "help", "signals", "led legend"} :
                       Words(out') \subseteq Words(out) \cup {"text", "header", w}
              \/ /\ Dispatched /\ pc' = pc /\ pc \in Loops
                 /\ Words(out') \subseteq Words(out) \cup {"text", "row"}
<1> DEFINE Late == Loops \cup Over \cup {"tick"}
           Plain == {"state", "hint", "header", "bench row", "status",
                     "examples", "help", "signals", "led legend"}
           Quiet == /\ Words(out') \subseteq Words(out) \cup {"text"}
                    /\ pc' \notin Late => pc \notin Late
           Loud == /\ pc' \in Late
                   /\ \E w \in opts.wifi \cup Plain :
                         Words(out') \subseteq Words(out) \cup {"text", "header", w}
           Row1 == /\ Dispatched /\ pc' = pc /\ pc \in Loops
                   /\ Words(out') \subseteq Words(out) \cup {"text", "row"}
           Goal == /\ IsSeq(out')
                   /\ opts'.wifi = opts.wifi \/ Words(out') \subseteq {"text"}
                   /\ Quiet \/ Loud \/ Row1
<1> SUFFICES Goal
  OBVIOUS
<1>1. IsSeq(out) /\ DOMAIN opts = {"error", "help", "examples", "helpFocus", "modes", "wifi",
                      "transport", "target", "vehicle", "adapter", "log", "fixed", "startFrom",
                      "stdoutCsv"}
  BY DEF OutInv, OptionsInv, Parsed
<1>2. CASE Start
  <2>1. out' = <<>> \/ out' = << Item("text") >>
    BY <1>2 DEF Start
  <2>2. IsSeq(<<>>) /\ Words(<<>>) = {}
    BY DEF IsSeq, Words
  <2>3. IsSeq(<< Item("text") >>) /\ Words(<< Item("text") >>) = {"text"}
    <3> DEFINE x == Item("text")  none == <<>>
    <3>1. x.what = "text"
      BY DEF Item
    <3>2. << x >> = Append(none, x)
      OBVIOUS
    <3>3. IsSeq(none) /\ Words(none) = {}
      BY <2>2
    <3> HIDE DEF x, none
    <3>4. IsSeq(Append(none, x)) /\ Words(Append(none, x)) = Words(none) \cup {x.what}
      BY <3>3, WordsAppend
    <3>5. IsSeq(<< x >>) /\ Words(<< x >>) = {"text"}
      BY <3>1, <3>2, <3>3, <3>4
    <3> QED BY <3>5 DEF x
  <2>4. pc = "start" /\ pc \notin Late
    BY <1>2 DEF Start, Loops, Over
  <2> HIDE DEF Late, Plain
  <2> QED BY <2>1, <2>2, <2>3, <2>4
<1>3. ASSUME opts'.wifi = opts.wifi, out' \in {out, Say(out), Narrate(out), Announced(out)},
             pc' \notin Late => pc \notin Late
      PROVE  Goal
  <2>1. IsSeq(out') /\ Words(out') \subseteq Words(out) \cup {"text"}
    BY <1>1, <1>3, SayIs
  <2> HIDE DEF Late, Plain
  <2> QED BY <1>3, <2>1
<1>4. ASSUME opts' = opts, pc' \in Late, NEW w \in opts.wifi \cup Plain, NEW x, x.what = w,
             out' = Append(out, x) \/ out' = Append(Say(out), x)
      PROVE  Goal
  <2>1. /\ IsSeq(Append(out, x)) /\ Words(Append(out, x)) = Words(out) \cup {w}
        /\ IsSeq(Append(Say(out), x)) /\ Words(Append(Say(out), x)) = Words(Say(out)) \cup {w}
    BY <1>1, <1>4, SayIs, WordsAppend
  <2>2. Words(out') \subseteq Words(out) \cup {"text", "header", w} /\ IsSeq(out')
    BY <1>1, <1>4, <2>1, SayIs
  <2> HIDE DEF Late, Plain
  <2> QED BY <1>4, <2>2
<1>5. CASE Scan \/ Discover \/ RunBle \/ EndFrames
  <2>1. opts' = opts /\ out' \in {out, Say(out), Narrate(out)}
    BY <1>5 DEF Scan, Discover, RunBle, EndFrames
  <2>2. pc \notin Late \/ pc' \in Over
    BY <1>5, FinishIs DEF Scan, Discover, RunBle, EndFrames, Loops, Over
  <2> QED BY <1>3, <2>1, <2>2
<1>6. CASE Status \/ autoDiscoverAndAssign \/ EndPoll
  <2>1. pc \notin Late
    BY <1>6 DEF Status, autoDiscoverAndAssign, EndPoll, Polling, Loops, Over
  <2>2. out' \in {out, Say(out)}
    BY <1>6 DEF Status, autoDiscoverAndAssign, EndPoll
  <2>3. \/ opts' = opts \/ opts' = [opts EXCEPT !.transport = normalizeTransport(@)]
        \/ opts' = [opts EXCEPT !.target = "usb:path"]
        \/ opts' = [opts EXCEPT !.target = "tcp:host"]
        \/ opts' = [opts EXCEPT !.transport = "tcp:host"]
    BY <1>6 DEF Status, autoDiscoverAndAssign, EndPoll
  <2>4. opts'.wifi = opts.wifi
    BY <1>1, <2>3
  <2> QED BY <1>3, <2>1, <2>2, <2>4
<1>7. CASE Dispatch
  <2>1. opts' = opts /\ pc \notin Late
    BY <1>7 DEF Dispatch, Loops, Over
  <2>2. CASE out' = out
    BY <1>3, <2>1, <2>2
  <2>3. CASE out' # out
    <3> DEFINE x == [what |-> EarlyExit(opts), examples |-> ExamplesPrinted(opts)]
    <3>1. pc' = "ok" /\ EarlyExit(opts) # "" /\ out' = Append(Say(out), x)
      BY <1>7, <2>3, FinishIs DEF Dispatch
    <3>2. EarlyExit(opts) \in {"examples", "help", "signals", "led legend"}
      BY <3>1 DEF EarlyExit
    <3>3. x.what = EarlyExit(opts) /\ pc' \in Late
      BY <3>1 DEF Over
    <3> HIDE DEF x
    <3> QED BY <1>4, <2>1, <3>1, <3>2, <3>3
  <2> QED BY <2>2, <2>3
<1>8. CASE ReadStatus
  <2>1. opts' = opts /\ pc = "reading" /\ pc \notin Late
    BY <1>8 DEF ReadStatus, Loops, Over
  <2>2. out' = out \/ (out' = Append(out, Item("state")) /\ pc' \in Late)
    BY <1>8, FinishIs DEF ReadStatus, Over
  <2>3. Item("state").what = "state"
    BY DEF Item
  <2> QED BY <1>3, <1>4, <2>1, <2>2, <2>3
<1>9. CASE Provision
  <2>1. opts' = opts /\ pc = "provision" /\ pc' \in Late /\ pc' \in Over
    BY <1>9 DEF Provision, Finish, Over
  <2>2. out' = out \/ out' = Append(out, Item(OperationRun(opts)))
    BY <1>9 DEF Provision
  <2>3. Item(OperationRun(opts)).what = OperationRun(opts)
    BY DEF Item
  <2>4. OperationRun(opts) \in opts.wifi
    BY <2>1 DEF OptionsInv, OptionsFit, Parsed, OperationRun, Ops
  <2> DEFINE w == OperationRun(opts)  x == Item(w)
  <2>5. w \in opts.wifi \cup Plain /\ x.what = w /\ (out' = out \/ out' = Append(out, x))
    BY <2>2, <2>3, <2>4
  <2> HIDE DEF w, x, Late, Plain, Goal
  <2>6. CASE out' = out
    BY <1>3, <2>1, <2>6
  <2>7. CASE out' = Append(out, x)
    BY <1>4, <2>1, <2>5, <2>7
  <2> QED BY <2>5, <2>6, <2>7
<1>10. CASE OpenReplay \/ OpenCsvReplay \/ OpenLive
  <2>1. opts' = opts
    BY <1>10 DEF OpenReplay, OpenCsvReplay, OpenLive
  <2>2. pc' \in Late
    BY <1>10, FinishIs DEF OpenReplay, OpenCsvReplay, OpenLive, Loops, Over
  <2>3. out' \in {out, Headed(out), Append(out, Item("header")), Announced(out),
                  Headed(Announced(out))}
    BY <1>10 DEF OpenReplay, OpenCsvReplay, OpenLive
  <2>4. Item("header").what = "header"
    BY DEF Item
  <2>5. IsSeq(out') /\ Words(out') \subseteq Words(out) \cup {"text", "header", "hint"}
    <3>1. CASE out' \in {out, Announced(out)}
      BY <1>1, <3>1, SayIs
    <3>2. CASE out' = Headed(out)
      BY <1>1, <3>2, HeadedIs
    <3>3. CASE out' = Headed(Announced(out))
      BY <1>1, <3>3, HeadedIs, SayIs
    <3>4. CASE out' = Append(out, Item("header"))
      BY <1>1, <2>4, <3>4, WordsAppend
    <3> QED BY <2>3, <3>1, <3>2, <3>3, <3>4
  <2>6. "hint" \in Plain
    OBVIOUS
  <2> HIDE DEF Late, Plain
  <2> QED BY <2>1, <2>2, <2>5, <2>6
<1>11. CASE Dispatched
  <2>1. opts' = opts /\ pc' = pc /\ src.held # NoFrame /\ pc \notin Over
    BY <1>11 DEF Dispatched, Ended, Over
  <2>2. pc \in Loops
    <3>1. src # NewSource
      BY <2>1 DEF NewSource
    <3> QED BY <2>1, <3>1 DEF IdleInv
  <2>3. out' \in {out, Narrate(out), Append(out, Row(src.held))}
    BY <1>11 DEF Dispatched
  <2>4. Row(src.held).what = "row"
    BY DEF Row
  <2>5. IsSeq(out') /\ Words(out') \subseteq Words(out) \cup {"text", "row"}
    <3>1. /\ IsSeq(Append(out, Row(src.held)))
          /\ Words(Append(out, Row(src.held))) = Words(out) \cup {"row"}
      BY <1>1, <2>4, WordsAppend
    <3>2. IsSeq(Narrate(out)) /\ Words(Narrate(out)) \subseteq Words(out) \cup {"text"}
      BY <1>1, SayIs
    <3> QED BY <1>1, <2>3, <3>1, <3>2
  <2> HIDE DEF Late, Plain
  <2> QED BY <1>11, <2>1, <2>2, <2>5
<1>12. CASE OpenInteractive
  <2>1. opts' = opts /\ out' = Append(out, Item("header")) /\ pc' \in Late
    BY <1>12 DEF OpenInteractive
  <2>2. Item("header").what = "header"
    BY DEF Item
  <2> QED BY <1>4, <2>1, <2>2
<1>13. CASE TickRow
  <2>1. /\ opts' = opts /\ out' \in {out, Append(out, Item("bench row"))}
        /\ pc' \in {"tick", "ok"}
    BY <1>13, FinishIs DEF TickRow
  <2>2. Item("bench row").what = "bench row" /\ pc' \in Late
    BY <2>1 DEF Item, Over
  <2> QED BY <1>3, <1>4, <2>1, <2>2
<1>14. CASE Poll \/ ReadKey \/ Sleep \/ Exited \/ UNCHANGED vars
  BY <1>3, <1>14 DEF Poll, ReadKey, Sleep, Exited, vars
<1>15. CASE OpenConsole
  <2>1. opts' = opts /\ out' = out /\ pc = "console" /\ pc \notin Late
    BY <1>15 DEF OpenConsole, Loops, Over
  <2> QED BY <1>3, <2>1
<1>16. CASE World
  <2>1. opts' = opts /\ out' = out /\ (pc' = pc \/ pc' = "killed")
    BY <1>16 DEF World, NextRecorded, NextRow, NextDemo, NextLive, Take, EndOfSource, Traffic,
                 Broadcast, PressKey, Interrupt
  <2>2. pc' \notin Late => pc \notin Late
    BY <2>1 DEF Over
  <2> QED BY <1>3, <2>1, <2>2
<1> HIDE DEF Goal
<1> QED BY <1>2, <1>5, <1>6, <1>7, <1>8, <1>9, <1>10, <1>11, <1>12, <1>13, <1>14, <1>15, <1>16
        DEF Next, Main

LEMMA OutStep == OptionsInv /\ IdleInv /\ OutInv /\ [Next]_vars => OutInv'
<1> SUFFICES ASSUME OptionsInv, IdleInv, OutInv, [Next]_vars PROVE OutInv'
  OBVIOUS
<1>1. /\ IsSeq(out')
      /\ opts'.wifi = opts.wifi \/ Words(out') \subseteq {"text"}
      /\ \/ /\ Words(out') \subseteq Words(out) \cup {"text"}
            /\ pc' \notin Loops \cup Over \cup {"tick"} =>
                  pc \notin Loops \cup Over \cup {"tick"}
         \/ /\ pc' \in Loops \cup Over \cup {"tick"}
            /\ \E w \in opts.wifi \cup {"state", "hint", "header", "bench row", "status",
                                        "examples", "help", "signals", "led legend"} :
                  Words(out') \subseteq Words(out) \cup {"text", "header", w}
         \/ /\ Dispatched /\ pc' = pc /\ pc \in Loops
            /\ Words(out') \subseteq Words(out) \cup {"text", "row"}
  BY OutChanges
<1>2. Words(out) \cap DeviceOps \subseteq opts.wifi
  BY DEF OutInv
<1>3. Words(out') \cap DeviceOps \subseteq opts'.wifi
  <2>1. CASE Words(out') \subseteq {"text"}
    BY <2>1 DEF DeviceOps
  <2>2. CASE opts'.wifi = opts.wifi
    <3>1. CASE Words(out') \subseteq Words(out) \cup {"text"}
      BY <1>2, <2>2, <3>1 DEF DeviceOps
    <3>2. CASE Words(out') \subseteq Words(out) \cup {"text", "row"}
      BY <1>2, <2>2, <3>2 DEF DeviceOps
    <3>3. ASSUME NEW w \in opts.wifi \cup {"state", "hint", "header", "bench row", "status",
                                          "examples", "help", "signals", "led legend"},
                 Words(out') \subseteq Words(out) \cup {"text", "header", w}
          PROVE  Words(out') \cap DeviceOps \subseteq opts'.wifi
      <4>1. {"text", "header", w} \cap DeviceOps \subseteq opts.wifi
        BY <3>3 DEF DeviceOps
      <4> QED BY <1>2, <2>2, <3>3, <4>1
    <3> QED BY <1>1, <3>1, <3>2, <3>3
  <2> QED BY <1>1, <2>1, <2>2
<1>4. pc' \notin Loops \cup Over \cup {"tick"} => Words(out') \subseteq {"text"}
  BY <1>1 DEF OutInv
<1> QED BY <1>1, <1>3, <1>4 DEF OutInv

\* What is read of a device's console: nothing before runStatus(), no whole status line while
\* it reads, and none left over if it fails.
Bytes == {"noise", "[STATE]", "eol", "OK", "ERROR"}
ReplyInv ==
    /\ DOMAIN reply = {"got", "queued"}
    /\ reply.got \in Seq(Bytes) /\ reply.queued \in Seq(Bytes)
    /\ pc \notin {"reading"} \cup Over => reply.got = <<>> /\ reply.queued = <<>>
    /\ pc = "reading" => ~ StateLine(reply.got)
    /\ pc = "failed" => ~ StateLine(reply.got \o reply.queued)

\* Nothing is no status line.
LEMMA NoStateLine == ~ StateLine(<<>>) /\ ~ StateLine(<<>> \o <<>>)
<1>1. <<>> \o <<>> = <<>>
  OBVIOUS
<1> QED BY <1>1 DEF StateLine

\* The console and runStatus() alone read what the device says.
LEMMA ReplyChanges ==
    [Next]_vars =>
       \/ /\ UNCHANGED reply
          /\ \/ pc' = pc \/ pc' = "killed"
             \/ pc \notin {"reading"} \cup Over /\ pc' # "reading"
       \/ OpenConsole \/ ReadStatus
<1> DEFINE Quiet == /\ UNCHANGED reply
                    /\ \/ pc' = pc \/ pc' = "killed"
                       \/ pc \notin {"reading"} \cup Over /\ pc' # "reading"
<1> SUFFICES ASSUME [Next]_vars PROVE Quiet \/ OpenConsole \/ ReadStatus
  OBVIOUS
<1>1. CASE Start \/ Dispatch \/ Scan \/ Discover \/ Status
  <2>1. UNCHANGED reply
    BY <1>1 DEF Start, Dispatch, Scan, Discover, Status
  <2>2. pc \notin {"reading"} \cup Over
    BY <1>1 DEF Start, Dispatch, Scan, Discover, Status, Over
  <2>3. pc' # "reading"
    <3>1. Runner(opts) # "reading"
      BY DEF Runner, runTransport
    <3> QED BY <1>1, <3>1 DEF Start, Dispatch, Scan, Discover, Status, StartPoll, Finish
  <2> QED BY <2>1, <2>2, <2>3
<1>2. CASE autoDiscoverAndAssign \/ EndPoll
  <2>1. UNCHANGED reply
    BY <1>2 DEF autoDiscoverAndAssign, EndPoll
  <2>2. pc \notin {"reading"} \cup Over
    BY <1>2 DEF autoDiscoverAndAssign, EndPoll, Polling, Over
  <2>3. pc' # "reading"
    <3>1. runTransport("usb:path") # "reading" /\ runTransport("tcp:host") # "reading"
      BY DEF runTransport
    <3> QED BY <1>2, <3>1 DEF autoDiscoverAndAssign, EndPoll, StartPoll, Finish
  <2> QED BY <2>1, <2>2, <2>3
<1>3. CASE Provision \/ OpenReplay \/ OpenCsvReplay \/ OpenLive \/ RunBle \/ EndFrames
             \/ OpenInteractive \/ TickRow
  <2>1. UNCHANGED reply
    BY <1>3 DEF Provision, OpenReplay, OpenCsvReplay, OpenLive, RunBle, EndFrames,
                OpenInteractive, TickRow
  <2>2. pc \notin {"reading"} \cup Over
    BY <1>3 DEF Provision, OpenReplay, OpenCsvReplay, OpenLive, RunBle, EndFrames,
                OpenInteractive, TickRow, Over
  <2>3. pc' # "reading"
    BY <1>3, <2>2, FinishIs
       DEF Provision, OpenReplay, OpenCsvReplay, OpenLive, RunBle, EndFrames,
           OpenInteractive, TickRow, Finish
  <2> QED BY <2>1, <2>2, <2>3
<1>4. CASE Poll \/ Sleep \/ Dispatched \/ ReadKey
  BY <1>4 DEF Poll, Sleep, Dispatched, ReadKey
<1>5. CASE World
  BY <1>5 DEF World, NextRecorded, NextRow, NextDemo, NextLive, Take, EndOfSource, Traffic,
              Broadcast, PressKey, Interrupt
<1>6. CASE Exited \/ UNCHANGED vars
  BY <1>6 DEF Exited, vars
<1> HIDE DEF Quiet
<1> QED BY <1>1, <1>2, <1>3, <1>4, <1>5, <1>6 DEF Next, Main

LEMMA ReplyStep == ReplyInv /\ [Next]_vars => ReplyInv'
<1> SUFFICES ASSUME ReplyInv, [Next]_vars PROVE ReplyInv'
  OBVIOUS
<1>1. CASE /\ UNCHANGED reply
           /\ \/ pc' = pc \/ pc' = "killed"
              \/ pc \notin {"reading"} \cup Over /\ pc' # "reading"
  <2>1. CASE pc' = pc \/ pc' = "killed"
    BY <1>1, <2>1 DEF ReplyInv, Over, StateLine
  <2>2. CASE pc \notin {"reading"} \cup Over /\ pc' # "reading"
    <3>1. reply.got = <<>> /\ reply.queued = <<>> /\ reply' = reply
      BY <1>1, <2>2 DEF ReplyInv
    <3>2. ~ StateLine(reply'.got \o reply'.queued)
      BY <3>1, NoStateLine
    <3> QED BY <2>2, <3>1, <3>2 DEF ReplyInv
  <2> QED BY <1>1, <2>1, <2>2
<1>2. CASE OpenConsole
  <2>1. pc = "console" /\ reply.got = <<>> /\ reply.queued = <<>>
    BY <1>2 DEF OpenConsole, ReplyInv, Over
  <2>2. CASE UNCHANGED reply /\ pc' \in {"failed", "reading"}
    <3>1. ~ StateLine(reply'.got) /\ ~ StateLine(reply'.got \o reply'.queued)
      BY <2>1, <2>2, NoStateLine
    <3> QED BY <2>1, <2>2, <3>1 DEF ReplyInv, Over
  <2>3. CASE pc' = "reading"
              /\ \E bytes \in Acks : reply' = [reply EXCEPT !.queued = AckRest(bytes)]
    <3>1. PICK bytes \in Acks : reply' = [reply EXCEPT !.queued = AckRest(bytes)]
      BY <2>3
    <3>2. DOMAIN reply' = DOMAIN reply /\ reply'.got = reply.got /\ reply'.queued = AckRest(bytes)
      BY <3>1 DEF ReplyInv
    <3>3. bytes \in Seq(Bytes)
      <4>1. {"OK", "eol", "[STATE]", "ERROR"} \subseteq Bytes
        BY DEF Bytes
      <4>2. /\ <<"OK", "eol">> \in Seq(Bytes) /\ <<"ERROR", "eol">> \in Seq(Bytes)
            /\ <<"OK", "eol", "[STATE]", "eol">> \in Seq(Bytes) /\ <<>> \in Seq(Bytes)
        BY <4>1
      <4> QED BY <4>2 DEF Acks
    <3>4. AckRest(bytes) \in Seq(Bytes)
      BY <3>3 DEF AckRest
    <3>5. ~ StateLine(reply'.got)
      BY <2>1, <3>2, NoStateLine
    <3> QED BY <2>1, <2>3, <3>2, <3>4, <3>5 DEF ReplyInv, Over
  <2> QED BY <1>2, <2>2, <2>3, FinishIs DEF OpenConsole
<1>3. CASE ReadStatus
  <2>1. pc = "reading" /\ ~ StateLine(reply.got)
    BY <1>3 DEF ReadStatus, ReplyInv
  <2>2. CASE /\ reply.queued = <<>> /\ pc' = "failed" /\ UNCHANGED reply
    <3>1. reply'.got \o reply'.queued = reply.got
      BY <2>2 DEF ReplyInv
    <3> QED BY <2>1, <2>2, <3>1 DEF ReplyInv, Over
  <2>3. CASE \E piece \in IF reply.queued # <<>> THEN {reply.queued}
                            ELSE {<<"noise">>, <<"[STATE]">>, <<"eol">>} :
                /\ reply' = [got |-> reply.got \o piece, queued |-> <<>>]
                /\ \/ StateLine(reply'.got) /\ pc' = "ok"
                   \/ ~ StateLine(reply'.got) /\ pc' = pc
    <3>1. PICK piece \in IF reply.queued # <<>> THEN {reply.queued}
                         ELSE {<<"noise">>, <<"[STATE]">>, <<"eol">>} :
                /\ reply' = [got |-> reply.got \o piece, queued |-> <<>>]
                /\ \/ StateLine(reply'.got) /\ pc' = "ok"
                   \/ ~ StateLine(reply'.got) /\ pc' = pc
      BY <2>3
    <3>2. piece \in Seq(Bytes)
      <4>1. {"noise", "[STATE]", "eol"} \subseteq Bytes
        BY DEF Bytes
      <4>2. /\ <<"noise">> \in Seq(Bytes) /\ <<"[STATE]">> \in Seq(Bytes)
            /\ <<"eol">> \in Seq(Bytes)
        BY <4>1
      <4>3. reply.queued \in Seq(Bytes)
        BY DEF ReplyInv
      <4> QED BY <4>2, <4>3
    <3>3. /\ DOMAIN reply' = {"got", "queued"} /\ reply'.got \in Seq(Bytes)
          /\ reply'.queued \in Seq(Bytes)
      BY <3>1, <3>2 DEF ReplyInv
    <3> QED BY <2>1, <3>1, <3>3 DEF ReplyInv, Over
  <2> QED BY <1>3, <2>1, <2>2, <2>3, FinishIs DEF ReadStatus
<1> QED BY <1>1, <1>2, <1>3, ReplyChanges

\* What validation lets through fits the runner main() picks: no runner is entered with a
\* target, a vehicle or an operation it does not know, and no status line that came is missed
\* (CliOptions::validateOptions, main, runStatusFlow, ProvisioningRunner::runStatus).
THEOREM DispatchFits == Spec => []RunnersFit
<1> DEFINE HostInv == OptionsInv /\ IdleInv /\ OutInv /\ ReplyInv
<1>1. Init => HostInv
  <2> SUFFICES ASSUME Init PROVE HostInv
    OBVIOUS
  <2>1. Parsed(opts) /\ pc = "start"
    BY ParseArgsIs DEF Init
  <2>2. OptionsInv
    BY <2>1 DEF OptionsInv, OptionsFit, Pcs
  <2>3. IdleInv
    BY DEF Init, IdleInv
  <2>4. OutInv
    BY DEF Init, OutInv, IsSeq, Words, DeviceOps
  <2>5. ReplyInv
    BY <2>1 DEF Init, ReplyInv, Over
  <2> QED BY <2>2, <2>3, <2>4, <2>5
<1>2. HostInv /\ [Next]_vars => HostInv'
  BY OptionsStep, IdleStep, OutStep, ReplyStep
<1>3. HostInv => RunnersFit
  <2> SUFFICES ASSUME HostInv PROVE RunnersFit
    OBVIOUS
  <2>1. pc # "no source"
    BY DEF OptionsInv, Pcs
  <2>2. /\ pc \in {"replay", "frames", "csv replay", "rows", "live", "lines"} =>
              opts.wifi = {} /\ opts.vehicle \in Registered
        /\ pc \in {"ble", "tick"} =>
              opts.wifi = {} /\ opts.vehicle \in Registered \cup {"auto"}
    BY DEF OptionsInv, OptionsFit
  <2>3. {Item(o) : o \in {"clear", "reboot", "set"} \ opts.wifi} \cap ToSet(out) = {}
    <3>1. ASSUME NEW o \in {"clear", "reboot", "set"} \ opts.wifi, Item(o) \in ToSet(out)
          PROVE  FALSE
      <4>1. PICK i \in DOMAIN out : out[i] = Item(o)
        BY <3>1 DEF ToSet
      <4>2. o \in Words(out)
        BY <4>1 DEF Words, Item
      <4> QED BY <4>2 DEF OutInv, DeviceOps
    <3> QED BY <3>1
  <2>4. pc \in {"console", "provision"} =>
           opts.target = "" /\ (createProvisioningPort(opts.transport) = "" =>
                                   opts.transport = "usb:")
    <3>1. ASSUME pc \in {"console", "provision"}
          PROVE  /\ opts.target = ""
                 /\ opts.transport \in {"", "auto", "usb:path", "usb:", "tcp:host"}
      BY <3>1 DEF OptionsInv, OptionsFit
    <3>2. \A t \in {"", "auto", "usb:path", "tcp:host"} : createProvisioningPort(t) # ""
      BY DEF createProvisioningPort, normalizeTransport, isTcp, parseTcpTarget
    <3> QED BY <3>1, <3>2
  <2>5. pc = "failed" => ~ StateLine(reply.got \o reply.queued)
    BY DEF ReplyInv
  <2> QED BY <2>1, <2>2, <2>3, <2>4, <2>5 DEF RunnersFit
<1> QED BY <1>1, <1>2, <1>3, PTL DEF Spec

-----------------------------------------------------------------------------
(* The frames of a source and the rows they become.  What the properties   *)
(* say of the variables is said here of any source q with the options p.   *)

Frame == [n : Nat, ts : Nat, kind : {"decodes", "unmatched", "blank"}, pulled : Nat]
Numbered(q) == q \in Seq(Frame) /\ \A i \in DOMAIN q : q[i].n = i

RecordedOf(q, p) == {i \in DOMAIN q : q[i].kind # "blank" \/ p.target # "file:raw"}
Outside(q, p, i) == \/ ~ (p.startFrom /\ p.target = "file:raw")
                    \/ q[i].ts - q[Min(RecordedOf(q, p))].ts \notin 0..(SkipMs - 1)
KeptOf(q, p) == {i \in RecordedOf(q, p) : Outside(q, p, i)}
DueOf(q, h, p) == {i \in KeptOf(q, p) : q[i].kind = "decodes" /\ (i = Len(q) => h = NoFrame)}
DueTime(f, q, p) ==
    q[Min(KeptOf(q, p))].pulled
       + (IF p.target = "file:csv" /\ p.fixed THEN (f.n - 1) * IntervalMs
          ELSE f.ts - q[Min(KeptOf(q, p))].ts)

\* The least of some places stays the least when the next one joins them.
LEMMA MinGrows ==
    ASSUME NEW k \in Nat, NEW S \in SUBSET (1..k)
    PROVE  /\ S # {} => Min(S) \in S /\ Min(S \cup {k + 1}) = Min(S)
           /\ S = {} => Min(S \cup {k + 1}) = k + 1
<1> DEFINE T == S \cup {k + 1}
<1>1. S \in SUBSET Nat /\ T \in SUBSET Nat /\ T # {}
  OBVIOUS
<1> HIDE DEF T
<1>2. Min(T) \in T /\ \A y \in T : Min(T) <= y
  BY <1>1, LeastMember
<1>3. CASE S # {}
  <2>1. Min(S) \in S /\ \A y \in S : Min(S) <= y
    BY <1>1, <1>3, LeastMember
  <2>2. Min(S) \in 1..k /\ Min(S) \in T
    BY <2>1 DEF T
  <2>3. Min(T) <= Min(S)
    BY <1>2, <2>2
  <2>4. Min(T) \in S
    BY <1>1, <1>2, <2>2, <2>3 DEF T
  <2>5. Min(S) <= Min(T) /\ Min(T) \in 1..k
    BY <2>1, <2>4
  <2> QED BY <1>3, <2>1, <2>2, <2>3, <2>5 DEF T
<1>4. CASE S = {}
  BY <1>2, <1>4 DEF T
<1> QED BY <1>3, <1>4

\* One frame more: which frames are recorded and kept, and that those there were still are.
LEMMA FrameTaken ==
    ASSUME NEW q, Numbered(q), NEW p, NEW x \in Frame, x.n = Len(q) + 1
    PROVE  LET r == Append(q, x)  n == Len(q) + 1
           IN  /\ Numbered(r) /\ n \in Nat /\ Len(r) = n /\ r[n] = x
               /\ DOMAIN q = 1..Len(q) /\ DOMAIN r = 1..n
               /\ \A i \in DOMAIN q : r[i] = q[i]
               /\ RecordedOf(q, p) \subseteq DOMAIN q /\ KeptOf(q, p) \subseteq RecordedOf(q, p)
               /\ RecordedOf(r, p) = RecordedOf(q, p) \cup
                     {i \in {n} : x.kind # "blank" \/ p.target # "file:raw"}
               /\ RecordedOf(q, p) # {} =>
                     /\ Min(RecordedOf(q, p)) \in RecordedOf(q, p)
                     /\ Min(RecordedOf(r, p)) = Min(RecordedOf(q, p))
               /\ RecordedOf(q, p) = {} /\ n \in RecordedOf(r, p) => Min(RecordedOf(r, p)) = n
               /\ KeptOf(r, p) = KeptOf(q, p)
                                      \cup {i \in RecordedOf(r, p) : i = n /\ Outside(r, p, n)}
               /\ KeptOf(q, p) # {} =>
                     /\ Min(KeptOf(q, p)) \in KeptOf(q, p)
                     /\ Min(KeptOf(r, p)) = Min(KeptOf(q, p))
               /\ KeptOf(q, p) = {} /\ n \in KeptOf(r, p) => Min(KeptOf(r, p)) = n
<1> DEFINE r == Append(q, x)  k == Len(q)  n == k + 1
           R == RecordedOf(q, p)  S == RecordedOf(r, p)  K == KeptOf(q, p)  L == KeptOf(r, p)
<1>1. /\ r \in Seq(Frame) /\ k \in Nat /\ n \in Nat /\ Len(r) = n /\ r[n] = x
      /\ DOMAIN q = 1..k /\ DOMAIN r = 1..n /\ \A i \in DOMAIN q : r[i] = q[i]
  BY DEF Numbered
<1>2. Numbered(r)
  <2>1. ASSUME NEW i \in 1..n PROVE r[i].n = i
    <3>1. CASE i = n
      BY <1>1, <3>1
    <3>2. CASE i \in 1..k
      BY <1>1, <3>2 DEF Numbered
    <3> QED BY <1>1, <3>1, <3>2
  <2> HIDE DEF r
  <2> QED BY <1>1, <2>1 DEF Numbered
<1> HIDE DEF r
<1>3. R \subseteq DOMAIN q /\ K \subseteq R /\ K \subseteq 1..k /\ R \subseteq 1..k
  BY <1>1 DEF RecordedOf, KeptOf
<1>4. S = R \cup {i \in {n} : x.kind # "blank" \/ p.target # "file:raw"}
  <2>1. ASSUME NEW i \in 1..n
        PROVE  i \in S <=> i \in R \cup {j \in {n} : x.kind # "blank" \/ p.target # "file:raw"}
    <3>1. CASE i = n
      <4>1. n \notin R
        BY <1>1, <1>3
      <4> QED BY <1>1, <3>1, <4>1 DEF RecordedOf
    <3>2. CASE i \in 1..k /\ i # n
      BY <1>1, <3>2 DEF RecordedOf
    <3> QED BY <1>1, <3>1, <3>2
  <2>2. S \subseteq 1..n /\ R \subseteq 1..n /\ n \in 1..n
    BY <1>1, <1>3 DEF RecordedOf
  <2> QED BY <2>1, <2>2
<1>5. R # {} => Min(R) \in R /\ Min(S) = Min(R)
  <2>1. S = R \/ S = R \cup {n}
    BY <1>4
  <2> HIDE DEF R, S
  <2> QED BY <1>1, <1>3, <2>1, MinGrows
<1>6. R = {} /\ n \in S => Min(S) = n
  <2>1. R = {} /\ n \in S => S = R \cup {n}
    BY <1>4
  <2> HIDE DEF R, S
  <2> QED BY <1>1, <1>3, <2>1, MinGrows
<1>7. \A i \in R : Outside(r, p, i) <=> Outside(q, p, i)
  <2>1. TAKE i \in R
  <2>2. Min(S) = Min(R) /\ Min(R) \in 1..k /\ i \in 1..k
    BY <1>3, <1>5
  <2>3. r[i] = q[i] /\ r[Min(S)] = q[Min(R)]
    BY <1>1, <2>2
  <2> QED BY <2>3 DEF Outside
<1>8. L = K \cup {i \in S : i = n /\ Outside(r, p, n)}
  <2>1. L = {i \in S : Outside(r, p, i)} /\ K = {i \in R : Outside(q, p, i)}
    BY DEF KeptOf
  <2>2. R \subseteq S /\ S \subseteq R \cup {n}
    BY <1>4
  <2>3. n \notin R
    BY <1>1, <1>3
  <2> HIDE DEF L, K, S, R
  <2> QED BY <1>7, <2>1, <2>2, <2>3
<1>9. L = K \/ L = K \cup {n}
  BY <1>8
<1>10. K # {} => Min(K) \in K /\ Min(L) = Min(K)
  <2> HIDE DEF K, L
  <2> QED BY <1>1, <1>3, <1>9, MinGrows
<1>11. K = {} /\ n \in L => Min(L) = n
  <2>1. K = {} /\ n \in L => L = K \cup {n}
    BY <1>9
  <2> HIDE DEF K, L
  <2> QED BY <1>1, <1>3, <2>1, MinGrows
<1> HIDE DEF R, S, K, L, k
<1> QED BY <1>1, <1>2, <1>3, <1>4, <1>5, <1>6, <1>8, <1>10, <1>11 DEF R, S, K, L, k, r

HoldsOf(sink, places, q) ==
    /\ {sink[i].frame.n : i \in Rows(sink)} = places
    /\ \A i \in Rows(sink) : sink[i].frame = q[sink[i].frame.n]
    /\ \A i, j \in Rows(sink) : i < j => sink[i].frame.n < sink[j].frame.n

\* The rows of a sink that grew by one item.
LEMMA RowsAppend ==
    ASSUME NEW s, IsSeq(s), NEW x
    PROVE  /\ Rows(Append(s, x)) = Rows(s) \cup {i \in {Len(s) + 1} : x.what = "row"}
           /\ Rows(s) \subseteq 1..Len(s) /\ Len(s) \in Nat
           /\ Append(s, x)[Len(s) + 1] = x
           /\ \A i \in Rows(s) : Append(s, x)[i] = s[i]
<1> DEFINE r == Append(s, x)
<1>1. /\ IsSeq(r) /\ Len(s) \in Nat /\ DOMAIN s = 1..Len(s) /\ DOMAIN r = 1..(Len(s) + 1)
      /\ r[Len(s) + 1] = x /\ \A i \in DOMAIN s : r[i] = s[i]
  BY AppendIs
<1> HIDE DEF r
<1>2. Rows(s) \subseteq 1..Len(s) /\ Rows(r) \subseteq 1..(Len(s) + 1)
  BY <1>1 DEF Rows
<1>3. ASSUME NEW i \in 1..(Len(s) + 1)
      PROVE  i \in Rows(r) <=> i \in Rows(s) \cup {j \in {Len(s) + 1} : x.what = "row"}
  <2>1. CASE i = Len(s) + 1
    <3>1. i \notin Rows(s)
      BY <1>1, <1>2, <2>1
    <3> QED BY <1>1, <2>1, <3>1 DEF Rows
  <2>2. CASE i \in 1..Len(s) /\ i # Len(s) + 1
    BY <1>1, <2>2 DEF Rows
  <2> QED BY <1>1, <2>1, <2>2
<1>4. Rows(r) = Rows(s) \cup {i \in {Len(s) + 1} : x.what = "row"}
  <2>1. Rows(s) \subseteq 1..(Len(s) + 1) /\ Len(s) + 1 \in 1..(Len(s) + 1)
    BY <1>1, <1>2
  <2> QED BY <1>2, <1>3, <2>1
<1>5. \A i \in Rows(s) : r[i] = s[i]
  BY <1>1, <1>2
<1> QED BY <1>1, <1>2, <1>4, <1>5 DEF r

\* A frame more in the source leaves what a sink holds alone.
LEMMA HoldsTaken ==
    ASSUME NEW q, NEW r, NEW sink, NEW places, HoldsOf(sink, places, q),
           \A i \in places : r[i] = q[i]
    PROVE  HoldsOf(sink, places, r)
<1>1. \A i \in Rows(sink) : sink[i].frame.n \in places
  BY DEF HoldsOf
<1> QED BY <1>1 DEF HoldsOf

\* A row more is the row of one place more, if it is behind the others.
LEMMA HoldsRow ==
    ASSUME NEW q, NEW sink, IsSeq(sink), NEW places \in SUBSET Nat, HoldsOf(sink, places, q),
           NEW x, x.what = "row", x.frame = q[x.frame.n], x.frame.n \in Nat,
           \A i \in places : i < x.frame.n
    PROVE  HoldsOf(Append(sink, x), places \cup {x.frame.n}, q)
<1> DEFINE s == Append(sink, x)  k == Len(sink)  m == x.frame.n
<1>1. /\ Rows(s) = Rows(sink) \cup {k + 1} /\ Rows(sink) \subseteq 1..k /\ k \in Nat
      /\ s[k + 1] = x /\ \A i \in Rows(sink) : s[i] = sink[i]
  BY RowsAppend
<1>2. \A i \in Rows(sink) : sink[i].frame.n \in places
  BY DEF HoldsOf
<1> HIDE DEF s, k, m
<1>3. {s[i].frame.n : i \in Rows(s)} = places \cup {m}
  <2>1. {sink[i].frame.n : i \in Rows(sink)} = places
    BY DEF HoldsOf
  <2>2. {s[i].frame.n : i \in Rows(sink)} = {sink[i].frame.n : i \in Rows(sink)}
    BY <1>1
  <2>3. s[k + 1].frame.n = m
    BY <1>1 DEF m
  <2> QED BY <1>1, <2>1, <2>2, <2>3
<1>4. \A i \in Rows(s) : s[i].frame = q[s[i].frame.n]
  BY <1>1 DEF HoldsOf
<1>5. ASSUME NEW i \in Rows(s), NEW j \in Rows(s), i < j
      PROVE  s[i].frame.n < s[j].frame.n
  <2>1. CASE i \in Rows(sink) /\ j \in Rows(sink)
    BY <1>1, <1>5, <2>1 DEF HoldsOf
  <2>2. CASE i \in Rows(sink) /\ j = k + 1
    <3>1. s[i].frame.n \in places
      BY <1>1, <1>2, <2>2
    <3> QED BY <1>1, <2>2, <3>1 DEF m
  <2>3. CASE i = k + 1
    BY <1>1, <1>5, <2>3
  <2> QED BY <1>1, <1>5, <2>1, <2>2, <2>3
<1> QED BY <1>3, <1>4, <1>5 DEF HoldsOf, s, m

\* What a schedule remembers of the frames it has seen: the first that was recorded, and the
\* first that was kept and when that one was read.
ScheduleFields == {"baselineSet", "emittedAny", "recordingBaseline", "pacingBaseline", "start",
                   "rowsPaced"}
ScheduleOK(q, d, p) ==
    /\ DOMAIN d = ScheduleFields
    /\ p.target \in {"file:raw", "file:csv"} =>
          /\ d.emittedAny <=> KeptOf(q, p) # {}
          /\ KeptOf(q, p) # {} => /\ d.pacingBaseline = q[Min(KeptOf(q, p))].ts
                                  /\ d.start = q[Min(KeptOf(q, p))].pulled
    /\ p.target = "file:raw" =>
          /\ d.baselineSet <=> RecordedOf(q, p) # {}
          /\ RecordedOf(q, p) # {} => d.recordingBaseline = q[Min(RecordedOf(q, p))].ts
    /\ p.target = "file:csv" => d.rowsPaced = Len(q)

\* Frame f, which waits w from now, t, is written when it is due.
OnTime(f, w, q, p, t) ==
    p.target \in {"file:raw", "file:csv"} =>
       IF w > 0 THEN t = f.pulled /\ t + w = DueTime(f, q, p)
       ELSE IF f.pulled >= DueTime(f, q, p) THEN t = f.pulled
       ELSE t \in DueTime(f, q, p)..(DueTime(f, q, p) + MaxLate)

\* The constants of the clock.
LEMMA ClockConstants == /\ SkipMs \in Nat /\ MaxLate \in Nat /\ MaxWork \in Nat /\ MaxTs \in Nat
                        /\ IntervalMs \in Nat /\ IntervalMs > 0
BY HostAssumption

\* How long is left of a wait until a deadline.
LEMMA RemainingIs ==
    ASSUME NEW start \in Nat, NEW t \in Nat, NEW offset \in Int
    PROVE  LET w == Remaining(offset, t - start)
           IN  /\ w \in Nat
               /\ w > 0 => t + w = start + offset
               /\ w = 0 => t >= start + offset
BY DEF Remaining

\* A frame that anchors a schedule gives it its recording origin, and nothing else if it has one.
LEMMA AnchoredIs ==
    ASSUME NEW d, DOMAIN d = ScheduleFields, NEW x
    PROVE  LET e == Anchored(d, x)
           IN  /\ DOMAIN e = ScheduleFields /\ e.baselineSet
               /\ e.emittedAny = d.emittedAny /\ e.start = d.start /\ e.rowsPaced = d.rowsPaced
               /\ d.baselineSet => /\ e.recordingBaseline = d.recordingBaseline
                                   /\ e.pacingBaseline = d.pacingBaseline
               /\ ~ d.baselineSet => e.recordingBaseline = x.ts
<1>1. CASE d.baselineSet
  <2>1. Anchored(d, x) = d
    BY <1>1 DEF Anchored
  <2> QED BY <1>1, <2>1
<1>2. CASE ~ d.baselineSet
  <2>1. Anchored(d, x) = [d EXCEPT !.baselineSet = TRUE, !.recordingBaseline = x.ts,
                                   !.pacingBaseline = x.ts]
    BY <1>2 DEF Anchored
  <2> DEFINE e == [d EXCEPT !.baselineSet = TRUE, !.recordingBaseline = x.ts,
                            !.pacingBaseline = x.ts]
  <2>2. /\ DOMAIN e = ScheduleFields /\ e.emittedAny = d.emittedAny /\ e.start = d.start
        /\ e.rowsPaced = d.rowsPaced /\ e.recordingBaseline = x.ts
    BY DEF ScheduleFields
  <2>3. e.baselineSet
    BY DEF ScheduleFields
  <2> HIDE DEF e
  <2> QED BY <1>2, <2>1, <2>2, <2>3 DEF e
<1> QED BY <1>1, <1>2

\* A decoded capture: PaceRow() keeps the schedule, and its wait ends when the row is due.
LEMMA RowPaced ==
    ASSUME NEW q, Numbered(q), NEW p, p.target = "file:csv", NEW t \in Nat,
           NEW x \in Frame, x.n = Len(q) + 1, x.pulled = t, NEW d, ScheduleOK(q, d, p)
    PROVE  LET s == PaceRow(d, x, IF p.fixed THEN IntervalMs ELSE 0, t)
               r == Append(q, x)
           IN  /\ ~ s.skip /\ s.wait \in Nat /\ ScheduleOK(r, s.next, p)
               /\ Len(r) \in KeptOf(r, p) /\ OnTime(x, s.wait, r, p, t)
<1> DEFINE r == Append(q, x)  k == Len(q)  n == k + 1  K == KeptOf(q, p)  L == KeptOf(r, p)
           every == IF p.fixed THEN IntervalMs ELSE 0
           s == PaceRow(d, x, every, t)
<1>1. /\ Numbered(r) /\ k \in Nat /\ n \in Nat /\ Len(r) = n /\ r[n] = x
      /\ DOMAIN q = 1..k /\ \A i \in DOMAIN q : r[i] = q[i]
      /\ K \subseteq 1..k
      /\ n \in RecordedOf(r, p)
      /\ K # {} => Min(K) \in K /\ Min(L) = Min(K)
      /\ K = {} /\ n \in L => Min(L) = n
  <2>1. Numbered(r) /\ n \in Nat /\ Len(r) = n /\ r[n] = x /\ DOMAIN q = 1..k
    BY FrameTaken
  <2>4. \A i \in DOMAIN q : r[i] = q[i]
    BY FrameTaken
  <2>5. RecordedOf(q, p) \subseteq DOMAIN q /\ K \subseteq RecordedOf(q, p)
    BY FrameTaken
  <2>6. K # {} => Min(K) \in K /\ Min(L) = Min(K)
    BY FrameTaken
  <2>7. K = {} /\ n \in L => Min(L) = n
    BY FrameTaken
  <2>2. n \in RecordedOf(r, p)
    BY FrameTaken
  <2>3. k \in Nat
    BY DEF Numbered
  <2> HIDE DEF r, n, K, L, k
  <2> QED BY <2>1, <2>2, <2>3, <2>4, <2>5, <2>6, <2>7
<1>2. \A y, i : Outside(y, p, i)
  BY DEF Outside
<1>3. n \in L
  BY <1>1, <1>2 DEF KeptOf
<1>4. K = 1..k
  BY <1>1, <1>2 DEF KeptOf, RecordedOf
<1>5. /\ DOMAIN d = ScheduleFields /\ (d.emittedAny <=> K # {}) /\ d.rowsPaced = k
      /\ K # {} => d.pacingBaseline = q[Min(K)].ts /\ d.start = q[Min(K)].pulled
  BY DEF ScheduleOK
<1>6. x.ts \in Nat /\ x.pulled \in Nat
  BY DEF Frame
<1> HIDE DEF r, n, K, L, every
<1>7. CASE K = {}
  <2>1. k = 0 /\ n = 1 /\ Min(L) = 1 /\ r[1] = x
    BY <1>1, <1>3, <1>4, <1>7 DEF n
  <2>2. ~ d.emittedAny
    BY <1>5, <1>7
  <2>3. /\ s.skip = FALSE /\ s.wait = 0
        /\ s.next = [d EXCEPT !.emittedAny = TRUE, !.pacingBaseline = x.ts, !.start = t,
                              !.rowsPaced = 1]
    BY <2>2 DEF PaceRow
  <2>4. DOMAIN s.next = ScheduleFields /\ s.next.pacingBaseline = x.ts /\ s.next.start = t
        /\ s.next.rowsPaced = 1
    BY <1>5, <2>3 DEF ScheduleFields
  <2>5. s.next.emittedAny
    BY <1>5, <2>3 DEF ScheduleFields
  <2> HIDE DEF s
  <2>6. ScheduleOK(r, s.next, p)
    BY <1>1, <1>3, <2>1, <2>4, <2>5 DEF ScheduleOK, L
  <2>7. DueTime(x, r, p) = t
    <3>1. x.n = 1 /\ (x.n - 1) * IntervalMs = 0 /\ x.ts - x.ts = 0
      BY <1>6, <2>1, ClockConstants
    <3> QED BY <1>6, <2>1, <3>1 DEF DueTime, L
  <2> QED BY <1>1, <1>3, <2>3, <2>6, <2>7 DEF OnTime, s, r, L, every
<1>8. CASE K # {}
  <2> DEFINE m == Min(K)
             offset == IF every > 0 THEN d.rowsPaced * every ELSE x.ts - d.pacingBaseline
  <2>1. /\ m \in 1..k /\ Min(L) = m /\ r[m] = q[m] /\ d.emittedAny
        /\ d.pacingBaseline = q[m].ts /\ d.start = q[m].pulled
    BY <1>1, <1>5, <1>8
  <2>2. q[m] \in Frame /\ q[m].ts \in Nat /\ q[m].pulled \in Nat
    <3>1. q[m] \in Frame
      BY <1>1, <2>1 DEF Numbered
    <3> QED BY <3>1 DEF Frame
  <2>3. /\ s.skip = FALSE /\ s.wait = Remaining(offset, t - d.start)
        /\ s.next = [d EXCEPT !.rowsPaced = @ + 1]
    BY <2>1 DEF PaceRow
  <2>4. DOMAIN s.next = ScheduleFields /\ s.next.pacingBaseline = d.pacingBaseline
        /\ s.next.start = d.start /\ s.next.rowsPaced = k + 1
    BY <1>5, <2>3 DEF ScheduleFields
  <2>5. s.next.emittedAny = d.emittedAny
    BY <1>5, <2>3 DEF ScheduleFields
  <2> HIDE DEF s, m
  <2>6. ScheduleOK(r, s.next, p)
    BY <1>1, <1>3, <2>1, <2>4, <2>5 DEF ScheduleOK, L, n
  <2>7. offset \in Int /\ DueTime(x, r, p) = q[m].pulled + offset
    <3>1. CASE p.fixed
      <4>1. every = IntervalMs /\ every > 0 /\ every \in Nat
        BY <3>1, ClockConstants DEF every
      <4>2. offset = k * IntervalMs /\ x.n - 1 = k
        BY <1>1, <1>5, <4>1 DEF n
      <4>3. DueTime(x, r, p) = q[m].pulled + (x.n - 1) * IntervalMs
        BY <2>1, <3>1 DEF DueTime, L
      <4> QED BY <1>1, <4>1, <4>2, <4>3
    <3>2. CASE ~ p.fixed
      <4>1. every = 0
        BY <3>2 DEF every
      <4>2. offset = x.ts - q[m].ts
        BY <2>1, <4>1
      <4>3. DueTime(x, r, p) = q[m].pulled + (x.ts - q[m].ts)
        BY <2>1, <3>2 DEF DueTime, L
      <4> QED BY <1>6, <2>2, <4>2, <4>3
    <3> QED BY <3>1, <3>2
  <2> HIDE DEF offset
  <2>8. /\ s.wait \in Nat /\ (s.wait > 0 => t + s.wait = DueTime(x, r, p))
        /\ (s.wait = 0 => t >= DueTime(x, r, p))
    <3> DEFINE a == q[m].pulled
    <3>1. a \in Nat /\ s.wait = Remaining(offset, t - a) /\ DueTime(x, r, p) = a + offset
      BY <2>1, <2>2, <2>3, <2>7
    <3> HIDE DEF a
    <3>2. LET w == Remaining(offset, t - a)
          IN  w \in Nat /\ (w > 0 => t + w = a + offset) /\ (w = 0 => t >= a + offset)
      BY <2>7, <3>1, RemainingIs
    <3> QED BY <3>1, <3>2
  <2>9. OnTime(x, s.wait, r, p, t)
    BY <1>6, <2>8 DEF OnTime
  <2> QED BY <1>1, <1>3, <2>3, <2>6, <2>8, <2>9 DEF s, r, L, every
<1> QED BY <1>7, <1>8

\* A frame that is skipped is before the window: --start-from counts from the first recorded one.
LEMMA WindowIs ==
    ASSUME NEW r, NEW p, p.target = "file:raw", NEW n \in Nat, NEW b \in Nat,
           NEW x \in Frame, r[n] = x, r[Min(RecordedOf(r, p))].ts = b,
           NEW e, e.recordingBaseline = b
    PROVE  BeforeWindow(x, e, IF p.startFrom THEN SkipMs ELSE 0) <=> ~ Outside(r, p, n)
<1> DEFINE S == RecordedOf(r, p)
<1>1. SkipMs \in Nat /\ x.ts \in Nat
  BY ClockConstants DEF Frame
<1>2. Outside(r, p, n) <=> ~ p.startFrom \/ x.ts - b \notin 0..(SkipMs - 1)
  BY DEF Outside
<1>3. CASE p.startFrom
  <2>1. BeforeWindow(x, e, SkipMs) <=> x.ts >= b /\ x.ts - b < SkipMs
    BY DEF BeforeWindow
  <2>2. x.ts >= b /\ x.ts - b < SkipMs <=> x.ts - b \in 0..(SkipMs - 1)
    BY <1>1
  <2> QED BY <1>2, <1>3, <2>1, <2>2
<1>4. CASE ~ p.startFrom
  <2>1. BeforeWindow(x, e, 0) <=> x.ts >= b /\ x.ts - b < 0
    BY DEF BeforeWindow
  <2>2. ~ (x.ts >= b /\ x.ts - b < 0)
    BY <1>1
  <2> QED BY <1>2, <1>4, <2>1, <2>2
<1> QED BY <1>3, <1>4

\* A raw capture: consider() skips the frames that are not to be written, keeps the schedule,
\* and the wait of a frame it does not skip ends when the frame is due.
LEMMA FrameConsidered ==
    ASSUME NEW q, Numbered(q), NEW p, p.target = "file:raw", NEW t \in Nat,
           NEW x \in Frame, x.n = Len(q) + 1, x.pulled = t, NEW d, ScheduleOK(q, d, p)
    PROVE  LET s == Consider(d, x, IF p.startFrom THEN SkipMs ELSE 0, t)
               r == Append(q, x)
           IN  /\ s.skip <=> Len(r) \notin KeptOf(r, p)
               /\ s.wait \in Nat /\ ScheduleOK(r, s.next, p)
               /\ ~ s.skip => OnTime(x, s.wait, r, p, t)
<1> DEFINE r == Append(q, x)  k == Len(q)  n == k + 1
           R == RecordedOf(q, p)  S == RecordedOf(r, p)  K == KeptOf(q, p)  L == KeptOf(r, p)
           skipMs == IF p.startFrom THEN SkipMs ELSE 0
           s == Consider(d, x, skipMs, t)
           e == Anchored(d, x)
<1>1. Numbered(r) /\ n \in Nat /\ Len(r) = n /\ r[n] = x /\ DOMAIN q = 1..k
  BY FrameTaken
<1>2. \A i \in DOMAIN q : r[i] = q[i]
  BY FrameTaken
<1>3. R \subseteq DOMAIN q /\ K \subseteq R
  BY FrameTaken
<1>4. S = R \cup {i \in {n} : x.kind # "blank" \/ p.target # "file:raw"}
  BY FrameTaken
<1>5. /\ R # {} => Min(R) \in R /\ Min(S) = Min(R)
      /\ R = {} /\ n \in S => Min(S) = n
  BY FrameTaken
<1>6. L = K \cup {i \in S : i = n /\ Outside(r, p, n)}
  BY FrameTaken
<1>7. /\ K # {} => Min(K) \in K /\ Min(L) = Min(K)
      /\ K = {} /\ n \in L => Min(L) = n
  BY FrameTaken
<1>8. k \in Nat /\ n \notin 1..k
  BY DEF Numbered
<1>9. n \notin R /\ n \notin K
  BY <1>1, <1>3, <1>8
<1>10. x.ts \in Nat /\ x.pulled \in Nat
       /\ \A i \in DOMAIN q : q[i].ts \in Nat /\ q[i].pulled \in Nat
  <2>1. ASSUME NEW i \in DOMAIN q PROVE q[i] \in Frame
    BY DEF Numbered
  <2> QED BY <2>1 DEF Frame
<1> HIDE DEF r, R, S, K, L, n, k, skipMs, s, e
<1>11. /\ DOMAIN d = ScheduleFields /\ (d.emittedAny <=> K # {}) /\ (d.baselineSet <=> R # {})
       /\ K # {} => d.pacingBaseline = q[Min(K)].ts /\ d.start = q[Min(K)].pulled
       /\ R # {} => d.recordingBaseline = q[Min(R)].ts
  BY DEF ScheduleOK, K, R
<1>12. K # {} => /\ Min(K) \in DOMAIN q /\ r[Min(L)] = q[Min(K)] /\ R # {}
  BY <1>2, <1>3, <1>7
<1>13. R # {} => Min(R) \in DOMAIN q /\ r[Min(S)] = q[Min(R)]
  BY <1>2, <1>3, <1>5
<1>14. CASE x.kind = "blank"
  <2>1. s.skip = TRUE /\ s.wait = 0 /\ s.next = d
    BY <1>14 DEF s, Consider, isFrameBlank
  <2>2. S = R
    BY <1>4, <1>14
  <2>3. L = K
    BY <1>6, <1>9, <2>2
  <2>4. ScheduleOK(r, d, p)
    BY <1>11, <1>12, <1>13, <2>2, <2>3 DEF ScheduleOK, L, S
  <2>5. n \notin L
    BY <1>9, <2>3
  <2> QED BY <1>1, <2>1, <2>4, <2>5 DEF s, skipMs, r, L
<1>15. CASE x.kind # "blank"
  <2> DEFINE b == r[Min(S)].ts
  <2>1. S = R \cup {n} /\ n \in S
    BY <1>4, <1>15
  <2>2. /\ DOMAIN e = ScheduleFields /\ e.emittedAny = d.emittedAny /\ e.start = d.start
        /\ e.rowsPaced = d.rowsPaced
        /\ d.baselineSet => /\ e.recordingBaseline = d.recordingBaseline
                            /\ e.pacingBaseline = d.pacingBaseline
        /\ ~ d.baselineSet => e.recordingBaseline = x.ts
    BY <1>11, AnchoredIs DEF e
  <2>3. e.baselineSet
    BY <1>11, AnchoredIs DEF e
  <2>4. e.recordingBaseline = b /\ b \in Nat
    <3>1. CASE R # {}
      BY <1>10, <1>11, <1>13, <2>2, <3>1
    <3>2. CASE R = {}
      BY <1>1, <1>5, <1>10, <1>11, <2>1, <2>2, <3>2
    <3> QED BY <3>1, <3>2
  <2> HIDE DEF b
  <2>5. BeforeWindow(x, e, skipMs) <=> ~ Outside(r, p, n)
    BY <1>1, <2>4, WindowIs DEF b, S, skipMs
  <2>6. K # {} => /\ e.pacingBaseline = r[Min(L)].ts /\ e.start = r[Min(L)].pulled
                  /\ e.pacingBaseline \in Nat /\ e.start \in Nat
    BY <1>10, <1>11, <1>12, <2>2
  <2>7. ASSUME NEW f, DOMAIN f = ScheduleFields, f.recordingBaseline = e.recordingBaseline,
               f.baselineSet, f.emittedAny <=> L # {},
               L # {} => f.pacingBaseline = r[Min(L)].ts /\ f.start = r[Min(L)].pulled
        PROVE  ScheduleOK(r, f, p)
    BY <2>1, <2>4, <2>7 DEF ScheduleOK, L, S, b
  <2>8. CASE ~ Outside(r, p, n)
    <3>1. s.skip = TRUE /\ s.wait = 0 /\ s.next = e
      BY <1>15, <2>5, <2>8 DEF s, Consider, isFrameBlank, e
    <3>2. L = K /\ n \notin L
      BY <1>6, <1>9, <2>8
    <3>3. e.emittedAny <=> L # {}
      BY <1>11, <2>2, <3>2
    <3>4. ScheduleOK(r, e, p)
      BY <2>2, <2>3, <2>6, <2>7, <3>2, <3>3
    <3> QED BY <1>1, <3>1, <3>2, <3>4 DEF s, skipMs, r, L
  <2>9. CASE Outside(r, p, n)
    <3>1. n \in L /\ L # {}
      BY <1>6, <2>1, <2>9
    <3>2. CASE K = {}
      <4> DEFINE f == [e EXCEPT !.pacingBaseline = x.ts, !.start = t, !.emittedAny = TRUE]
      <4>1. s.skip = FALSE /\ s.wait = 0 /\ s.next = f
        BY <1>11, <1>15, <2>5, <2>9, <3>2 DEF s, Consider, isFrameBlank, e
      <4>2. r[Min(L)] = x
        BY <1>1, <1>7, <3>1, <3>2
      <4>3. /\ DOMAIN f = ScheduleFields /\ f.recordingBaseline = e.recordingBaseline
            /\ f.pacingBaseline = x.ts /\ f.start = t
        BY <2>2 DEF ScheduleFields
      <4>4. f.baselineSet
        BY <2>2, <2>3 DEF ScheduleFields
      <4>5. f.emittedAny
        BY <2>2 DEF ScheduleFields
      <4> HIDE DEF f
      <4>6. ScheduleOK(r, f, p)
        BY <2>7, <3>1, <4>2, <4>3, <4>4, <4>5
      <4>7. DueTime(x, r, p) = t
        BY <1>10, <4>2 DEF DueTime, L
      <4>8. OnTime(x, 0, r, p, t)
        BY <4>7 DEF OnTime
      <4> QED BY <1>1, <3>1, <4>1, <4>6, <4>8 DEF s, skipMs, r, L
    <3>3. CASE K # {}
      <4> DEFINE a == e.start  o == x.ts - e.pacingBaseline
      <4>1. s.skip = FALSE /\ s.wait = Remaining(o, t - a) /\ s.next = e
        BY <1>11, <1>15, <2>5, <2>9, <3>3 DEF s, Consider, isFrameBlank, e
      <4>2. ScheduleOK(r, e, p)
        BY <1>11, <2>2, <2>3, <2>6, <2>7, <3>1, <3>3
      <4>3. DueTime(x, r, p) = a + o
        BY <2>6, <3>3 DEF DueTime, L
      <4>4. a \in Nat /\ o \in Int
        BY <1>10, <2>6, <3>3
      <4> HIDE DEF a, o
      <4>5. LET w == Remaining(o, t - a)
            IN  w \in Nat /\ (w > 0 => t + w = a + o) /\ (w = 0 => t >= a + o)
        BY <4>4, RemainingIs
      <4>6. OnTime(x, s.wait, r, p, t)
        BY <1>10, <4>1, <4>3, <4>5 DEF OnTime
      <4> QED BY <1>1, <3>1, <4>1, <4>2, <4>5, <4>6 DEF s, skipMs, r, L
    <3> QED BY <3>2, <3>3
  <2> QED BY <2>8, <2>9
<1> QED BY <1>14, <1>15

\* The source of a run: frames in their places, one of them held back until it is due.
Live == {"demo", "usb:path", "tcp:host"}
SourceFields == {"seen", "eof", "held", "wait", "schedule", "busy"}
SourceOK(s, p, t) ==
    /\ DOMAIN s = SourceFields /\ Numbered(s.seen)
    /\ p.target # "file:raw" => \A i \in DOMAIN s.seen : s.seen[i].kind # "blank"
    /\ s.wait \in Nat /\ ScheduleOK(s.seen, s.schedule, p)
    /\ s.held # NoFrame => /\ s.held = s.seen[Len(s.seen)]
                           /\ Len(s.seen) \in KeptOf(s.seen, p)
                           /\ OnTime(s.held, s.wait, s.seen, p, t)

\* The header of a sink comes once, and before every row.
HeaderFirst(o) == \E h \in DOMAIN o :
                     \A i \in DOMAIN o : /\ o[i] = Item("header") <=> i = h
                                         /\ o[i].what = "row" => i > h

\* The sinks of a run: stdout o, <base>.csv c and <base>.raw.txt w.
SinksOK(s, o, c, w, p) ==
    LET due == DueOf(s.seen, s.held, p)
    IN  /\ IsSeq(o) /\ IsSeq(c)
        /\ p.stdoutCsv \/ p.target = "file:csv" => HoldsOf(o, due, s.seen)
        /\ ~ (p.stdoutCsv \/ p.target = "file:csv") => Rows(o) = {}
        /\ p.log = "base" /\ p.target # "file:csv" => HoldsOf(c, due, s.seen)
        /\ p.log = "base" /\ p.target \in Live => w = s.seen
        /\ p.stdoutCsv => HeaderFirst(o)

\* Every row that was written, was written in its time.
Paced(s, o, p) ==
    p.target \in {"file:raw", "file:csv"} =>
       \A i \in Rows(o) :
          IF o[i].frame.pulled >= DueTime(o[i].frame, s.seen, p)
          THEN o[i].at = o[i].frame.pulled
          ELSE o[i].at \in DueTime(o[i].frame, s.seen, p)
                              ..(DueTime(o[i].frame, s.seen, p) + MaxLate)

RunOK(s, o, c, w, p, t) == SourceOK(s, p, t) /\ SinksOK(s, o, c, w, p) /\ Paced(s, o, p)

RowsInv ==
    /\ now \in Nat
    /\ src.seen = <<>> => Rows(out) = {}
    /\ pc \in Loops \/ src.seen # <<>> =>
          /\ opts.target \in {"file:raw", "file:csv"} \cup Live
          /\ RunOK(src, out, csv, raw, opts, now)

\* Once a frame is kept, no frame that follows moves a due time.
LEMMA DueTimeStays ==
    ASSUME NEW q, Numbered(q), NEW p, NEW x \in Frame, x.n = Len(q) + 1, KeptOf(q, p) # {},
           NEW f
    PROVE  DueTime(f, Append(q, x), p) = DueTime(f, q, p)
<1> DEFINE r == Append(q, x)  K == KeptOf(q, p)  L == KeptOf(r, p)
<1>1. \A i \in DOMAIN q : r[i] = q[i]
  BY FrameTaken
<1>2. K \subseteq DOMAIN q
  BY FrameTaken
<1>3. Min(K) \in K /\ Min(L) = Min(K)
  BY FrameTaken
<1> HIDE DEF r, K, L
<1>4. r[Min(L)] = q[Min(K)]
  BY <1>1, <1>2, <1>3
<1>5. DueTime(f, r, p) = DueTime(f, q, p)
  BY <1>4 DEF DueTime, K, L
<1> QED BY <1>5 DEF r

\* A frame that is held, or skipped, is not due yet.
LEMMA DueTaken ==
    ASSUME NEW q, Numbered(q), NEW p, NEW x \in Frame, x.n = Len(q) + 1, NEW h,
           h # NoFrame \/ Len(Append(q, x)) \notin KeptOf(Append(q, x), p)
    PROVE  LET r == Append(q, x)
           IN  /\ DueOf(r, h, p) = DueOf(q, NoFrame, p)
               /\ \A i \in DueOf(q, NoFrame, p) : r[i] = q[i]
<1> DEFINE r == Append(q, x)  k == Len(q)  n == k + 1  K == KeptOf(q, p)  L == KeptOf(r, p)
<1>1. n \in Nat /\ Len(r) = n /\ DOMAIN q = 1..k /\ k \in Nat
  BY FrameTaken DEF Numbered
<1>2. \A i \in DOMAIN q : r[i] = q[i]
  BY FrameTaken
<1>3. K \subseteq DOMAIN q
  BY FrameTaken
<1>4. L = K \cup {i \in RecordedOf(r, p) : i = n /\ Outside(r, p, n)}
  BY FrameTaken
<1>5. h # NoFrame \/ n \notin L
  BY <1>1
<1> HIDE DEF r, K, L
<1>6. DueOf(q, NoFrame, p) = {i \in K : q[i].kind = "decodes"}
  BY DEF DueOf, K
<1>7. DueOf(r, h, p) = {i \in L : r[i].kind = "decodes" /\ (i = n => h = NoFrame)}
  BY <1>1 DEF DueOf, L
<1>8. DueOf(r, h, p) = {i \in K : q[i].kind = "decodes"}
  <2>1. ASSUME NEW i \in K
        PROVE  i \in L /\ r[i] = q[i] /\ i # n
    BY <1>1, <1>2, <1>3, <1>4
  <2>2. \A i \in L : i = n \/ i \in K
    BY <1>4
  <2> QED BY <1>5, <1>7, <2>1, <2>2
<1> QED BY <1>2, <1>3, <1>6, <1>8 DEF r, K

\* Once the frame that is held has been dispatched it is due, if it decodes.
LEMMA DueReleased ==
    ASSUME NEW q, Numbered(q), NEW p, NEW h, h # NoFrame, Len(q) \in KeptOf(q, p)
    PROVE  LET k == Len(q)  due == DueOf(q, h, p)
           IN  /\ due \in SUBSET Nat /\ k \in Nat /\ \A i \in due : i < k
               /\ q[k].kind = "decodes" => DueOf(q, NoFrame, p) = due \cup {k}
               /\ q[k].kind # "decodes" => DueOf(q, NoFrame, p) = due
<1> DEFINE k == Len(q)  due == DueOf(q, h, p)  K == KeptOf(q, p)
<1>1. k \in Nat /\ DOMAIN q = 1..k /\ K \subseteq 1..k /\ k \in K
  BY DEF Numbered, KeptOf, RecordedOf
<1>2. /\ due = {i \in K : q[i].kind = "decodes" /\ i # k}
      /\ DueOf(q, NoFrame, p) = {i \in K : q[i].kind = "decodes"}
  BY DEF DueOf
<1> HIDE DEF k, due, K
<1>3. due \in SUBSET Nat /\ \A i \in due : i < k
  <2>1. \A i \in due : i \in 1..k /\ i # k
    BY <1>1, <1>2
  <2>2. \A i \in 1..k : i \in Nat /\ (i # k => i < k)
    BY <1>1
  <2> QED BY <2>1, <2>2
<1>4. /\ q[k].kind = "decodes" => DueOf(q, NoFrame, p) = due \cup {k}
      /\ q[k].kind # "decodes" => DueOf(q, NoFrame, p) = due
  BY <1>1, <1>2
<1> QED BY <1>1, <1>3, <1>4 DEF k, due

\* A frame is something to hold.
LEMMA FrameIs == \A x \in Frame : x # NoFrame /\ x.kind \in {"decodes", "unmatched", "blank"}
BY DEF Frame, NoFrame

\* The loops take frame x, which z says to skip or to hold: u is what the source becomes.
LEMMA SourceTaken ==
    ASSUME NEW p, NEW t \in Nat, NEW s, SourceOK(s, p, t),
           NEW x \in Frame, x.n = Len(s.seen) + 1, x.pulled = t,
           p.target # "file:raw" => x.kind # "blank",
           NEW z, z.skip <=> x.n \notin KeptOf(Append(s.seen, x), p), z.wait \in Nat,
           ScheduleOK(Append(s.seen, x), z.next, p),
           ~ z.skip => OnTime(x, z.wait, Append(s.seen, x), p, t),
           NEW u, DOMAIN u = SourceFields, u.seen = Append(s.seen, x), u.schedule = z.next,
           u.held = IF z.skip THEN NoFrame ELSE x, u.wait = z.wait
    PROVE  SourceOK(u, p, t)
<1> DEFINE q == s.seen  r == Append(q, x)  n == Len(q) + 1
<1>1. Numbered(q)
  BY DEF SourceOK
<1>2. Numbered(r) /\ n \in Nat /\ Len(r) = n /\ r[n] = x
      /\ DOMAIN r = 1..n /\ DOMAIN q = 1..Len(q)
  BY <1>1, FrameTaken
<1>3. \A i \in DOMAIN q : r[i] = q[i]
  BY <1>1, FrameTaken
<1>4. p.target # "file:raw" => \A i \in DOMAIN r : r[i].kind # "blank"
  <2>1. ASSUME p.target # "file:raw", NEW i \in DOMAIN r PROVE r[i].kind # "blank"
    <3>1. CASE i \in DOMAIN q
      BY <1>3, <2>1, <3>1 DEF SourceOK
    <3>2. CASE i = n
      BY <1>2, <2>1, <3>2
    <3>3. i \in 1..Len(q) \/ i = n
      <4>1. Len(q) \in Nat
        BY <1>1 DEF Numbered
      <4> QED BY <1>2, <4>1
    <3> QED BY <1>2, <3>1, <3>2, <3>3
  <2> QED BY <2>1
<1>5. u.held # NoFrame => ~ z.skip /\ u.held = x
  OBVIOUS
<1> HIDE DEF r
<1>6. u.seen = r /\ u.schedule = z.next /\ u.wait = z.wait /\ x.n = n
  BY DEF r
<1>7. ScheduleOK(r, z.next, p) /\ (~ z.skip => n \in KeptOf(r, p) /\ OnTime(x, z.wait, r, p, t))
  BY <1>6 DEF r
<1> QED BY <1>2, <1>4, <1>5, <1>6, <1>7 DEF SourceOK

LEMMA SinksTaken ==
    ASSUME NEW p, NEW t \in Nat, NEW s, SourceOK(s, p, t), s.held = NoFrame,
           NEW o, NEW c, NEW w, SinksOK(s, o, c, w, p), Paced(s, o, p),
           NEW x \in Frame, x.n = Len(s.seen) + 1,
           NEW u, u.seen = Append(s.seen, x),
           \/ u.held # NoFrame
           \/ Len(Append(s.seen, x)) \notin KeptOf(Append(s.seen, x), p),
           NEW v, p.log = "base" /\ p.target \in Live => v = Append(w, x)
    PROVE  SinksOK(u, o, c, v, p) /\ Paced(u, o, p)
<1> DEFINE q == s.seen  r == Append(q, x)  K == KeptOf(q, p)  due == DueOf(q, NoFrame, p)
<1>1. Numbered(q)
  BY DEF SourceOK
<1>2. /\ DueOf(r, u.held, p) = due
      /\ \A i \in due : r[i] = q[i]
      /\ K # {} => \A f : DueTime(f, r, p) = DueTime(f, q, p)
  <2> DEFINE h == u.held
  <2>1. h # NoFrame \/ Len(r) \notin KeptOf(r, p)
    OBVIOUS
  <2>2. x.n = Len(q) + 1
    OBVIOUS
  <2> HIDE DEF q, h
  <2>3. DueOf(r, h, p) = due /\ \A i \in due : r[i] = q[i]
    <3>1. /\ DueOf(Append(q, x), h, p) = DueOf(q, NoFrame, p)
          /\ \A i \in DueOf(q, NoFrame, p) : Append(q, x)[i] = q[i]
      BY <1>1, <2>1, <2>2, DueTaken, Zenon
    <3> QED BY <3>1
  <2>4. ASSUME K # {}, NEW f PROVE DueTime(f, r, p) = DueTime(f, q, p)
    <3>1. KeptOf(q, p) # {}
      BY <2>4
    <3> HIDE DEF K, due, r
    <3>2. DueTime(f, Append(q, x), p) = DueTime(f, q, p)
      BY <1>1, <2>2, <3>1, DueTimeStays
    <3> QED BY <3>2 DEF r
  <2> QED BY <2>3, <2>4 DEF h
<1>3. due \subseteq K
  BY DEF DueOf
<1> HIDE DEF q, r, due, K
<1>4. /\ IsSeq(o) /\ IsSeq(c)
      /\ p.stdoutCsv \/ p.target = "file:csv" => HoldsOf(o, due, q)
      /\ ~ (p.stdoutCsv \/ p.target = "file:csv") => Rows(o) = {}
      /\ p.log = "base" /\ p.target # "file:csv" => HoldsOf(c, due, q)
      /\ p.log = "base" /\ p.target \in Live => w = q
      /\ p.stdoutCsv => HeaderFirst(o)
  BY DEF SinksOK, due, q
<1>5. u.seen = r
  BY DEF r, q
<1>6. /\ HoldsOf(o, due, q) => HoldsOf(o, due, r)
      /\ HoldsOf(c, due, q) => HoldsOf(c, due, r)
  BY <1>2, HoldsTaken
<1>7. p.log = "base" /\ p.target \in Live => v = r
  BY <1>4 DEF r
<1>8. SinksOK(u, o, c, v, p)
  BY <1>2, <1>4, <1>5, <1>6, <1>7 DEF SinksOK
<1>9. Paced(u, o, p)
  <2>1. CASE Rows(o) = {}
    BY <2>1 DEF Paced
  <2>2. CASE Rows(o) # {}
    <3>1. HoldsOf(o, due, q)
      BY <1>4, <2>2
    <3>2. K # {}
      BY <1>3, <2>2, <3>1 DEF HoldsOf
    <3>3. \A f : DueTime(f, u.seen, p) = DueTime(f, s.seen, p)
      BY <1>2, <1>5, <3>2 DEF q
    <3> QED BY <3>3 DEF Paced
  <2> QED BY <2>1, <2>2
<1> QED BY <1>8, <1>9

\* A sleep lasts at least as long as asked, and ends in time.
LEMMA SourceSlept ==
    ASSUME NEW p, NEW t \in Nat, NEW s, SourceOK(s, p, t), s.held # NoFrame, s.wait > 0,
           NEW late \in 0..MaxLate,
           NEW u, DOMAIN u = SourceFields, u.seen = s.seen, u.schedule = s.schedule,
           u.held = s.held, u.wait = 0
    PROVE  t + s.wait + late \in Nat /\ SourceOK(u, p, t + s.wait + late)
<1> DEFINE f == s.held  q == s.seen  D == DueTime(f, q, p)  t1 == t + s.wait + late
<1>1. s.wait \in Nat /\ late \in Nat /\ MaxLate \in Nat /\ t1 \in Nat
  BY ClockConstants DEF SourceOK
<1>2. OnTime(f, s.wait, q, p, t)
  BY DEF SourceOK
<1>3. OnTime(f, 0, q, p, t1)
  <2>1. CASE p.target \in {"file:raw", "file:csv"}
    <3>1. t = f.pulled /\ t + s.wait = D
      BY <1>2, <2>1 DEF OnTime
    <3>2. D \in Nat /\ f.pulled \in Nat /\ f.pulled < D /\ t1 \in D..(D + MaxLate)
      <4> DEFINE a == f.pulled  v == s.wait
      <4>1. v \in Nat /\ v > 0 /\ a = t /\ D = t + v
        BY <1>1, <3>1
      <4>2. t1 = t + v + late
        OBVIOUS
      <4> HIDE DEF a, v, D, t1
      <4>3. D \in Nat /\ a \in Nat /\ a < D /\ t1 \in D..(D + MaxLate)
        BY <1>1, <4>1, <4>2
      <4> QED BY <4>3 DEF a
    <3>3. ~ (f.pulled >= D)
      BY <3>2
    <3> HIDE DEF t1
    <3> QED BY <3>2, <3>3 DEF OnTime
  <2>2. CASE p.target \notin {"file:raw", "file:csv"}
    BY <2>2 DEF OnTime
  <2> QED BY <2>1, <2>2
<1> HIDE DEF t1
<1>4. SourceOK(u, p, t1)
  BY <1>3 DEF SourceOK
<1> QED BY <1>1, <1>4 DEF t1

\* The row of the frame that is held is behind the rows there are, and in time.
LEMMA RowWritten ==
    ASSUME NEW p, NEW t \in Nat, NEW s, SourceOK(s, p, t), s.held # NoFrame,
           s.held.kind # "unmatched",
           NEW sink, IsSeq(sink), HoldsOf(sink, DueOf(s.seen, s.held, p), s.seen),
           NEW x, x.what = "row", x.frame = s.held
    PROVE  IsSeq(Append(sink, x)) /\ HoldsOf(Append(sink, x), DueOf(s.seen, NoFrame, p), s.seen)
<1> DEFINE q == s.seen  k == Len(q)  due == DueOf(q, s.held, p)
<1>1. Numbered(q) /\ k \in KeptOf(q, p) /\ s.held = q[k]
  BY DEF SourceOK
<1>2. k \in Nat /\ k \in DOMAIN q
  BY <1>1 DEF Numbered, KeptOf, RecordedOf
<1>3. q[k] \in Frame /\ q[k].n = k
  BY <1>1, <1>2 DEF Numbered
<1>4. q[k].kind = "decodes"
  <2>1. q[k].kind # "blank"
    <3>1. CASE p.target = "file:raw"
      BY <1>1, <3>1 DEF KeptOf, RecordedOf
    <3>2. CASE p.target # "file:raw"
      BY <1>2, <3>2 DEF SourceOK
    <3> QED BY <3>1, <3>2
  <2> QED BY <1>1, <1>3, <2>1, FrameIs
<1> HIDE DEF due, k, q
<1>5. due \in SUBSET Nat /\ (\A i \in due : i < k) /\ DueOf(q, NoFrame, p) = due \cup {k}
  BY <1>1, <1>4, DueReleased DEF due, k
<1>6. x.frame = q[x.frame.n] /\ x.frame.n = k
  BY <1>1, <1>3
<1>7. HoldsOf(Append(sink, x), due \cup {k}, q)
  <2>1. HoldsOf(sink, due, q)
    BY DEF due, q
  <2>2. \A i \in due : i < x.frame.n
    BY <1>5, <1>6
  <2>3. x.frame.n \in Nat
    BY <1>2, <1>6
  <2>4. HoldsOf(Append(sink, x), due \cup {x.frame.n}, q)
    BY <1>5, <1>6, <2>1, <2>2, <2>3, HoldsRow
  <2> QED BY <1>6, <2>4
<1>8. IsSeq(Append(sink, x))
  BY AppendIs
<1> QED BY <1>5, <1>7, <1>8 DEF q

\* A row leaves the header where it is.
LEMMA HeaderStays ==
    ASSUME NEW o, IsSeq(o), HeaderFirst(o), NEW x, x.what = "row"
    PROVE  HeaderFirst(Append(o, x))
<1> DEFINE r == Append(o, x)
<1>1. /\ Len(o) \in Nat /\ DOMAIN o = 1..Len(o) /\ DOMAIN r = 1..(Len(o) + 1)
      /\ r[Len(o) + 1] = x /\ \A i \in DOMAIN o : r[i] = o[i]
  BY AppendIs
<1>2. PICK h \in DOMAIN o : \A i \in DOMAIN o : /\ o[i] = Item("header") <=> i = h
                                                /\ o[i].what = "row" => i > h
  BY DEF HeaderFirst
<1>3. x # Item("header")
  BY DEF Item
<1> HIDE DEF r
<1>4. h \in DOMAIN r /\ h \in Nat /\ h <= Len(o)
  BY <1>1
<1>5. ASSUME NEW i \in DOMAIN r
      PROVE  (r[i] = Item("header") <=> i = h) /\ (r[i].what = "row" => i > h)
  <2>1. CASE i \in DOMAIN o
    BY <1>1, <1>2, <2>1
  <2>2. CASE i = Len(o) + 1
    <3>1. i # h /\ i > h
      BY <1>1, <1>4, <2>2
    <3> QED BY <1>1, <1>3, <2>2, <3>1
  <2> QED BY <1>1, <2>1, <2>2
<1>6. HeaderFirst(r)
  BY <1>4, <1>5 DEF HeaderFirst
<1> QED BY <1>6 DEF r

\* The frame that is held is dispatched: its row goes to the sinks there are, if it decodes.
LEMMA SinksWritten ==
    ASSUME NEW p, NEW t \in Nat, NEW s, SourceOK(s, p, t), s.held # NoFrame, s.wait = 0,
           NEW o, NEW c, NEW w, SinksOK(s, o, c, w, p), Paced(s, o, p),
           NEW x, x.what = "row", x.frame = s.held, x.at = t,
           NEW u, u.seen = s.seen, u.held = NoFrame, NEW o1, NEW c1,
           \/ s.held.kind = "unmatched" /\ o1 = o /\ c1 = c
           \/ /\ s.held.kind # "unmatched"
              /\ p.stdoutCsv \/ p.target = "file:csv" => o1 = Append(o, x)
              /\ ~ (p.stdoutCsv \/ p.target = "file:csv") => IsSeq(o1) /\ Rows(o1) = {}
              /\ p.log = "base" /\ p.target # "file:csv" => c1 = Append(c, x)
              /\ ~ (p.log = "base" /\ p.target # "file:csv") => c1 = c
    PROVE  SinksOK(u, o1, c1, w, p) /\ Paced(u, o1, p)
<1> DEFINE q == s.seen  k == Len(q)  due == DueOf(q, s.held, p)  new == DueOf(q, NoFrame, p)
           ToStdout == p.stdoutCsv \/ p.target = "file:csv"
           ToCsv == p.log = "base" /\ p.target # "file:csv"
<1>1. Numbered(q) /\ k \in KeptOf(q, p) /\ s.held = q[k] /\ OnTime(s.held, 0, q, p, t)
  BY DEF SourceOK
<1>2. /\ IsSeq(o) /\ IsSeq(c)
      /\ ToStdout => HoldsOf(o, due, q)
      /\ ~ ToStdout => Rows(o) = {}
      /\ ToCsv => HoldsOf(c, due, q)
      /\ p.log = "base" /\ p.target \in Live => w = q
      /\ p.stdoutCsv => HeaderFirst(o)
  BY DEF SinksOK
<1>3. u.seen = q /\ u.held = NoFrame
  OBVIOUS
<1>4. CASE s.held.kind = "unmatched"
  <2>1. new = due
    <3>1. q[k].kind # "decodes"
      BY <1>1, <1>4
    <3> QED BY <1>1, <3>1, DueReleased
  <2>2. o1 = o /\ c1 = c
    BY <1>4
  <2> HIDE DEF due, new, q, ToStdout, ToCsv
  <2>3. SinksOK(u, o1, c1, w, p)
    BY <1>2, <1>3, <2>1, <2>2 DEF SinksOK, new, ToStdout, ToCsv
  <2>4. Paced(u, o1, p)
    BY <1>3, <2>2 DEF Paced, q
  <2> QED BY <2>3, <2>4
<1>5. CASE s.held.kind # "unmatched"
  <2>1. /\ ToStdout => o1 = Append(o, x)
        /\ ~ ToStdout => IsSeq(o1) /\ Rows(o1) = {}
        /\ ToCsv => c1 = Append(c, x)
        /\ ~ ToCsv => c1 = c
    BY <1>5
  <2>2. ToStdout => IsSeq(o1) /\ HoldsOf(o1, new, q)
    BY <1>2, <1>5, <2>1, RowWritten
  <2>3. ToCsv => IsSeq(c1) /\ HoldsOf(c1, new, q)
    BY <1>2, <1>5, <2>1, RowWritten
  <2>4. p.stdoutCsv => HeaderFirst(o1)
    BY <1>2, <2>1, HeaderStays
  <2> HIDE DEF due, new
  <2>5. SinksOK(u, o1, c1, w, p)
    <3>1. IsSeq(o1) /\ IsSeq(c1)
      BY <1>2, <2>1, <2>2, <2>3
    <3> HIDE DEF q, ToStdout, ToCsv
    <3> QED BY <1>2, <1>3, <2>1, <2>2, <2>3, <2>4, <3>1 DEF SinksOK, new, ToStdout, ToCsv
  <2>6. Paced(u, o1, p)
    <3>1. CASE ToStdout /\ p.target \in {"file:raw", "file:csv"}
      <4>1. /\ Rows(o1) = Rows(o) \cup {Len(o) + 1} /\ o1[Len(o) + 1] = x
            /\ \A i \in Rows(o) : o1[i] = o[i]
        <5>1. IsSeq(o) /\ o1 = Append(o, x)
          BY <1>2, <2>1, <3>1
        <5>2. {i \in {Len(o) + 1} : x.what = "row"} = {Len(o) + 1}
          OBVIOUS
        <5>3. Rows(Append(o, x)) = Rows(o) \cup {i \in {Len(o) + 1} : x.what = "row"}
          BY <5>1, RowsAppend
        <5>4. /\ Append(o, x)[Len(o) + 1] = x
              /\ \A i \in Rows(o) : Append(o, x)[i] = o[i]
          BY <5>1, RowsAppend
        <5> QED BY <5>1, <5>2, <5>3, <5>4
      <4>2. \A i \in Rows(o) :
               IF o[i].frame.pulled >= DueTime(o[i].frame, q, p)
               THEN o[i].at = o[i].frame.pulled
               ELSE o[i].at \in DueTime(o[i].frame, q, p)..(DueTime(o[i].frame, q, p) + MaxLate)
        BY <3>1 DEF Paced
      <4>3. IF x.frame.pulled >= DueTime(x.frame, q, p) THEN x.at = x.frame.pulled
            ELSE x.at \in DueTime(x.frame, q, p)..(DueTime(x.frame, q, p) + MaxLate)
        BY <1>1, <3>1 DEF OnTime
      <4> HIDE DEF q
      <4>4. ASSUME NEW i \in Rows(o1)
            PROVE  IF o1[i].frame.pulled >= DueTime(o1[i].frame, u.seen, p)
                   THEN o1[i].at = o1[i].frame.pulled
                   ELSE o1[i].at \in DueTime(o1[i].frame, u.seen, p)
                                        ..(DueTime(o1[i].frame, u.seen, p) + MaxLate)
        <5>1. CASE i \in Rows(o)
          <6>1. o1[i] = o[i]
            BY <4>1, <5>1
          <6> QED BY <1>3, <4>2, <5>1, <6>1
        <5>2. CASE i = Len(o) + 1
          <6>1. o1[i] = x
            BY <4>1, <5>2
          <6> QED BY <1>3, <4>3, <6>1
        <5> QED BY <4>1, <5>1, <5>2
      <4> QED BY <4>4 DEF Paced
    <3>2. CASE ~ ToStdout
      BY <2>1, <3>2 DEF Paced
    <3>3. CASE p.target \notin {"file:raw", "file:csv"}
      BY <3>3 DEF Paced
    <3> QED BY <3>1, <3>2, <3>3
  <2> QED BY <2>5, <2>6
<1> QED BY <1>4, <1>5

\* What a loop reads is the target it was opened for.
LEMMA LoopTargets ==
    ASSUME NEW at, NEW o, OptionsFit(at, o)
    PROVE  /\ at = "frames" => o.target = "file:raw"
           /\ at = "rows" => o.target = "file:csv"
           /\ at = "lines" => o.target \in Live
<1>1. at = "frames" => o.target = "file:raw"
  BY DEF OptionsFit
<1>2. at = "rows" => o.target = "file:csv"
  BY DEF OptionsFit
<1>3. at = "lines" => o.target \in Live
  BY DEF OptionsFit, Live
<1> QED BY <1>1, <1>2, <1>3

\* A header behind words that are neither header nor row comes once, and first.
LEMMA HeaderOpens ==
    ASSUME NEW o, IsSeq(o), "header" \notin Words(o), "row" \notin Words(o)
    PROVE  LET r == Append(o, Item("header"))
           IN  IsSeq(r) /\ Rows(r) = {} /\ HeaderFirst(r)
<1> DEFINE x == Item("header")  r == Append(o, x)  n == Len(o) + 1
<1>1. /\ IsSeq(r) /\ Len(o) \in Nat /\ DOMAIN o = 1..Len(o) /\ DOMAIN r = 1..n
      /\ r[n] = x /\ \A i \in DOMAIN o : r[i] = o[i]
  BY AppendIs
<1>2. \A i \in DOMAIN o : o[i].what # "header" /\ o[i].what # "row"
  BY DEF Words
<1>3. x.what = "header" /\ x = Item("header")
  BY DEF Item
<1> HIDE DEF r, x
<1>4. n \in DOMAIN r /\ \A i \in DOMAIN r : i \in DOMAIN o \/ i = n
  BY <1>1
<1>5. ASSUME NEW i \in DOMAIN r
      PROVE  (r[i] = x <=> i = n) /\ r[i].what # "row"
  <2>1. CASE i \in DOMAIN o
    <3>1. r[i] = o[i] /\ i # n
      BY <1>1, <2>1
    <3> QED BY <1>2, <1>3, <2>1, <3>1
  <2>2. CASE i = n
    BY <1>1, <1>3, <2>2
  <2> QED BY <1>4, <2>1, <2>2
<1>6. HeaderFirst(r)
  BY <1>3, <1>4, <1>5 DEF HeaderFirst
<1>7. Rows(r) = {}
  BY <1>5 DEF Rows
<1> QED BY <1>1, <1>6, <1>7 DEF r, x

\* No row is on stdout exactly if that word is not.
LEMMA NoRows == \A o : Rows(o) = {} <=> "row" \notin Words(o)
BY DEF Rows, Words

\* A run that opens its source: nothing is read, and nothing but a header written.
LEMMA RunOpened ==
    ASSUME NEW p, NEW t \in Nat, NEW s,
           s = NewSource \/ s = [NewSource EXCEPT !.schedule = NewSchedule(t)],
           NEW o, IsSeq(o), Rows(o) = {}, p.stdoutCsv => HeaderFirst(o)
    PROVE  s.seen = <<>> /\ RunOK(s, o, <<>>, <<>>, p, t)
<1> DEFINE q == <<>>
<1>1. /\ DOMAIN s = SourceFields /\ s.seen = q /\ s.held = NoFrame /\ s.wait = 0
      /\ \E v \in Nat : s.schedule = NewSchedule(v)
  BY DEF NewSource, SourceFields
<1>2. Numbered(q) /\ DOMAIN q = {} /\ Len(q) = 0
  BY DEF Numbered
<1>3. RecordedOf(q, p) = {} /\ KeptOf(q, p) = {} /\ \A h : DueOf(q, h, p) = {}
  BY <1>2 DEF RecordedOf, KeptOf, DueOf
<1>4. PICK v \in Nat : s.schedule = NewSchedule(v)
  BY <1>1
<1>5. /\ DOMAIN s.schedule = ScheduleFields /\ s.schedule.rowsPaced = 0
  BY <1>4 DEF NewSchedule, ScheduleFields
<1>6. ~ s.schedule.baselineSet /\ ~ s.schedule.emittedAny
  BY <1>4 DEF NewSchedule
<1>7. ScheduleOK(q, s.schedule, p)
  BY <1>2, <1>3, <1>5, <1>6 DEF ScheduleOK
<1>8. SourceOK(s, p, t)
  BY <1>1, <1>2, <1>7 DEF SourceOK
<1>9. IsSeq(q) /\ Rows(q) = {}
  BY <1>2 DEF IsSeq, Rows
<1>10. HoldsOf(o, {}, q) /\ HoldsOf(q, {}, q)
  BY <1>9 DEF HoldsOf
<1> HIDE DEF q
<1>11. SinksOK(s, o, q, q, p)
  BY <1>1, <1>3, <1>9, <1>10 DEF SinksOK
<1>12. Paced(s, o, p)
  BY DEF Paced
<1> QED BY <1>1, <1>8, <1>11, <1>12 DEF RunOK, q

\* The frame a loop takes, and what the schedule says to it.
LEMMA TakeIs ==
    ASSUME now \in Nat, Len(src.seen) \in Nat, NextRecorded \/ NextRow \/ NextDemo \/ NextLive
    PROVE  \E x \in Frame :
              /\ x.n = Len(src.seen) + 1 /\ x.pulled = now /\ (pc # "frames" => x.kind # "blank")
              /\ pc \in Loops /\ src.held = NoFrame
              /\ src' = [src EXCEPT !.seen = Append(@, x), !.schedule = Scheduled(x).next,
                                    !.held = IF Scheduled(x).skip THEN NoFrame ELSE x,
                                    !.wait = Scheduled(x).wait]
              /\ raw' = IF pc = "lines" /\ opts.log = "base" THEN Append(raw, x) ELSE raw
              /\ UNCHANGED << pc, opts, out, csv, now >>
<1>1. \A f \in Frames \cup {Blank} :
         f.ts \in Nat /\ f.kind \in {"decodes", "unmatched", "blank"}
  <2>1. MaxTs \in Nat
    BY ClockConstants
  <2> QED BY <2>1 DEF Frames, Blank
<1>2. \A f \in Frames : f.kind # "blank" /\ [f EXCEPT !.ts = now].kind = f.kind
                        /\ [f EXCEPT !.ts = now].ts = now
  BY DEF Frames
<1>3. PICK f : /\ Take(f) /\ pc \in Loops /\ f.ts \in Nat
               /\ f.kind \in {"decodes", "unmatched", "blank"}
               /\ pc # "frames" => f.kind # "blank"
  <2>1. CASE NextRecorded
    BY <1>1, <2>1 DEF NextRecorded, Loops
  <2>2. CASE NextRow
    BY <1>1, <1>2, <2>2 DEF NextRow, Loops
  <2>3. CASE NextDemo \/ NextLive
    <3>1. PICK f \in Frames : Take([f EXCEPT !.ts = now])
      BY <2>3 DEF NextDemo, NextLive
    <3>2. pc \in Loops
      BY <2>3 DEF NextDemo, NextLive, Loops
    <3> QED BY <1>1, <1>2, <3>1, <3>2
  <2> QED BY <2>1, <2>2, <2>3
<1> DEFINE x == [n |-> Len(src.seen) + 1, ts |-> f.ts, kind |-> f.kind, pulled |-> now]
<1>4. x \in Frame /\ x.n = Len(src.seen) + 1 /\ x.pulled = now /\ x.kind = f.kind
  BY <1>3 DEF Frame
<1>5. /\ src.held = NoFrame
      /\ src' = [src EXCEPT !.seen = Append(@, x), !.schedule = Scheduled(x).next,
                            !.held = IF Scheduled(x).skip THEN NoFrame ELSE x,
                            !.wait = Scheduled(x).wait]
      /\ raw' = IF pc = "lines" /\ opts.log = "base" THEN Append(raw, x) ELSE raw
      /\ UNCHANGED << pc, opts, out, csv, now >>
  BY <1>3 DEF Take
<1> HIDE DEF x
<1> QED BY <1>3, <1>4, <1>5

\* What each loop asks its schedule, it is told truly.
LEMMA ScheduledIs ==
    ASSUME OptionsInv, pc \in Loops, now \in Nat, SourceOK(src, opts, now),
           NEW x \in Frame, x.n = Len(src.seen) + 1, x.pulled = now
    PROVE  LET z == Scheduled(x)  r == Append(src.seen, x)
           IN  /\ z.skip <=> x.n \notin KeptOf(r, opts)
               /\ z.wait \in Nat /\ ScheduleOK(r, z.next, opts)
               /\ ~ z.skip => OnTime(x, z.wait, r, opts, now)
<1> DEFINE q == src.seen  d == src.schedule  p == opts  z == Scheduled(x)  r == Append(q, x)
<1>1. Numbered(q) /\ ScheduleOK(q, d, p)
  BY DEF SourceOK
<1>2. /\ pc = "frames" => p.target = "file:raw"
      /\ pc = "rows" => p.target = "file:csv"
      /\ pc = "lines" => p.target \in Live
  BY LoopTargets DEF OptionsInv
<1>3. Len(r) = x.n /\ RecordedOf(r, p) = RecordedOf(q, p) \cup
                         {i \in {x.n} : x.kind # "blank" \/ p.target # "file:raw"}
      /\ KeptOf(r, p) = KeptOf(q, p) \cup {i \in RecordedOf(r, p) : i = x.n /\ Outside(r, p, x.n)}
  <2>1. Len(r) = Len(q) + 1
    BY <1>1, FrameTaken
  <2> QED BY <1>1, <2>1, FrameTaken
<1> HIDE DEF q, d, p, z, r
<1>4. CASE pc = "frames"
  <2>1. z = Consider(d, x, IF p.startFrom THEN SkipMs ELSE 0, now)
    BY <1>4 DEF z, Scheduled, d, p
  <2> QED BY <1>1, <1>2, <1>3, <1>4, <2>1, FrameConsidered DEF z, r, p, q
<1>5. CASE pc = "rows"
  <2>1. z = PaceRow(d, x, IF p.fixed THEN IntervalMs ELSE 0, now)
    BY <1>5 DEF z, Scheduled, d, p
  <2> QED BY <1>1, <1>2, <1>3, <1>5, <2>1, RowPaced DEF z, r, p, q
<1>6. CASE pc = "lines"
  <2>1. z.skip = FALSE /\ z.wait = 0 /\ z.next = d
    BY <1>6 DEF z, Scheduled, d
  <2>2. p.target \notin {"file:raw", "file:csv"}
    BY <1>2, <1>6 DEF Live
  <2>3. ScheduleOK(r, d, p) /\ OnTime(x, 0, r, p, now)
    BY <1>1, <2>2 DEF ScheduleOK, OnTime
  <2>4. x.n \in KeptOf(r, p)
    BY <1>3, <2>2 DEF Outside
  <2> QED BY <2>1, <2>3, <2>4 DEF z, r, p, q
<1> QED BY <1>4, <1>5, <1>6 DEF Loops

LEMMA TakeStep ==
    ASSUME OptionsInv, RowsInv, NextRecorded \/ NextRow \/ NextDemo \/ NextLive
    PROVE  RowsInv'
<1> DEFINE q == src.seen
<1>1. now \in Nat /\ pc \in Loops
  BY DEF RowsInv, NextRecorded, NextRow, NextDemo, NextLive, Loops
<1>2. RunOK(src, out, csv, raw, opts, now) /\ opts.target \in {"file:raw", "file:csv"} \cup Live
  BY <1>1 DEF RowsInv
<1>3. SourceOK(src, opts, now) /\ SinksOK(src, out, csv, raw, opts) /\ Paced(src, out, opts)
  BY <1>2 DEF RunOK
<1>4. Numbered(q) /\ Len(q) \in Nat /\ DOMAIN src = SourceFields
  BY <1>3 DEF SourceOK, Numbered
<1>5. PICK x \in Frame :
         /\ x.n = Len(src.seen) + 1 /\ x.pulled = now /\ (pc # "frames" => x.kind # "blank")
         /\ pc \in Loops /\ src.held = NoFrame
         /\ src' = [src EXCEPT !.seen = Append(@, x), !.schedule = Scheduled(x).next,
                               !.held = IF Scheduled(x).skip THEN NoFrame ELSE x,
                               !.wait = Scheduled(x).wait]
         /\ raw' = IF pc = "lines" /\ opts.log = "base" THEN Append(raw, x) ELSE raw
         /\ UNCHANGED << pc, opts, out, csv, now >>
  BY <1>1, <1>4, TakeIs
<1> DEFINE z == Scheduled(x)  r == Append(q, x)
<1>6. /\ z.skip <=> x.n \notin KeptOf(r, opts)
      /\ z.wait \in Nat /\ ScheduleOK(r, z.next, opts)
      /\ ~ z.skip => OnTime(x, z.wait, r, opts, now)
  BY <1>1, <1>3, <1>5, ScheduledIs
<1>7. /\ pc = "frames" => opts.target = "file:raw"
      /\ pc = "rows" => opts.target = "file:csv"
      /\ pc = "lines" => opts.target \in Live
  BY LoopTargets DEF OptionsInv
<1>8. opts.target # "file:raw" => x.kind # "blank"
  BY <1>5, <1>7
<1>9. opts.target \in Live => pc = "lines"
  BY <1>1, <1>7 DEF Loops, Live
<1>10. Len(r) = x.n /\ r # <<>> /\ x # NoFrame
  <2>1. Len(r) = Len(q) + 1 /\ Len(q) + 1 # 0
    BY <1>4, <1>5, FrameTaken
  <2> QED BY <1>5, <2>1, FrameIs
<1> HIDE DEF z
<1>11. /\ DOMAIN src' = SourceFields /\ src'.seen = r /\ src'.schedule = z.next
       /\ src'.held = (IF z.skip THEN NoFrame ELSE x) /\ src'.wait = z.wait
  BY <1>4, <1>5 DEF SourceFields, z
<1> HIDE DEF r
<1>12. SourceOK(src', opts, now)
  BY <1>1, <1>3, <1>5, <1>6, <1>8, <1>11, SourceTaken DEF r
<1>13. src'.held # NoFrame \/ Len(r) \notin KeptOf(r, opts)
  BY <1>6, <1>10, <1>11
<1>14. opts.log = "base" /\ opts.target \in Live => raw' = Append(raw, x)
  BY <1>5, <1>9
<1>15. SinksOK(src', out, csv, raw', opts) /\ Paced(src', out, opts)
  <2> DEFINE u == src'  v == raw'  s == src
  <2>1. /\ SourceOK(s, opts, now) /\ SinksOK(s, out, csv, raw, opts) /\ Paced(s, out, opts)
        /\ s.held = NoFrame /\ x.n = Len(s.seen) + 1 /\ u.seen = Append(s.seen, x)
    BY <1>3, <1>5, <1>11 DEF r
  <2>2. u.held # NoFrame \/ Len(Append(s.seen, x)) \notin KeptOf(Append(s.seen, x), opts)
    BY <1>13 DEF r
  <2>3. opts.log = "base" /\ opts.target \in Live => v = Append(raw, x)
    BY <1>14
  <2> HIDE DEF u, v, s
  <2>4. SinksOK(u, out, csv, v, opts) /\ Paced(u, out, opts)
    BY <1>1, <2>1, <2>2, <2>3, SinksTaken
  <2> QED BY <2>4 DEF u, v
<1>16. RunOK(src', out', csv', raw', opts', now')
  BY <1>5, <1>12, <1>15 DEF RunOK
<1> QED BY <1>1, <1>2, <1>5, <1>10, <1>11, <1>16 DEF RowsInv

\* The sinks are opened: there is no row on stdout, and with --stdout-csv a header.
LEMMA HeadedOpens ==
    ASSUME NEW o, IsSeq(o), Words(o) \subseteq {"text"}
    PROVE  /\ IsSeq(Headed(o)) /\ Rows(Headed(o)) = {}
           /\ opts.stdoutCsv => HeaderFirst(Headed(o))
<1>1. IsSeq(Headed(o)) /\ Words(Headed(o)) \subseteq {"text", "hint", "header"}
  BY HeadedIs
<1>2. Rows(Headed(o)) = {}
  BY <1>1, NoRows
<1>3. ASSUME opts.stdoutCsv PROVE HeaderFirst(Headed(o))
  <2> DEFINE v == Append(o, Item("hint"))
  <2>1. IsSeq(v) /\ Words(v) = Words(o) \cup {"hint"}
    <3>1. Item("hint").what = "hint"
      BY DEF Item
    <3> QED BY <3>1, WordsAppend
  <2>2. HeaderFirst(Append(o, Item("header")))
    BY HeaderOpens
  <2>3. HeaderFirst(Append(v, Item("header")))
    <3> HIDE DEF v
    <3> QED BY <2>1, HeaderOpens
  <2>4. o \o << Item("hint"), Item("header") >> = Append(v, Item("header"))
    BY TwoMore
  <2> QED BY <1>3, <2>2, <2>3, <2>4 DEF Headed
<1> QED BY <1>1, <1>2, <1>3

LEMMA OpenStep ==
    ASSUME OptionsInv, OptionsInv', IdleInv, OutInv, RowsInv,
           OpenReplay \/ OpenCsvReplay \/ OpenLive
    PROVE  RowsInv'
<1>1. pc \notin Loops \cup Over \cup {"tick"} /\ UNCHANGED << opts, csv, raw, now >>
  BY DEF OpenReplay, OpenCsvReplay, OpenLive, Loops, Over
<1>2. src = NewSource /\ csv = <<>> /\ raw = <<>> /\ NewSource.seen = <<>>
  BY <1>1 DEF IdleInv, NewSource
<1>3. IsSeq(out) /\ Words(out) \subseteq {"text"} /\ now \in Nat
  BY <1>1 DEF OutInv, RowsInv
<1>4. /\ IsSeq(Announced(out)) /\ Words(Announced(out)) \subseteq {"text"}
  BY <1>3, SayIs
<1>5. CASE pc' = "failed"
  <2>1. src' = src /\ out' \in {out, Announced(out)}
    BY <1>5 DEF OpenReplay, OpenCsvReplay, OpenLive
  <2>2. Rows(out') = {}
    BY <1>3, <1>4, <2>1, NoRows
  <2>3. src'.seen = <<>> /\ pc' \notin Loops
    BY <1>2, <1>5, <2>1 DEF Loops
  <2> QED BY <1>1, <1>3, <2>2, <2>3 DEF RowsInv
<1>6. CASE pc' # "failed"
  <2>1. pc' \in Loops
    BY <1>6, FinishIs DEF OpenReplay, OpenCsvReplay, OpenLive, Loops
  <2>2. src' = NewSource \/ src' = [NewSource EXCEPT !.schedule = NewSchedule(now)]
    BY <1>6, FinishIs DEF OpenReplay, OpenCsvReplay, OpenLive
  <2>3. IsSeq(out') /\ Rows(out') = {} /\ (opts.stdoutCsv => HeaderFirst(out'))
    <3>1. CASE out' = Headed(out)
      BY <1>3, <3>1, HeadedOpens
    <3>2. CASE out' = Headed(Announced(out))
      BY <1>4, <3>2, HeadedOpens
    <3>3. CASE out' = IF opts.stdoutCsv THEN Append(out, Item("header")) ELSE out
      <4>1. /\ IsSeq(Append(out, Item("header"))) /\ Rows(Append(out, Item("header"))) = {}
            /\ HeaderFirst(Append(out, Item("header")))
        BY <1>3, HeaderOpens
      <4>2. Rows(out) = {}
        BY <1>3, NoRows
      <4> QED BY <1>3, <3>3, <4>1, <4>2
    <3>4. \/ out' = Headed(out) \/ out' = Headed(Announced(out))
          \/ out' = IF opts.stdoutCsv THEN Append(out, Item("header")) ELSE out
      BY <1>6, FinishIs DEF OpenReplay, OpenCsvReplay, OpenLive
    <3> QED BY <3>1, <3>2, <3>3, <3>4
  <2>4. opts'.target \in {"file:raw", "file:csv"} \cup Live
    <3>1. OptionsFit(pc', opts')
      BY DEF OptionsInv
    <3> QED BY <2>1, <3>1, LoopTargets DEF Loops
  <2> DEFINE s == src'  o == out'
  <2>5. s.seen = <<>> /\ RunOK(s, o, <<>>, <<>>, opts, now)
    <3>1. /\ s = NewSource \/ s = [NewSource EXCEPT !.schedule = NewSchedule(now)]
          /\ IsSeq(o) /\ Rows(o) = {} /\ (opts.stdoutCsv => HeaderFirst(o))
      BY <2>2, <2>3
    <3> HIDE DEF s, o
    <3> QED BY <1>3, <3>1, RunOpened
  <2>6. RunOK(src', out', csv', raw', opts', now')
    BY <1>1, <1>2, <2>5
  <2> QED BY <1>1, <1>3, <2>3, <2>4, <2>6 DEF RowsInv
<1> QED BY <1>5, <1>6

\* What is held belongs to a source that has been read.
LEMMA HeldIs ==
    ASSUME OptionsInv, IdleInv, RowsInv, src.held # NoFrame, pc \notin Over
    PROVE  /\ pc \in Loops /\ RunOK(src, out, csv, raw, opts, now) /\ src.seen # <<>>
           /\ opts.target \in {"file:raw", "file:csv"} \cup Live
<1>1. pc \in Loops
  <2>1. src # NewSource
    BY DEF NewSource
  <2> QED BY <2>1 DEF IdleInv
<1>2. /\ RunOK(src, out, csv, raw, opts, now)
      /\ opts.target \in {"file:raw", "file:csv"} \cup Live
  BY <1>1 DEF RowsInv
<1>3. src.seen # <<>>
  BY <1>2 DEF RunOK, SourceOK, KeptOf, RecordedOf
<1> QED BY <1>1, <1>2, <1>3

LEMMA SleepStep ==
    ASSUME OptionsInv, IdleInv, RowsInv, Sleep
    PROVE  RowsInv'
<1>1. src.held # NoFrame /\ src.wait > 0 /\ pc \notin Over
  BY DEF Sleep, Ended, Over
<1>2. /\ pc \in Loops /\ RunOK(src, out, csv, raw, opts, now) /\ src.seen # <<>>
      /\ opts.target \in {"file:raw", "file:csv"} \cup Live /\ now \in Nat
  BY <1>1, HeldIs DEF RowsInv
<1>3. SourceOK(src, opts, now) /\ SinksOK(src, out, csv, raw, opts) /\ Paced(src, out, opts)
  BY <1>2 DEF RunOK
<1>4. PICK late \in 0..MaxLate : now' = now + src.wait + late
  BY DEF Sleep
<1>5. src' = [src EXCEPT !.wait = 0] /\ UNCHANGED << pc, opts, out, csv, raw >>
  BY DEF Sleep
<1> DEFINE u == src'  t == now'
<1>6. /\ DOMAIN u = SourceFields /\ u.seen = src.seen /\ u.schedule = src.schedule
      /\ u.held = src.held /\ u.wait = 0
  BY <1>3, <1>5 DEF SourceOK, SourceFields
<1>7. t = now + src.wait + late
  BY <1>4
<1> HIDE DEF u, t
<1>8. t \in Nat /\ SourceOK(u, opts, t)
  BY <1>1, <1>2, <1>3, <1>6, <1>7, SourceSlept
<1>9. SinksOK(u, out, csv, raw, opts) /\ Paced(u, out, opts)
  BY <1>3, <1>6 DEF SinksOK, Paced
<1>10. RunOK(u, out, csv, raw, opts, t)
  BY <1>8, <1>9 DEF RunOK
<1>11. RunOK(src', out', csv', raw', opts', now') /\ now' \in Nat /\ src'.seen # <<>>
  BY <1>2, <1>5, <1>6, <1>8, <1>10 DEF u, t
<1> QED BY <1>2, <1>5, <1>11 DEF RowsInv

\* What is said to the user is no row, and goes nowhere with --stdout-csv.
LEMMA NarrateIs ==
    ASSUME NEW o, IsSeq(o)
    PROVE  /\ IsSeq(Narrate(o)) /\ (opts.stdoutCsv => Narrate(o) = o)
           /\ Rows(o) = {} => Rows(Narrate(o)) = {}
<1>1. IsSeq(Narrate(o)) /\ Words(Narrate(o)) \subseteq Words(o) \cup {"text"}
  BY SayIs
<1>2. opts.stdoutCsv => Narrate(o) = o
  BY DEF Narrate
<1>3. Rows(o) = {} => Rows(Narrate(o)) = {}
  BY <1>1, NoRows
<1> QED BY <1>1, <1>2, <1>3

LEMMA DispatchedStep ==
    ASSUME OptionsInv, IdleInv, RowsInv, Dispatched
    PROVE  RowsInv'
<1>1. src.held # NoFrame /\ src.wait = 0 /\ pc \notin Over
  BY DEF Dispatched, Ended, Over
<1>2. /\ pc \in Loops /\ RunOK(src, out, csv, raw, opts, now) /\ src.seen # <<>>
      /\ opts.target \in {"file:raw", "file:csv"} \cup Live /\ now \in Nat
  BY <1>1, HeldIs DEF RowsInv
<1>3. SourceOK(src, opts, now) /\ SinksOK(src, out, csv, raw, opts) /\ Paced(src, out, opts)
  BY <1>2 DEF RunOK
<1>4. opts.target = "file:csv" <=> pc = "rows"
  <2>1. /\ pc = "frames" => opts.target = "file:raw"
        /\ pc = "rows" => opts.target = "file:csv"
        /\ pc = "lines" => opts.target \in Live
    BY LoopTargets DEF OptionsInv
  <2> QED BY <1>2, <2>1 DEF Loops, Live
<1>5. PICK work \in 0..MaxWork : now' = now + work
  BY DEF Dispatched
<1>6. now' \in Nat
  BY <1>2, <1>5, ClockConstants
<1>7. src' = [src EXCEPT !.held = NoFrame] /\ UNCHANGED << pc, opts, raw >>
  BY DEF Dispatched
<1> DEFINE u == src'  t == now'  o1 == out'  c1 == csv'  x == Row(src.held)
           ToStdout == opts.stdoutCsv \/ opts.target = "file:csv"
           ToCsv == opts.log = "base" /\ opts.target # "file:csv"
<1>8. /\ DOMAIN u = SourceFields /\ u.seen = src.seen /\ u.schedule = src.schedule
      /\ u.held = NoFrame /\ u.wait = src.wait
  BY <1>3, <1>7 DEF SourceOK, SourceFields
<1>9. x.what = "row" /\ x.frame = src.held /\ x.at = now
  BY DEF Row
<1>10. src.held.kind = "unmatched" => o1 = out /\ c1 = csv
  BY DEF Dispatched
<1>11. src.held.kind # "unmatched" =>
          /\ o1 = IF ToStdout THEN Append(out, x) ELSE Narrate(out)
          /\ c1 = IF ToCsv THEN Append(csv, x) ELSE csv
  BY <1>4 DEF Dispatched
<1>12. ~ ToStdout => IsSeq(Narrate(out)) /\ Rows(Narrate(out)) = {}
  BY <1>3, NarrateIs DEF SinksOK
<1> HIDE DEF u, t, o1, c1, x
<1>13. \/ src.held.kind = "unmatched" /\ o1 = out /\ c1 = csv
       \/ /\ src.held.kind # "unmatched"
          /\ ToStdout => o1 = Append(out, x)
          /\ ~ ToStdout => IsSeq(o1) /\ Rows(o1) = {}
          /\ ToCsv => c1 = Append(csv, x)
          /\ ~ ToCsv => c1 = csv
  BY <1>10, <1>11, <1>12
<1>14. SinksOK(u, o1, c1, raw, opts) /\ Paced(u, o1, opts)
  <2> DEFINE p == opts  s == src
  <2>1. SourceOK(s, p, now) /\ SinksOK(s, out, csv, raw, p) /\ Paced(s, out, p)
    BY <1>3
  <2>2. s.held # NoFrame /\ s.wait = 0 /\ u.seen = s.seen /\ u.held = NoFrame /\ x.frame = s.held
    BY <1>1, <1>8, <1>9
  <2>3. \/ s.held.kind = "unmatched" /\ o1 = out /\ c1 = csv
        \/ /\ s.held.kind # "unmatched"
           /\ p.stdoutCsv \/ p.target = "file:csv" => o1 = Append(out, x)
           /\ ~ (p.stdoutCsv \/ p.target = "file:csv") => IsSeq(o1) /\ Rows(o1) = {}
           /\ p.log = "base" /\ p.target # "file:csv" => c1 = Append(csv, x)
           /\ ~ (p.log = "base" /\ p.target # "file:csv") => c1 = csv
    BY <1>13
  <2> HIDE DEF p, s
  <2>4. SinksOK(u, o1, c1, raw, p) /\ Paced(u, o1, p)
    BY <1>2, <1>9, <2>1, <2>2, <2>3, SinksWritten
  <2> QED BY <2>4 DEF p
<1>15. SourceOK(u, opts, t)
  BY <1>3, <1>8 DEF SourceOK
<1>16. RunOK(src', out', csv', raw', opts', now') /\ src'.seen # <<>>
  BY <1>2, <1>7, <1>8, <1>14, <1>15 DEF RunOK, u, t, o1, c1
<1> QED BY <1>2, <1>6, <1>7, <1>16 DEF RowsInv

LEMMA EndStep ==
    ASSUME OptionsInv, RowsInv, EndFrames \/ EndOfSource \/ Traffic
    PROVE  RowsInv'
<1>1. pc \in Loops /\ now \in Nat /\ (src.seen = <<>> => Rows(out) = {})
  BY DEF EndFrames, EndOfSource, Traffic, Loops, RowsInv
<1>2. /\ RunOK(src, out, csv, raw, opts, now)
      /\ opts.target \in {"file:raw", "file:csv"} \cup Live
  BY <1>1 DEF RowsInv
<1>3. SourceOK(src, opts, now) /\ SinksOK(src, out, csv, raw, opts) /\ Paced(src, out, opts)
  BY <1>2 DEF RunOK
<1>4. CASE EndFrames
  <2>1. UNCHANGED << src, csv, raw, opts, now >>
    BY <1>4 DEF EndFrames
  <2>2. CASE out' = out
    BY <1>1, <1>2, <2>1, <2>2 DEF RowsInv
  <2>3. CASE out' # out
    <3>1. pc # "rows" /\ out' = Narrate(out)
      BY <1>4, <2>3 DEF EndFrames
    <3>2. IsSeq(out)
      BY <1>3 DEF SinksOK
    <3>3. ~ opts.stdoutCsv
      BY <2>3, <3>1, <3>2, NarrateIs
    <3>4. opts.target # "file:csv"
      <4>1. /\ pc = "frames" => opts.target = "file:raw"
            /\ pc = "lines" => opts.target \in Live
        BY LoopTargets DEF OptionsInv
      <4> QED BY <1>1, <3>1, <4>1 DEF Loops, Live
    <3>5. Rows(out) = {}
      BY <1>3, <3>3, <3>4 DEF SinksOK
    <3> DEFINE o == out'
    <3>6. IsSeq(o) /\ Rows(o) = {}
      BY <3>1, <3>2, <3>5, NarrateIs
    <3> HIDE DEF o
    <3>7. SinksOK(src, o, csv, raw, opts) /\ Paced(src, o, opts)
      BY <1>3, <3>3, <3>4, <3>6 DEF SinksOK, Paced
    <3>8. RunOK(src', out', csv', raw', opts', now') /\ Rows(out') = {}
      BY <1>3, <2>1, <3>6, <3>7 DEF RunOK, o
    <3> QED BY <1>1, <1>2, <2>1, <3>8 DEF RowsInv
  <2> QED BY <2>2, <2>3
<1>5. CASE EndOfSource \/ Traffic
  <2>1. /\ src' = [src EXCEPT !.eof = TRUE] \/ src' = [src EXCEPT !.busy = ~ @]
        /\ UNCHANGED << pc, out, csv, raw, opts, now >>
    BY <1>5 DEF EndOfSource, Traffic
  <2> DEFINE u == src'
  <2>2. /\ DOMAIN u = SourceFields /\ u.seen = src.seen /\ u.schedule = src.schedule
        /\ u.held = src.held /\ u.wait = src.wait
    BY <1>3, <2>1 DEF SourceOK, SourceFields
  <2> HIDE DEF u
  <2>3. RunOK(u, out, csv, raw, opts, now)
    BY <1>3, <2>2 DEF RunOK, SourceOK, SinksOK, Paced
  <2>4. RunOK(src', out', csv', raw', opts', now') /\ src'.seen = src.seen
    BY <2>1, <2>2, <2>3 DEF u
  <2> QED BY <1>1, <1>2, <2>1, <2>4 DEF RowsInv
<1> QED BY <1>4, <1>5

\* Only a frame that is dispatched puts a row on stdout.
LEMMA RowsStay ==
    ASSUME OptionsInv, IdleInv, OutInv, [Next]_vars, ~ Dispatched, Rows(out) = {}
    PROVE  Rows(out') = {}
<1>1. \/ Words(out') \subseteq Words(out) \cup {"text"}
      \/ \E w \in opts.wifi \cup {"state", "hint", "header", "bench row", "status",
                                  "examples", "help", "signals", "led legend"} :
            Words(out') \subseteq Words(out) \cup {"text", "header", w}
  BY OutChanges
<1>2. "row" \notin opts.wifi
  BY DEF OptionsInv, Parsed, Ops
<1>3. "row" \notin Words(out)
  BY NoRows
<1>4. "row" \notin Words(out')
  BY <1>1, <1>2, <1>3
<1> QED BY <1>4, NoRows

\* Outside the loops there is no source.
LEMMA AwayStep ==
    ASSUME OptionsInv, IdleInv, OutInv, RowsInv, [Next]_vars, ~ Dispatched,
           pc \notin Loops \cup Over, pc' \notin Loops, UNCHANGED << src, now >>
    PROVE  RowsInv'
<1>1. src.seen = <<>>
  BY DEF IdleInv, NewSource
<1>2. Rows(out') = {}
  BY <1>1, RowsStay DEF RowsInv
<1>3. now \in Nat
  BY DEF RowsInv
<1> QED BY <1>1, <1>2, <1>3 DEF RowsInv

LEMMA RowsStep ==
    ASSUME OptionsInv, OptionsInv', IdleInv, OutInv, RowsInv, [Next]_vars
    PROVE  RowsInv'
<1>1. CASE Start \/ Dispatch \/ Scan \/ Discover \/ Status \/ autoDiscoverAndAssign
  <2>1. UNCHANGED << src, now >> /\ pc \notin Loops \cup Over /\ ~ Dispatched
    <3>1. UNCHANGED << src, now >>
      BY <1>1 DEF Start, Dispatch, Scan, Discover, Status, autoDiscoverAndAssign
    <3>2. pc \notin Loops \cup Over
      BY <1>1 DEF Start, Dispatch, Scan, Discover, Status, autoDiscoverAndAssign, Loops, Over
    <3>3. ~ Dispatched
      <4>1. src.held = NoFrame
        BY <3>2 DEF IdleInv, NewSource
      <4> QED BY <4>1 DEF Dispatched
    <3> QED BY <3>1, <3>2, <3>3
  <2>2. Runner(opts) \notin Loops /\ runTransport("usb:path") \notin Loops
    BY DEF Runner, runTransport, Loops
  <2>3. pc' \notin Loops
    <3>1. CASE Start
      BY <3>1 DEF Start, Loops
    <3>2. CASE Dispatch
      <4>1. pc' \in {"ok", "failed", Runner(opts)}
        BY <3>2, FinishIs DEF Dispatch
      <4> QED BY <2>2, <4>1 DEF Loops
    <3>3. CASE Scan \/ Discover
      <4>1. pc' \in {"ok", "failed", "discovering"}
        BY <3>3, FinishIs DEF Scan, Discover, StartPoll
      <4> QED BY <4>1 DEF Loops
    <3>4. CASE Status
      <4>1. pc' \in {"failed", "console", "locating"}
        BY <3>4, FinishIs DEF Status, StartPoll
      <4> QED BY <4>1 DEF Loops
    <3>5. CASE autoDiscoverAndAssign
      <4>1. pc' \in {"failed", "finding", runTransport("usb:path")}
        BY <3>5, FinishIs DEF autoDiscoverAndAssign, StartPoll
      <4> QED BY <2>2, <4>1 DEF Loops
    <3> QED BY <1>1, <3>1, <3>2, <3>3, <3>4, <3>5
  <2> QED BY <2>1, <2>3, AwayStep
<1>2. CASE Poll \/ EndPoll \/ OpenConsole \/ ReadStatus \/ Provision \/ RunBle
             \/ OpenInteractive \/ ReadKey \/ TickRow \/ Broadcast \/ PressKey
  <2>1. UNCHANGED << src, now >>
    BY <1>2 DEF Poll, EndPoll, OpenConsole, ReadStatus, Provision, RunBle, OpenInteractive,
                ReadKey, TickRow, Broadcast, PressKey
  <2>2. pc \notin Loops \cup Over
    BY <1>2 DEF Poll, EndPoll, OpenConsole, ReadStatus, Provision, RunBle, OpenInteractive,
                ReadKey, TickRow, Broadcast, PressKey, Polling, Loops, Over
  <2>3. ~ Dispatched
    <3>1. src.held = NoFrame
      BY <2>2 DEF IdleInv, NewSource
    <3> QED BY <3>1 DEF Dispatched
  <2>4. runTransport("tcp:host") \notin Loops
    BY DEF runTransport, Loops
  <2>5. pc' \notin Loops
    <3>1. CASE EndPoll
      BY <2>4, <3>1, FinishIs DEF EndPoll, Loops
    <3>2. CASE Poll \/ OpenInteractive \/ ReadKey \/ TickRow \/ Broadcast \/ PressKey
      BY <2>2, <3>2, FinishIs
         DEF Poll, OpenInteractive, ReadKey, TickRow, Broadcast, PressKey, Loops
    <3>3. CASE OpenConsole
      <4>1. pc' \in {"failed", "reading"}
        BY <3>3, FinishIs DEF OpenConsole
      <4> QED BY <4>1 DEF Loops
    <3>4. CASE ReadStatus
      <4>1. pc' \in {"ok", "failed", pc}
        BY <3>4, FinishIs DEF ReadStatus
      <4> QED BY <2>2, <4>1 DEF Loops
    <3>5. CASE Provision \/ RunBle
      <4>1. pc' \in {"ok", "failed"}
        BY <3>5 DEF Provision, RunBle, Finish
      <4> QED BY <4>1 DEF Loops
    <3> QED BY <1>2, <3>1, <3>2, <3>3, <3>4, <3>5
  <2> QED BY <2>1, <2>2, <2>3, <2>5, AwayStep
<1>3. CASE OpenReplay \/ OpenCsvReplay \/ OpenLive
  BY <1>3, OpenStep
<1>4. CASE NextRecorded \/ NextRow \/ NextDemo \/ NextLive
  BY <1>4, TakeStep
<1>5. CASE Sleep
  BY <1>5, SleepStep
<1>6. CASE Dispatched
  BY <1>6, DispatchedStep
<1>7. CASE EndFrames \/ EndOfSource \/ Traffic
  BY <1>7, EndStep
<1>8. CASE Interrupt \/ Exited \/ UNCHANGED vars
  <2>1. UNCHANGED << src, out, csv, raw, opts, now >> /\ (pc' = pc \/ pc' = "killed")
    BY <1>8 DEF Interrupt, Exited, vars
  <2>2. pc' \in Loops => pc \in Loops
    BY <2>1 DEF Loops
  <2> QED BY <2>1, <2>2 DEF RowsInv
<1> QED BY <1>1, <1>2, <1>3, <1>4, <1>5, <1>6, <1>7, <1>8 DEF Next, Main, World

\* What the invariant says of any source, RowsFaithful says of this one.
LEMMA RowsInvIs ==
    ASSUME RowsInv
    PROVE  RowsFaithful
<1> DEFINE q == src.seen
<1>1. /\ Recorded = RecordedOf(q, opts) /\ Kept = KeptOf(q, opts)
      /\ Due = DueOf(q, src.held, opts)
  <2>1. Recorded = RecordedOf(q, opts)
    BY DEF Recorded, RecordedOf
  <2>2. Kept = KeptOf(q, opts)
    BY <2>1 DEF Kept, KeptOf, InWindow, Outside
  <2>3. Due = DueOf(q, src.held, opts)
    BY <2>2 DEF Due, DueOf
  <2> QED BY <2>1, <2>2, <2>3
<1>2. \A sink, places : HoldsOf(sink, places, q) => Holds(sink, places)
  BY DEF Holds, HoldsOf
<1>3. \A f : DueAt(f) = DueTime(f, q, opts)
  BY <1>1 DEF DueAt, DueTime
<1> HIDE DEF q
<1>4. CASE q = <<>>
  <2>1. Rows(out) = {}
    BY <1>4 DEF RowsInv, q
  <2>2. PacedToSchedule
    BY <2>1 DEF PacedToSchedule
  <2>3. SinksFaithful
    BY <1>4 DEF SinksFaithful, q
  <2> QED BY <2>2, <2>3 DEF RowsFaithful
<1>5. CASE q # <<>>
  <2>1. /\ SinksOK(src, out, csv, raw, opts) /\ Paced(src, out, opts)
        /\ opts.target \in {"file:raw", "file:csv"} \cup Live
    BY <1>5 DEF RowsInv, RunOK, q
  <2>2. /\ opts.stdoutCsv \/ opts.target = "file:csv" => HoldsOf(out, Due, q)
        /\ opts.log = "base" /\ opts.target # "file:csv" => HoldsOf(csv, Due, q)
        /\ opts.log = "base" /\ opts.target \in Live => raw = q
        /\ opts.stdoutCsv => HeaderFirst(out)
    BY <1>1, <2>1 DEF SinksOK, q
  <2>3. isDemo(opts.target) \/ isUsb(opts.target) \/ isTcp(opts.target)
           => opts.target \in Live
    BY <2>1 DEF isDemo, isUsb, isTcp
  <2>4. SinksFaithful
    BY <1>2, <2>2, <2>3 DEF SinksFaithful, HeaderFirst, q
  <2>5. isFile(opts.target) => opts.target \in {"file:raw", "file:csv"}
    BY <2>1 DEF isFile, Live
  <2>6. PacedToSchedule
    BY <1>3, <2>1, <2>5 DEF PacedToSchedule, Paced, q
  <2> QED BY <2>4, <2>6 DEF RowsFaithful
<1> QED BY <1>4, <1>5

\* Every sink holds exactly the frames it is to hold, each once and in their order, with the
\* header first, and a replay writes each row when it is due, however late its sleeps end and
\* however long its rows take: what LiveRunContext, ReplayRunContext and CsvReplayRunContext
\* promise, for any source, any recording and any clock.
THEOREM RowsWritten == Spec => []RowsFaithful
<1> DEFINE RunInv == OptionsInv /\ IdleInv /\ OutInv /\ RowsInv
<1>1. Init => RunInv
  <2> SUFFICES ASSUME Init PROVE RunInv
    OBVIOUS
  <2>1. pc = "start" /\ pc \notin Loops \cup Over /\ pc \in Pcs
    BY DEF Init, Loops, Over, Pcs
  <2>2. OptionsInv
    <3>1. Parsed(opts)
      BY ParseArgsIs DEF Init
    <3> QED BY <2>1, <3>1 DEF OptionsInv, OptionsFit
  <2>3. IdleInv
    BY DEF Init, IdleInv
  <2>4. OutInv
    BY DEF Init, OutInv, IsSeq, Words, DeviceOps
  <2>5. RowsInv
    <3>1. src.seen = <<>> /\ Rows(out) = {} /\ now \in Nat
      BY DEF Init, NewSource, Rows
    <3> QED BY <2>1, <3>1 DEF RowsInv
  <2> QED BY <2>2, <2>3, <2>4, <2>5
<1>2. RunInv /\ [Next]_vars => RunInv'
  BY OptionsStep, IdleStep, OutStep, RowsStep
<1>3. RunInv => RowsFaithful
  BY RowsInvIs
<1> QED BY <1>1, <1>2, <1>3, PTL DEF Spec
=============================================================================
