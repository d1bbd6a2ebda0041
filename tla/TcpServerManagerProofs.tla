----------------------- MODULE TcpServerManagerProofs -----------------------
(***************************************************************************)
(* Theorems about the TCP side of loop(), for every value of its constants. *)
(***************************************************************************)
EXTENDS TcpServerManager, SequenceTheorems, WellFoundedInduction, TLAPS

\* Adopting assigns both handles, and only a re-bind takes them apart again.
LEMMA HandlesStep == NoCrossTalk /\ [Next]_vars => NoCrossTalk'
<1> SUFFICES ASSUME NoCrossTalk, [Next]_vars
             PROVE  NoCrossTalk'
  OBVIOUS
<1> USE DEF NoCrossTalk
<1>1. CASE Accept
  BY <1>1 DEF Accept, Adopt
<1>2. CASE Reject \/ DropClient
  BY <1>2 DEF Reject, DropClient
<1>3. CASE SerialReboot \/ ClientReboot
  BY <1>3 DEF SerialReboot, ClientReboot, Reboot
<1>4. CASE restartTcpServerIfNeeded
  BY <1>4 DEF restartTcpServerIfNeeded, managerVars
<1>5. ASSUME UNCHANGED <<current, mirror>>
      PROVE  NoCrossTalk'
  BY <1>5
<1>6. CASE DrainSerial \/ Greet \/ NoClient
  BY <1>5, <1>6 DEF DrainSerial, Greet, NoClient, managerVars
<1>7. CASE ServeClient
  BY <1>5, <1>7 DEF ServeClient
<1>8. CASE WiFiUpdate \/ processFrames
  BY <1>5, <1>8 DEF WiFiUpdate, processFrames, managerVars
<1>9. CASE WiFiEvent \/ CanFrame
  BY <1>5, <1>9 DEF WiFiEvent, CanFrame, deviceVars, managerVars
<1>10. ASSUME NEW c \in Conns, Connect(c) \/ Send(c) \/ Close(c)
       PROVE  NoCrossTalk'
  BY <1>5, <1>10 DEF Connect, Send, Close, deviceVars, managerVars
<1>11. CASE UNCHANGED vars
  BY <1>5, <1>11 DEF vars, managerVars
<1> QED
  BY <1>1, <1>2, <1>3, <1>4, <1>6, <1>7, <1>8, <1>9, <1>10, <1>11
     DEF Next, LoopStep

\* Frames and AT replies never reach another connection than the adopted client's,
\* for any number of hosts, lines in flight and re-binds (ArduinoTcpServer::accept,
\* restartTcpServerIfNeeded).
THEOREM HandlesAgree == Spec => []NoCrossTalk
<1>1. Init => NoCrossTalk
  BY DEF Init, NoCrossTalk
<1> QED
  BY <1>1, HandlesStep, PTL DEF Spec

-----------------------------------------------------------------------------
(* What is between a host and the dispatcher *)

\* Every tail is behind its head, and nothing is between the two.
Aligned(s) ==
    /\ \A i \in 1..Len(s) : s[i].part = "tail" => i > 1 /\ IsHeadOf(s[i - 1], s[i])
    /\ \A i \in 1..Len(s) : s[i].part = "head" /\ i < Len(s) => s[i + 1].part = "tail"

\* The line the last fragment leaves open.
OpenLine(s) ==
    IF s # <<>> /\ s[Len(s)].part = "head" THEN s[Len(s)].line ELSE None

\* The fragments s are lines of c from the start of one on.
LinesOf(s, c) == Aligned(s) /\ \A i \in 1..Len(s) : s[i].from = c

\* A host that can still send goes on where they end.
Stream(s, c) == LinesOf(s, c) /\ (peer[c] = "open" => half[c] = OpenLine(s))

StreamTypes ==
    /\ phase \in {"serial", "cycle", "auth", "update", "restart", "frames"}
    /\ current \in Conns \union {None}
    /\ partialLine \in Seq(Fragment)
    /\ rx \in [Conns -> Seq(Fragment)]
    /\ peer \in [Conns -> {"open", "closed"}]
    /\ half \in [Conns -> Lines \union {None}]
    /\ backlog \in Seq(Conns)

\* A connection is in one place: waiting once, or adopted.
OnePlace ==
    /\ \A i, j \in 1..Len(backlog) : backlog[i] = backlog[j] => i = j
    /\ \A i \in 1..Len(backlog) : backlog[i] # current

\* What waiting connections have sent and what is left of the adopted one's are
\* lines; the first read finds nothing left over.
StreamInv ==
    /\ StreamTypes
    /\ OnePlace
    /\ phase = "auth" => current # None /\ partialLine = <<>>
    /\ \A i \in 1..Len(backlog) : Stream(rx[backlog[i]], backlog[i])
    /\ current # None => Stream(partialLine \o rx[current], current)

-----------------------------------------------------------------------------
(* Fragments and commands *)

\* A set of natural numbers has a least element, and Min is it.
LEMMA Least ==
    ASSUME NEW S \in SUBSET Nat, S # {}
    PROVE  Min(S) \in S /\ \A y \in S : Min(S) <= y
<1> DEFINE Less == {pair \in Nat \X Nat : pair[1] < pair[2]}
<1>1. IsWellFoundedOn(Less, Nat)
  BY NatLessThanWellFounded DEF OpToRel
<1>2. \A a, b \in Nat : a < b => <<a, b>> \in Less
  <2>1. TAKE a, b \in Nat
  <2>2. HAVE a < b
  <2>3. <<a, b>>[1] = a /\ <<a, b>>[2] = b /\ <<a, b>> \in Nat \X Nat
    OBVIOUS
  <2> QED BY <2>2, <2>3
<1> HIDE DEF Less
<1>3. PICK x \in S : \A y \in S : ~(<<y, x>> \in Less)
  BY <1>1, WFMin
<1>4. \A y \in S : x <= y
  <2>1. TAKE y \in S
  <2>2. x \in Nat /\ y \in Nat
    OBVIOUS
  <2>3. ~(y < x)
    BY <1>2, <1>3, <2>2
  <2> QED BY <2>2, <2>3
<1> QED BY <1>4 DEF Min

\* A bounded one has a greatest, and Max is it.
LEMMA Greatest ==
    ASSUME NEW n \in Nat, NEW S \in SUBSET (0..n), S # {}
    PROVE  Max(S) \in S /\ \A y \in S : y <= Max(S)
<1> DEFINE T == {n - y : y \in S}
<1>1. T \in SUBSET Nat /\ T # {}
  <2>1. \A y \in S : n - y \in Nat
    <3>1. TAKE y \in S
    <3>2. y \in 0..n
      OBVIOUS
    <3> QED BY <3>2
  <2> QED BY <2>1
<1>2. PICK t \in T : \A u \in T : t <= u
  BY <1>1, Least
<1>3. PICK x \in S : t = n - x
  BY <1>2
<1>4. \A y \in S : n - y \in T
  OBVIOUS
<1> HIDE DEF T
<1>5. \A y \in S : x >= y
  <2>1. TAKE y \in S
  <2>2. x \in Int /\ y \in Int /\ n - x <= n - y
    BY <1>2, <1>3, <1>4
  <2> QED BY <2>2
<1>6. Max(S) \in S /\ \A y \in S : Max(S) >= y
  BY <1>5 DEF Max
<1>7. \A y \in S : y \in Int
  OBVIOUS
<1> QED BY <1>6, <1>7

\* In aligned fragments every delimiter ends the line it carries.
LEMMA AlignedCommands ==
    ASSUME NEW s \in Seq(Fragment), Aligned(s), NEW i \in Delims(s)
    PROVE  CommandAt(s, i) # Garbled
<1>1. i \in 1..Len(s) /\ s[i] \in Fragment /\ Len(s) \in Nat
  BY DEF Delims
<1>2. s[i].line \in Lines /\ s[i].part \in {"whole", "tail"}
  BY <1>1 DEF Fragment, Delims
<1>3. Garbled \notin Lines
  BY ConnAssumption DEF Garbled
<1>4. i = 1 \/ i - 1 \in 1..Len(s)
  BY <1>1
<1>5. CASE s[i].part = "whole"
  <2>1. i # 1 => i - 1 \in Delims(s)
    <3>1. HAVE i # 1
    <3>2. i - 1 \in 1..Len(s) /\ i - 1 < Len(s) /\ (i - 1) + 1 = i
      BY <1>1, <3>1
    <3>3. s[i - 1].part # "head"
      BY <1>5, <3>2 DEF Aligned
    <3> QED BY <3>2, <3>3 DEF Delims
  <2>2. CommandAt(s, i) = s[i].line
    BY <1>5, <2>1 DEF CommandAt
  <2> QED BY <1>2, <1>3, <2>2
<1>6. CASE s[i].part = "tail"
  <2>1. i > 1 /\ IsHeadOf(s[i - 1], s[i])
    BY <1>1, <1>6 DEF Aligned
  <2>2. s[i - 1].part = "head"
    BY <1>1, <2>1 DEF IsHeadOf, Fragment
  <2>3. i # 2 => i - 2 \in Delims(s)
    <3>1. HAVE i # 2
    <3>2. i - 2 \in 1..Len(s) /\ i - 2 < Len(s) /\ (i - 2) + 1 = i - 1
      BY <1>1, <2>1, <3>1
    <3>3. s[i - 2].part # "head"
      BY <2>2, <3>2 DEF Aligned
    <3> QED BY <3>2, <3>3 DEF Delims
  <2>4. CommandAt(s, i) = s[i].line
    BY <1>6, <2>1, <2>3 DEF CommandAt
  <2> QED BY <1>2, <1>3, <2>4
<1> QED BY <1>2, <1>5, <1>6

\* What is behind a delimiter, or behind nothing.
Cuts(s) == Delims(s) \union {0}
Rest(s, m) == SubSeq(s, m + 1, Len(s))

LEMMA RestProperties ==
    ASSUME NEW s \in Seq(Fragment), NEW m \in 0..Len(s)
    PROVE  /\ Rest(s, m) \in Seq(Fragment) /\ Len(Rest(s, m)) = Len(s) - m
           /\ \A i \in 1..(Len(s) - m) : Rest(s, m)[i] = s[m + i]
<1> DEFINE t == Rest(s, m)
<1>1. Len(s) \in Nat /\ \A i \in 1..Len(s) : s[i] \in Fragment
  OBVIOUS
<1>2. m + 1 \in Int /\ Len(s) \in Int /\ \A i \in (m + 1)..Len(s) : s[i] \in Fragment
  BY <1>1
<1>3. /\ t \in Seq(Fragment)
      /\ Len(t) = IF m + 1 <= Len(s) THEN Len(s) - (m + 1) + 1 ELSE 0
      /\ \A i \in 1..(Len(s) - (m + 1) + 1) : t[i] = s[(m + 1) + i - 1]
  BY <1>2, SubSeqProperties DEF Rest
<1> HIDE DEF t
<1>4. Len(t) = Len(s) - m /\ Len(s) - (m + 1) + 1 = Len(s) - m
  BY <1>1, <1>3
<1>5. \A i \in 1..(Len(s) - m) : (m + 1) + i - 1 = m + i
  BY <1>1
<1> QED BY <1>3, <1>4, <1>5 DEF t

LEMMA RestIsLines ==
    ASSUME NEW s \in Seq(Fragment), NEW c, LinesOf(s, c), NEW m \in Cuts(s)
    PROVE  LinesOf(Rest(s, m), c) /\ OpenLine(Rest(s, m)) = OpenLine(s)
<1> DEFINE t == Rest(s, m)
<1>1. m \in 0..Len(s) /\ Len(s) \in Nat
  BY DEF Cuts, Delims
<1>2. /\ t \in Seq(Fragment) /\ Len(t) = Len(s) - m
      /\ \A i \in 1..Len(t) : t[i] = s[m + i]
  BY <1>1, RestProperties
<1> HIDE DEF t
<1>3. \A i \in 1..Len(t) : m + i \in 1..Len(s)
  BY <1>1, <1>2
<1>4. m = 0 \/ s[m].part # "head"
  BY DEF Cuts, Delims
<1>5. \A i \in 1..Len(t) : t[i].from = c
  BY <1>2, <1>3 DEF LinesOf
<1>6. ASSUME NEW i \in 1..Len(t), t[i].part = "tail"
      PROVE  i > 1 /\ IsHeadOf(t[i - 1], t[i])
  <2>1. m + i > 1 /\ IsHeadOf(s[(m + i) - 1], s[m + i])
    BY <1>2, <1>3, <1>6 DEF LinesOf, Aligned
  <2>2. s[m + i] \in Fragment
    BY <1>3
  <2>3. s[(m + i) - 1].part = "head"
    BY <2>1, <2>2 DEF IsHeadOf, Fragment
  <2>4. i # 1
    <3>1. i = 1 => (m + i) - 1 = m /\ m # 0
      BY <1>1, <2>1
    <3> QED BY <1>4, <2>3, <3>1
  <2>5. i - 1 \in 1..Len(t) /\ m + (i - 1) = (m + i) - 1 /\ i > 1
    BY <1>1, <1>2, <2>4
  <2> QED BY <1>2, <2>1, <2>5
<1>7. ASSUME NEW i \in 1..Len(t), t[i].part = "head", i < Len(t)
      PROVE  t[i + 1].part = "tail"
  <2>1. i + 1 \in 1..Len(t) /\ m + i < Len(s) /\ m + (i + 1) = (m + i) + 1
    BY <1>1, <1>2, <1>7
  <2> QED BY <1>2, <1>3, <1>7, <2>1 DEF LinesOf, Aligned
<1>8. OpenLine(t) = OpenLine(s)
  <2>1. CASE t = <<>>
    <3>1. Len(s) = m
      BY <1>1, <1>2, <2>1
    <3>2. s = <<>> \/ s[Len(s)].part # "head"
      BY <1>1, <1>4, <3>1, EmptySeq
    <3> QED BY <2>1, <3>2 DEF OpenLine
  <2>2. CASE t # <<>>
    <3>1. Len(t) \in 1..Len(t) /\ m + Len(t) = Len(s) /\ s # <<>>
      BY <1>1, <1>2, <2>2, EmptySeq
    <3> QED BY <1>2, <2>2, <3>1 DEF OpenLine
  <2> QED BY <2>1, <2>2
<1> QED BY <1>5, <1>6, <1>7, <1>8 DEF LinesOf, Aligned, t

LEMMA AppendIsLines ==
    ASSUME NEW s \in Seq(Fragment), NEW c, LinesOf(s, c), NEW f \in Fragment, f.from = c,
           IF f.part = "tail" THEN OpenLine(s) = f.line ELSE OpenLine(s) = None
    PROVE  /\ LinesOf(Append(s, f), c)
           /\ OpenLine(Append(s, f)) = IF f.part = "head" THEN f.line ELSE None
<1> DEFINE t == Append(s, f)
<1> DEFINE n == Len(s)
<1>1. /\ n \in Nat /\ t \in Seq(Fragment) /\ t # <<>> /\ Len(t) = n + 1
      /\ \A i \in 1..n : t[i] = s[i] /\ s[i] \in Fragment
      /\ t[n + 1] = f
  BY AppendProperties, LenProperties, ElementOfSeq
<1>2. n = 0 <=> s = <<>>
  BY EmptySeq
<1>3. f.line \in Lines /\ f.line # None /\ f.part \in {"whole", "head", "tail"}
  BY ConnAssumption DEF Fragment
<1>4. f.part = "tail" =>
        n > 0 /\ s[n].part = "head" /\ s[n].line = f.line /\ s[n].from = f.from
  <2>1. HAVE f.part = "tail"
  <2>2. s # <<>> /\ s[n].part = "head" /\ s[n].line = f.line
    BY <1>3, <2>1 DEF OpenLine
  <2>3. n \in 1..Len(s)
    BY <1>1, <1>2, <2>2
  <2> QED BY <1>1, <2>2, <2>3 DEF LinesOf
<1>5. f.part # "tail" => n = 0 \/ s[n].part # "head"
  <2>1. HAVE f.part # "tail"
  <2>2. ASSUME n # 0, s[n].part = "head" PROVE FALSE
    <3>1. n \in 1..n
      BY <1>1, <2>2
    <3>2. s[n].line = None
      BY <1>2, <2>1, <2>2 DEF OpenLine
    <3>3. s[n].line \in Lines
      BY <1>1, <3>1 DEF Fragment
    <3> QED BY <3>2, <3>3, ConnAssumption
  <2> QED BY <2>2
<1> HIDE DEF t, n
<1>6. \A i \in 1..Len(t) : i \in 1..n \/ i = n + 1
  BY <1>1
<1>7. \A i \in 1..Len(t) : t[i].from = c
  BY <1>1, <1>6 DEF LinesOf, n
<1>8. ASSUME NEW i \in 1..Len(t), t[i].part = "tail"
      PROVE  i > 1 /\ IsHeadOf(t[i - 1], t[i])
  <2>1. CASE i \in 1..n
    <3>1. i > 1 /\ IsHeadOf(s[i - 1], s[i])
      BY <1>1, <1>8, <2>1 DEF LinesOf, Aligned, n
    <3>2. i - 1 \in 1..n
      BY <1>1, <2>1, <3>1
    <3> QED BY <1>1, <2>1, <3>1, <3>2
  <2>2. CASE i = n + 1
    <3>1. n \in 1..n /\ i - 1 = n /\ i > 1
      BY <1>1, <1>4, <1>8, <2>2
    <3>2. t[i - 1] = s[n] /\ t[i] = f /\ s[n] \in Fragment
      BY <1>1, <2>2, <3>1
    <3>3. s[n].part = "head" /\ s[n].line = f.line /\ s[n].from = f.from
      BY <1>4, <1>8, <3>2
    <3>4. IsHeadOf(s[n], f)
      BY <3>2, <3>3 DEF IsHeadOf, Fragment
    <3> QED BY <3>1, <3>2, <3>4
  <2> QED BY <1>6, <2>1, <2>2
<1>9. ASSUME NEW i \in 1..Len(t), t[i].part = "head", i < Len(t)
      PROVE  t[i + 1].part = "tail"
  <2>1. i \in 1..n
    BY <1>1, <1>9
  <2>2. CASE i < n
    <3>1. i + 1 \in 1..n
      BY <1>1, <2>1, <2>2
    <3> QED BY <1>1, <1>9, <2>1, <2>2, <3>1 DEF LinesOf, Aligned, n
  <2>3. CASE i = n
    <3>1. s[n].part = "head" /\ n # 0
      BY <1>1, <1>9, <2>1, <2>3
    <3> QED BY <1>1, <1>5, <2>3, <3>1
  <2> QED BY <1>1, <2>1, <2>2, <2>3
<1>10. OpenLine(t) = IF f.part = "head" THEN f.line ELSE None
  BY <1>1 DEF OpenLine
<1> QED BY <1>7, <1>8, <1>9, <1>10 DEF LinesOf, Aligned, t

\* The command a delimiter ends is seen in any prefix that has the delimiter...
LEMMA CommandInPrefix ==
    ASSUME NEW s \in Seq(Fragment), NEW a \in Seq(Fragment), Len(a) <= Len(s),
           \A i \in 1..Len(a) : a[i] = s[i]
    PROVE  /\ Delims(a) = Delims(s) \intersect 1..Len(a)
           /\ \A i \in Delims(a) : CommandAt(a, i) = CommandAt(s, i)
<1>1. Len(a) \in Nat /\ Len(s) \in Nat
  OBVIOUS
<1>2. Delims(a) = Delims(s) \intersect 1..Len(a)
  BY <1>1 DEF Delims
<1>3. ASSUME NEW i \in Delims(a) PROVE CommandAt(a, i) = CommandAt(s, i)
  <2>1. i \in 1..Len(a)
    BY DEF Delims
  <2>2. i - 1 \in Delims(a) <=> i - 1 \in Delims(s)
    BY <1>1, <1>2, <2>1 DEF Delims
  <2>3. i - 2 \in Delims(a) <=> i - 2 \in Delims(s)
    BY <1>1, <1>2, <2>1 DEF Delims
  <2>4. i > 1 => a[i - 1] = s[i - 1]
    <3>1. i > 1 => i - 1 \in 1..Len(a)
      BY <1>1, <2>1
    <3> QED BY <3>1
  <2>5. a[i] = s[i]
    BY <2>1
  <2>6. i \in Int
    BY <2>1
  <2> QED BY <2>2, <2>3, <2>4, <2>5, <2>6 DEF CommandAt
<1> QED BY <1>2, <1>3

\* ... and in what is left behind an earlier one.
LEMMA CommandInRest ==
    ASSUME NEW s \in Seq(Fragment), NEW m \in Cuts(s), NEW i \in Delims(s), i > m
    PROVE  /\ i - m \in Delims(Rest(s, m))
           /\ CommandAt(Rest(s, m), i - m) = CommandAt(s, i)
<1> DEFINE t == Rest(s, m)
<1>1. m \in 0..Len(s) /\ Len(s) \in Nat /\ i \in 1..Len(s)
  BY DEF Cuts, Delims
<1>2. /\ t \in Seq(Fragment) /\ Len(t) = Len(s) - m
      /\ \A k \in 1..Len(t) : t[k] = s[m + k]
  BY <1>1, RestProperties
<1> HIDE DEF t
<1>3. \A k \in 1..Len(s) : k > m => k - m \in 1..Len(t) /\ t[k - m] = s[k]
  <2>1. TAKE k \in 1..Len(s)
  <2>2. HAVE k > m
  <2>3. k - m \in 1..Len(t) /\ m + (k - m) = k
    BY <1>1, <1>2, <2>2
  <2> QED BY <1>2, <2>3
<1>4. \A k \in Int : k - m \in Delims(t) <=> k > m /\ k \in Delims(s)
  <2>1. TAKE k \in Int
  <2>2. k - m \in 1..Len(t) <=> k > m /\ k \in 1..Len(s)
    BY <1>1, <1>2
  <2> QED BY <1>3, <2>2 DEF Delims
<1>5. i - m \in Delims(t)
  BY <1>1, <1>4
<1>6. m = 0 \/ (m \in Delims(s) /\ s[m].part # "head")
  BY DEF Cuts, Delims
<1>7. s[i] \in Fragment
  BY <1>1
<1>8. i - m \in Int /\ i \in Int /\ m \in Int /\ t[i - m] = s[i]
  BY <1>1, <1>3
<1>9. (i - m = 1 \/ (i - m) - 1 \in Delims(t)) <=> (i = 1 \/ i - 1 \in Delims(s))
  <2>1. (i - m) - 1 \in Delims(t) <=> i - 1 > m /\ i - 1 \in Delims(s)
    <3>1. (i - m) - 1 = (i - 1) - m /\ i - 1 \in Int
      BY <1>8
    <3> QED BY <1>4, <3>1
  <2>2. i - m = 1 <=> i - 1 = m
    BY <1>8
  <2>3. i - 1 > m \/ i - 1 = m
    BY <1>1
  <2>4. i - 1 = m => i = 1 \/ i - 1 \in Delims(s)
    BY <1>1, <1>6
  <2>5. i = 1 => m = 0
    BY <1>1
  <2>6. i = 1 => i - m = 1
    BY <1>1, <2>5
  <2> QED BY <2>1, <2>2, <2>3, <2>4, <2>6
<1>10. (i - m > 1 /\ IsHeadOf(t[(i - m) - 1], t[i - m])
          /\ (i - m = 2 \/ (i - m) - 2 \in Delims(t)))
       <=> (i > 1 /\ IsHeadOf(s[i - 1], s[i]) /\ (i = 2 \/ i - 2 \in Delims(s)))
  <2>1. CASE i - m = 1
    <3>1. ~(i > 1 /\ IsHeadOf(s[i - 1], s[i]))
      <4>1. i - 1 = m /\ (i > 1 => m # 0)
        BY <1>8, <2>1
      <4>2. IsHeadOf(s[m], s[i]) => s[m].part = "head"
        BY <1>7 DEF IsHeadOf, Fragment
      <4> QED BY <1>6, <4>1, <4>2
    <3> QED BY <2>1, <3>1
  <2>2. CASE i - m > 1
    <3>1. i > 1 /\ i - 1 \in 1..Len(s) /\ i - 1 > m /\ (i - 1) - m = (i - m) - 1
      BY <1>1, <2>2
    <3>2. t[(i - m) - 1] = s[i - 1]
      BY <1>3, <3>1
    <3>3. (i - m) - 2 \in Delims(t) <=> i - 2 > m /\ i - 2 \in Delims(s)
      <4>1. (i - m) - 2 = (i - 2) - m /\ i - 2 \in Int
        BY <1>8
      <4> QED BY <1>4, <4>1
    <3>4. i - m = 2 <=> i - 2 = m
      BY <1>8
    <3>5. i - 2 > m \/ i - 2 = m
      BY <1>1, <2>2
    <3>6. i - 2 = m => i = 2 \/ i - 2 \in Delims(s)
      BY <1>1, <1>6
    <3>7. i = 2 => i - m = 2
      BY <1>1, <2>2
    <3> QED BY <1>8, <2>2, <3>1, <3>2, <3>3, <3>4, <3>5, <3>6, <3>7
  <2> QED BY <1>1, <2>1, <2>2
<1>11. CommandAt(t, i - m) = CommandAt(s, i)
  BY <1>8, <1>9, <1>10 DEF CommandAt
<1> QED BY <1>5, <1>11 DEF t

\* The first of two sequences, and the second, in their concatenation.
LEMMA Joined ==
    ASSUME NEW p \in Seq(Fragment), NEW r \in Seq(Fragment)
    PROVE  /\ p \o r \in Seq(Fragment) /\ Len(p) \in Nat /\ Len(r) \in Nat
           /\ Len(p \o r) = Len(p) + Len(r)
           /\ \A i \in 1..Len(p) : (p \o r)[i] = p[i]
           /\ \A i \in 1..Len(r) : (p \o r)[Len(p) + i] = r[i]
<1> DEFINE t == p \o r
<1>1. /\ Len(p) \in Nat /\ Len(r) \in Nat
      /\ t \in Seq(Fragment) /\ Len(t) = Len(p) + Len(r)
      /\ \A i \in 1..(Len(p) + Len(r)) : t[i] = IF i <= Len(p) THEN p[i] ELSE r[i - Len(p)]
  BY ConcatProperties, LenProperties
<1> HIDE DEF t
<1>2. \A i \in 1..Len(p) : t[i] = p[i]
  BY <1>1
<1>3. ASSUME NEW i \in 1..Len(r) PROVE t[Len(p) + i] = r[i]
  <2>1. Len(p) + i \in 1..(Len(p) + Len(r)) /\ ~(Len(p) + i <= Len(p))
        /\ (Len(p) + i) - Len(p) = i
    BY <1>1
  <2> QED BY <1>1, <2>1
<1> QED BY <1>1, <1>2, <1>3 DEF t

\* What one cycle has at hand is the start of what there is, and what it leaves
\* for the next is the rest behind the last delimiter it had.
LEMMA CycleLeavesRest ==
    ASSUME NEW p \in Seq(Fragment), NEW r \in Seq(Fragment), NEW d \in 0..Len(r)
    PROVE  LET a == p \o SubSeq(r, 1, d)
               s == p \o r
           IN  /\ a \in Seq(Fragment) /\ s \in Seq(Fragment) /\ Len(a) <= Len(s)
               /\ \A i \in 1..Len(a) : a[i] = s[i]
               /\ Rest(r, d) \in Seq(Fragment)
               /\ \E m \in Cuts(s) :
                     /\ m <= Len(a) /\ \A i \in Delims(a) : i <= m
                     /\ Unterminated(a) \in Seq(Fragment)
                     /\ Unterminated(a) \o Rest(r, d) = Rest(s, m)
<1> DEFINE q == SubSeq(r, 1, d)
<1> DEFINE a == p \o q
<1> DEFINE s == p \o r
<1> DEFINE z == Rest(r, d)
<1>1. /\ q \in Seq(Fragment) /\ Len(q) = d /\ Len(r) \in Nat /\ d \in Nat /\ d <= Len(r)
      /\ \A i \in 1..d : q[i] = r[i]
  <2>1. Len(r) \in Nat /\ \A i \in 1..d : r[i] \in Fragment
    OBVIOUS
  <2>2. 1 \in Int /\ d \in Int
    BY <2>1
  <2>3. /\ q \in Seq(Fragment) /\ Len(q) = IF 1 <= d THEN d - 1 + 1 ELSE 0
        /\ \A i \in 1..(d - 1 + 1) : q[i] = r[1 + i - 1]
    BY <2>1, <2>2, SubSeqProperties
  <2> HIDE DEF q
  <2>4. Len(q) = d
    BY <2>1, <2>3
  <2>5. d - 1 + 1 = d /\ \A i \in 1..d : 1 + i - 1 = i
    BY <2>1
  <2> QED BY <2>1, <2>3, <2>4, <2>5
<1>2. /\ a \in Seq(Fragment) /\ Len(a) = Len(p) + d /\ Len(p) \in Nat
      /\ \A i \in 1..Len(p) : a[i] = p[i]
      /\ \A i \in 1..d : a[Len(p) + i] = q[i]
  <2> HIDE DEF q
  <2> QED BY <1>1, Joined
<1>3. /\ s \in Seq(Fragment) /\ Len(s) = Len(p) + Len(r)
      /\ \A i \in 1..Len(p) : s[i] = p[i]
      /\ \A i \in 1..Len(r) : s[Len(p) + i] = r[i]
  BY Joined
<1>4. /\ z \in Seq(Fragment) /\ Len(z) = Len(r) - d
      /\ \A i \in 1..(Len(r) - d) : z[i] = r[d + i]
  BY RestProperties
<1> HIDE DEF q, a, s, z
<1>5. \A i \in 1..Len(a) : a[i] = s[i]
  <2>1. TAKE i \in 1..Len(a)
  <2>2. CASE i \in 1..Len(p)
    BY <1>2, <1>3, <2>2
  <2>3. CASE i \notin 1..Len(p)
    <3>1. i - Len(p) \in 1..d /\ i - Len(p) \in 1..Len(r) /\ Len(p) + (i - Len(p)) = i
      BY <1>1, <1>2, <2>3
    <3> QED BY <1>1, <1>2, <1>3, <3>1
  <2> QED BY <2>2, <2>3
<1>6. Len(a) <= Len(s) /\ Len(a) \in Nat /\ Len(s) \in Nat
  BY <1>1, <1>2, <1>3
<1> DEFINE m == Max(Delims(a) \union {0})
<1>7. m \in Delims(a) \union {0} /\ \A i \in Delims(a) \union {0} : i <= m
  <2>1. Delims(a) \union {0} \in SUBSET (0..Len(a))
    BY <1>6 DEF Delims
  <2> QED BY <1>6, <2>1, Greatest
<1>8. Unterminated(a) = Rest(a, m)
  BY DEF Unterminated, Rest
<1> HIDE DEF m
<1>9. m \in Cuts(s) /\ m \in 0..Len(a) /\ m \in 0..Len(s)
  <2>1. Delims(a) = Delims(s) \intersect 1..Len(a)
    BY <1>2, <1>3, <1>5, <1>6, CommandInPrefix
  <2> QED BY <1>6, <1>7, <2>1 DEF Cuts
<1> DEFINE u == Rest(a, m)
<1> DEFINE v == Rest(s, m)
<1>10. /\ u \in Seq(Fragment) /\ Len(u) = Len(a) - m
       /\ \A i \in 1..(Len(a) - m) : u[i] = a[m + i]
  BY <1>2, <1>9, RestProperties
<1>11. /\ v \in Seq(Fragment) /\ Len(v) = Len(s) - m
       /\ \A i \in 1..(Len(s) - m) : v[i] = s[m + i]
  BY <1>3, <1>9, RestProperties
<1> HIDE DEF u, v
<1> DEFINE w == u \o z
<1>12. /\ w \in Seq(Fragment) /\ Len(w) = Len(u) + Len(z)
       /\ \A i \in 1..Len(u) : w[i] = u[i]
       /\ \A i \in 1..Len(z) : w[Len(u) + i] = z[i]
  BY <1>4, <1>10, Joined
<1> HIDE DEF w
<1>13. Len(w) = Len(v)
  BY <1>1, <1>2, <1>3, <1>4, <1>6, <1>9, <1>10, <1>11, <1>12
<1>14. \A i \in 1..Len(w) : w[i] = v[i]
  <2>1. TAKE i \in 1..Len(w)
  <2>2. v[i] = s[m + i]
    BY <1>11, <1>13
  <2>3. CASE i \in 1..Len(u)
    <3>1. m + i \in 1..Len(a)
      BY <1>6, <1>9, <1>10, <2>3
    <3>2. w[i] = a[m + i]
      BY <1>10, <1>12, <2>3
    <3> QED BY <1>5, <2>2, <3>1, <3>2
  <2>4. CASE i \notin 1..Len(u)
    <3> DEFINE k == i - Len(u)
    <3>1. k \in 1..Len(z) /\ Len(u) + k = i
      <4>1. Len(u) \in Nat /\ Len(z) \in Nat /\ Len(w) = Len(u) + Len(z)
        BY <1>4, <1>10, <1>12, LenProperties
      <4>2. i \in 1..Len(w) /\ ~(i <= Len(u))
        BY <2>4, <4>1
      <4> QED BY <4>1, <4>2
    <3> HIDE DEF k
    <3>2. d + k \in 1..Len(r) /\ Len(p) + (d + k) = m + i
      <4>1. /\ Len(p) \in Nat /\ Len(r) \in Nat /\ d \in 0..Len(r)
            /\ Len(a) = Len(p) + d /\ Len(z) = Len(r) - d
        BY <1>1, <1>2, <1>4
      <4>2. m \in 0..Len(a) /\ Len(u) = Len(a) - m
        BY <1>9, <1>10
      <4>3. k \in 1..Len(z) /\ Len(u) + k = i
        BY <3>1
      <4> QED BY <4>1, <4>2, <4>3
    <3>3. w[i] = z[k] /\ z[k] = r[d + k]
      BY <1>4, <1>12, <3>1
    <3>4. s[m + i] = r[d + k]
      BY <1>3, <3>2
    <3> QED BY <2>2, <3>3, <3>4
  <2> QED BY <2>3, <2>4
<1>15. w = v
  BY <1>11, <1>12, <1>13, <1>14, SeqEqual
<1>16. Unterminated(a) \in Seq(Fragment) /\ Unterminated(a) \o z = v
  BY <1>8, <1>10, <1>15 DEF u, w
<1>17. \E x \in Cuts(s) :
          /\ x <= Len(a) /\ \A i \in Delims(a) : i <= x
          /\ Unterminated(a) \in Seq(Fragment)
          /\ Unterminated(a) \o z = Rest(s, x)
  <2>1. m <= Len(a) /\ \A i \in Delims(a) : i <= m
    BY <1>6, <1>7, <1>9
  <2>2. Unterminated(a) \o z = Rest(s, m)
    BY <1>16 DEF v
  <2> QED BY <1>9, <1>16, <2>1, <2>2
<1> QED BY <1>2, <1>3, <1>4, <1>5, <1>6, <1>17 DEF q, a, s, z

\* One cycle serving the client, on the adopted connection's fragments.
LEMMA ServeLeavesRest ==
    ASSUME StreamTypes, ServeClient
    PROVE  LET s == partialLine \o rx[current]
           IN  /\ current \in Conns
               /\ Assembled \in Seq(Fragment) /\ s \in Seq(Fragment)
               /\ Len(Assembled) <= Len(s)
               /\ \A i \in 1..Len(Assembled) : Assembled[i] = s[i]
               /\ partialLine' \in Seq(Fragment) /\ rx' \in [Conns -> Seq(Fragment)]
               /\ \A c \in Conns \ {current} : rx'[c] = rx[c]
               /\ \E m \in Cuts(s) :
                     /\ m <= Len(Assembled) /\ \A i \in Delims(Assembled) : i <= m
                     /\ partialLine' \o rx'[current] = Rest(s, m)
<1> DEFINE r == rx[current]
<1>1. current \in Conns
  BY DEF ServeClient, Serving, haveClient, Live, StreamTypes
<1>2. r \in Seq(Fragment) /\ partialLine \in Seq(Fragment)
  BY <1>1 DEF StreamTypes
<1>3. Drained \in 0..Len(r)
  <2>1. Len(r) \in Nat /\ MaxDrain \in Nat
    BY <1>2, ConnAssumption
  <2>2. {Len(r), MaxDrain} \in SUBSET Nat
    BY <2>1
  <2>3. Drained \in {Len(r), MaxDrain} /\ Drained <= Len(r)
    BY <2>2, Least DEF Drained
  <2> QED BY <2>1, <2>3
<1>4. Assembled = partialLine \o SubSeq(r, 1, Drained)
  BY DEF Assembled
<1>5. partialLine' = Unterminated(Assembled)
  BY DEF ServeClient
<1>6. rx' = [rx EXCEPT ![current] = Rest(r, Drained)]
  BY DEF ServeClient, Rest
<1>7. Rest(r, Drained) \in Seq(Fragment)
  BY <1>2, <1>3, CycleLeavesRest
<1>8. /\ rx' \in [Conns -> Seq(Fragment)] /\ rx'[current] = Rest(r, Drained)
      /\ \A c \in Conns \ {current} : rx'[c] = rx[c]
  BY <1>1, <1>6, <1>7 DEF StreamTypes
<1> DEFINE a == partialLine \o SubSeq(r, 1, Drained)
<1> DEFINE s == partialLine \o r
<1>9. /\ a \in Seq(Fragment) /\ s \in Seq(Fragment) /\ Len(a) <= Len(s)
      /\ \A i \in 1..Len(a) : a[i] = s[i]
      /\ \E m \in Cuts(s) :
            /\ m <= Len(a) /\ \A i \in Delims(a) : i <= m
            /\ Unterminated(a) \in Seq(Fragment)
            /\ Unterminated(a) \o Rest(r, Drained) = Rest(s, m)
  BY <1>2, <1>3, CycleLeavesRest
<1>10. Assembled = a /\ partialLine' = Unterminated(a)
  BY <1>4, <1>5
<1> HIDE DEF a
<1> QED BY <1>1, <1>8, <1>9, <1>10

\* What arrives is appended to all that is there, and dropping what was not read
\* leaves lines.
LEMMA AppendBehind ==
    ASSUME NEW p \in Seq(Fragment), NEW r \in Seq(Fragment), NEW f \in Fragment
    PROVE  p \o Append(r, f) = Append(p \o r, f)
<1>1. Append(r, f) = r \o <<f>> /\ <<f>> \in Seq(Fragment)
  BY AppendIsConcat
<1>2. p \o r \in Seq(Fragment)
  BY ConcatProperties
<1>3. Append(p \o r, f) = (p \o r) \o <<f>>
  BY <1>2, AppendIsConcat
<1>4. (p \o r) \o <<f>> = p \o (r \o <<f>>)
  BY <1>1, ConcatAssociative
<1> QED BY <1>1, <1>3, <1>4

LEMMA StartIsLines ==
    ASSUME NEW p \in Seq(Fragment), NEW r \in Seq(Fragment), NEW c, LinesOf(p \o r, c)
    PROVE  LinesOf(p, c)
<1> DEFINE t == p \o r
<1>1. /\ Len(p) \in Nat /\ Len(r) \in Nat /\ Len(t) = Len(p) + Len(r)
      /\ \A i \in 1..Len(p) : t[i] = p[i]
  BY Joined
<1>2. LinesOf(t, c)
  OBVIOUS
<1> HIDE DEF t
<1>3. \A i \in 1..Len(p) : i \in 1..Len(t) /\ (i < Len(p) => i < Len(t))
  BY <1>1
<1>4. \A i \in 1..Len(p) : i > 1 => i - 1 \in 1..Len(p)
  BY <1>1
<1>5. \A i \in 1..Len(p) : i < Len(p) => i + 1 \in 1..Len(p)
  BY <1>1
<1> QED BY <1>1, <1>2, <1>3, <1>4, <1>5 DEF LinesOf, Aligned

LEMMA EmptyIsLines == /\ <<>> \in Seq(Fragment)
                      /\ \A c : LinesOf(<<>>, c)
                      /\ OpenLine(<<>>) = None
<1>1. <<>> \in Seq(Fragment) /\ Len(<<>>) = 0
  BY EmptySeq
<1> QED BY <1>1 DEF LinesOf, Aligned, OpenLine

-----------------------------------------------------------------------------
(* The invariant *)

\* loop(): nothing but the end of a read line is taken off a stream.
LEMMA LoopKeepsStreams == StreamInv /\ LoopStep => StreamInv'
<1> SUFFICES ASSUME StreamInv, LoopStep PROVE StreamInv'
  OBVIOUS
<1>0. StreamTypes /\ OnePlace
  BY DEF StreamInv
<1>1. ASSUME UNCHANGED <<managerVars, rx, hostVars, backlog>>,
             phase' \in {"serial", "cycle", "update", "restart", "frames"}
      PROVE  StreamInv'
  BY <1>1 DEF StreamInv, StreamTypes, OnePlace, Stream, managerVars, hostVars
<1>2. CASE DrainSerial \/ NoClient \/ WiFiUpdate \/ processFrames
  BY <1>1, <1>2 DEF DrainSerial, NoClient, WiFiUpdate, processFrames
<1>3. CASE restartTcpServerIfNeeded
  <2>1. CASE backlog' = backlog
    BY <1>1, <1>3, <2>1 DEF restartTcpServerIfNeeded
  <2>2. CASE backlog' = <<>>
    BY <1>3, <2>2 DEF restartTcpServerIfNeeded, StreamInv, StreamTypes, OnePlace, Stream,
                      managerVars, hostVars
  <2> QED BY <1>3, <2>1, <2>2 DEF restartTcpServerIfNeeded
<1>4. CASE SerialReboot \/ ClientReboot
  <2>1. Reboot
    BY <1>4 DEF SerialReboot, ClientReboot
  <2>2. rx' \in [Conns -> Seq(Fragment)]
    BY <2>1, EmptyIsLines DEF Reboot
  <2> QED BY <2>1, <2>2, EmptyIsLines
          DEF Reboot, StreamInv, StreamTypes, OnePlace, hostVars
<1>5. CASE Accept
  <2>1. /\ backlog # <<>> /\ current' = Head(backlog) /\ backlog' = Tail(backlog)
        /\ partialLine' = <<>> /\ phase' = "auth" /\ UNCHANGED <<rx, peer, half>>
    BY <1>5 DEF Accept, Arrival, Adopt, hostVars
  <2>2. /\ Head(backlog) = backlog[1] /\ backlog' \in Seq(Conns)
        /\ Len(backlog) \in Nat \ {0} /\ Len(backlog') = Len(backlog) - 1
        /\ \A i \in 1..Len(backlog') : backlog'[i] = backlog[i + 1]
    BY <1>0, <2>1, HeadTailProperties, EmptySeq DEF StreamTypes
  <2>3. current' \in Conns /\ current' # None /\ rx[current'] \in Seq(Fragment)
    BY <1>0, <2>1, <2>2, ConnAssumption, ElementOfSeq DEF StreamTypes
  <2>4. StreamTypes'
    BY <1>0, <2>1, <2>2, <2>3, EmptyIsLines DEF StreamTypes
  <2>5. \A i \in 1..Len(backlog') : i + 1 \in 1..Len(backlog) /\ i + 1 # 1
    BY <2>2
  <2>6. OnePlace'
    <3>1. 1 \in 1..Len(backlog)
      BY <2>2
    <3>2. \A i \in 1..Len(backlog') : backlog'[i] # current'
      BY <1>0, <2>1, <2>2, <2>5, <3>1 DEF OnePlace
    <3>3. \A i, j \in 1..Len(backlog') : backlog'[i] = backlog'[j] => i = j
      <4>1. TAKE i, j \in 1..Len(backlog')
      <4>2. HAVE backlog'[i] = backlog'[j]
      <4>3. i + 1 = j + 1
        BY <1>0, <2>2, <2>5, <4>2 DEF OnePlace
      <4>4. i \in Int /\ j \in Int
        BY <2>2
      <4> QED BY <4>3, <4>4
    <3> QED BY <3>2, <3>3 DEF OnePlace
  <2>7. \A i \in 1..Len(backlog') : Stream(rx[backlog[i]], backlog[i])'
    <3>1. TAKE i \in 1..Len(backlog')
    <3>2. (LinesOf(rx[backlog[i + 1]], backlog[i + 1])
            /\ (peer[backlog[i + 1]] = "open"
                  => half[backlog[i + 1]] = OpenLine(rx[backlog[i + 1]])))
      BY <2>5 DEF StreamInv, Stream
    <3>3. backlog'[i] = backlog[i + 1]
      BY <2>2
    <3> QED BY <2>1, <3>2, <3>3 DEF Stream
  <2>8. (partialLine \o rx[current])' = rx[current']
    BY <2>1, <2>3, ConcatEmptySeq
  <2>9. Stream(partialLine \o rx[current], current)'
    <3>1. 1 \in 1..Len(backlog)
      BY <2>2
    <3>2. LinesOf(rx[backlog[1]], backlog[1])
            /\ (peer[backlog[1]] = "open" => half[backlog[1]] = OpenLine(rx[backlog[1]]))
      BY <3>1 DEF StreamInv, Stream
    <3> QED BY <2>1, <2>2, <2>8, <3>2 DEF Stream
  <2> QED BY <2>1, <2>3, <2>4, <2>6, <2>7, <2>9 DEF StreamInv
<1>6. ASSUME ReadFirstLine, phase = "auth", UNCHANGED <<backlog, hostVars, partialLine>>
      PROVE  /\ rx' \in [Conns -> Seq(Fragment)]
             /\ \A i \in 1..Len(backlog) : Stream(rx[backlog[i]], backlog[i])'
             /\ current' = current /\ Delims(rx[current]) # {}
                  => Stream(partialLine \o rx[current], current)'
  <2> DEFINE r == rx[current]
  <2>1. current \in Conns /\ partialLine = <<>> /\ r \in Seq(Fragment)
    BY <1>0, <1>6 DEF StreamInv, StreamTypes
  <2>2. rx' = [rx EXCEPT ![current] = Rest(r, LineEnd(r))]
    BY <1>6 DEF ReadFirstLine, Rest
  <2>3. LineEnd(r) \in 0..Len(r) /\ (Delims(r) # {} => LineEnd(r) \in Cuts(r))
    <3>1. Delims(r) \in SUBSET Nat /\ Delims(r) \subseteq 1..Len(r) /\ Len(r) \in Nat
      BY <2>1 DEF Delims
    <3> QED BY <3>1, Least DEF LineEnd, Cuts
  <2>4. Rest(r, LineEnd(r)) \in Seq(Fragment)
    BY <2>1, <2>3, RestProperties
  <2>5. /\ rx' \in [Conns -> Seq(Fragment)] /\ rx'[current] = Rest(r, LineEnd(r))
        /\ \A c \in Conns \ {current} : rx'[c] = rx[c]
    BY <1>0, <2>1, <2>2, <2>4 DEF StreamTypes
  <2>6. \A i \in 1..Len(backlog) : Stream(rx[backlog[i]], backlog[i])'
    <3>1. TAKE i \in 1..Len(backlog)
    <3>2. backlog[i] \in Conns \ {current}
      BY <1>0, ElementOfSeq DEF StreamTypes, OnePlace
    <3>3. Stream(rx[backlog[i]], backlog[i])
      BY DEF StreamInv
    <3> QED BY <1>6, <2>5, <3>2, <3>3 DEF Stream, hostVars
  <2>7. ASSUME current' = current, Delims(r) # {}
        PROVE  Stream(partialLine \o rx[current], current)'
    <3>1. partialLine \o r = r /\ partialLine' \o rx'[current'] = Rest(r, LineEnd(r))
      BY <1>6, <2>1, <2>4, <2>5, <2>7, ConcatEmptySeq
    <3>2. Stream(r, current)
      BY <1>6, <3>1 DEF StreamInv
    <3>3. /\ LinesOf(Rest(r, LineEnd(r)), current)
          /\ OpenLine(Rest(r, LineEnd(r))) = OpenLine(r)
      BY <2>1, <2>3, <2>7, <3>2, RestIsLines DEF Stream
    <3> QED BY <1>6, <2>7, <3>1, <3>2, <3>3 DEF Stream, hostVars
  <2> QED BY <2>5, <2>6, <2>7
<1>7. CASE Greet
  <2>1. /\ ReadFirstLine /\ phase = "auth" /\ phase' = "update" /\ Delims(rx[current]) # {}
        /\ UNCHANGED <<current, backlog, hostVars, partialLine>>
    BY <1>7 DEF Greet, isValidAuthToken, managerVars
  <2> QED BY <1>0, <1>6, <2>1 DEF StreamInv, StreamTypes, OnePlace, hostVars
<1>8. CASE Reject
  <2>1. /\ ReadFirstLine /\ phase = "auth" /\ phase' = "update" /\ current' = None
        /\ UNCHANGED <<backlog, hostVars, partialLine>>
    BY <1>8 DEF Reject
  <2>2. \A i \in 1..Len(backlog) : backlog[i] # None
    BY <1>0, ConnAssumption, ElementOfSeq DEF StreamTypes
  <2> QED BY <1>0, <1>6, <2>1, <2>2 DEF StreamInv, StreamTypes, OnePlace, hostVars
<1>9. CASE ServeClient
  <2> DEFINE s == partialLine \o rx[current]
  <2>1. /\ phase' = "update" /\ UNCHANGED <<current, backlog, peer, half>>
        /\ current # None
    BY <1>9 DEF ServeClient, Serving, haveClient, Live, hostVars
  <2>2. /\ current \in Conns /\ s \in Seq(Fragment)
        /\ partialLine' \in Seq(Fragment) /\ rx' \in [Conns -> Seq(Fragment)]
        /\ \A c \in Conns \ {current} : rx'[c] = rx[c]
    BY <1>0, <1>9, ServeLeavesRest
  <2>3. PICK m \in Cuts(s) : partialLine' \o rx'[current] = Rest(s, m)
    BY <1>0, <1>9, ServeLeavesRest
  <2>4. LinesOf(s, current) /\ (peer[current] = "open" => half[current] = OpenLine(s))
    BY <2>1 DEF StreamInv, Stream
  <2> HIDE DEF s
  <2>5. LinesOf(Rest(s, m), current) /\ OpenLine(Rest(s, m)) = OpenLine(s)
    BY <2>2, <2>4, RestIsLines
  <2>6. Stream(partialLine \o rx[current], current)'
    BY <2>1, <2>3, <2>4, <2>5 DEF Stream
  <2>7. \A i \in 1..Len(backlog) : Stream(rx[backlog[i]], backlog[i])'
    <3>1. TAKE i \in 1..Len(backlog)
    <3>2. backlog[i] \in Conns \ {current}
      BY <1>0, ElementOfSeq DEF StreamTypes, OnePlace
    <3>3. Stream(rx[backlog[i]], backlog[i])
      BY DEF StreamInv
    <3> QED BY <2>1, <2>2, <3>2, <3>3 DEF Stream
  <2> QED BY <1>0, <2>1, <2>2, <2>6, <2>7 DEF StreamInv, StreamTypes, OnePlace
<1>10. CASE DropClient
  <2>1. /\ partialLine' = <<>> /\ current' = None /\ phase' = "update"
        /\ UNCHANGED <<backlog, peer, half, rx>>
    BY <1>10 DEF DropClient, hostVars
  <2>2. \A i \in 1..Len(backlog) : backlog[i] # None
    BY <1>0, ConnAssumption, ElementOfSeq DEF StreamTypes
  <2> QED BY <2>1, <2>2, EmptyIsLines DEF StreamInv, StreamTypes, OnePlace, Stream
<1> QED BY <1>2, <1>3, <1>4, <1>5, <1>7, <1>8, <1>9, <1>10 DEF LoopStep


\* Hosts: bytes go to the end of one connection's stream, whose host goes on where
\* it stopped; a reset loses what was not read.
LEMMA HostsKeepStreams ==
    ASSUME StreamInv, NEW c \in Conns, Connect(c) \/ Send(c) \/ Close(c)
    PROVE  StreamInv'
<1>0. /\ StreamTypes /\ OnePlace
      /\ \A i \in 1..Len(backlog) : backlog[i] \in Conns
  BY ElementOfSeq DEF StreamInv, StreamTypes
<1>1. UNCHANGED <<phase, current, partialLine>>
  BY DEF Connect, Send, Close, deviceVars, managerVars
<1>2. \A d \in Conns \ {c} : rx'[d] = rx[d] /\ peer'[d] = peer[d] /\ half'[d] = half[d]
  BY <1>0 DEF Connect, Send, Close, StreamTypes
<1>3. CASE Connect(c)
  <2>1. /\ rx' = [rx EXCEPT ![c] = <<>>] /\ half' = [half EXCEPT ![c] = None]
        /\ peer' = [peer EXCEPT ![c] = "open"] /\ backlog' = Append(backlog, c)
        /\ c # current /\ \A i \in 1..Len(backlog) : backlog[i] # c
    <3>1. c # current /\ \A i \in DOMAIN backlog : backlog[i] # c
      BY <1>3 DEF Connect, Held, Range
    <3>2. DOMAIN backlog = 1..Len(backlog)
      BY <1>0 DEF StreamTypes
    <3> QED BY <1>3, <3>1, <3>2 DEF Connect
  <2>2. /\ rx'[c] = <<>> /\ half'[c] = None
        /\ rx' \in [Conns -> Seq(Fragment)] /\ half' \in [Conns -> Lines \union {None}]
        /\ peer' \in [Conns -> {"open", "closed"}]
    BY <1>0, <2>1, EmptyIsLines DEF StreamTypes
  <2>3. /\ backlog' \in Seq(Conns) /\ Len(backlog') = Len(backlog) + 1
        /\ Len(backlog) \in Nat
        /\ \A i \in 1..Len(backlog) : backlog'[i] = backlog[i]
        /\ backlog'[Len(backlog) + 1] = c
    BY <1>0, <2>1, AppendProperties, LenProperties DEF StreamTypes
  <2>4. \A i \in 1..Len(backlog') : i \in 1..Len(backlog) \/ i = Len(backlog) + 1
    BY <2>3
  <2>5. OnePlace'
    BY <1>0, <1>1, <2>1, <2>3, <2>4 DEF OnePlace
  <2>6. \A i \in 1..Len(backlog') : Stream(rx[backlog[i]], backlog[i])'
    <3>1. ASSUME NEW i \in 1..Len(backlog) PROVE Stream(rx[backlog[i]], backlog[i])'
      <4>1. backlog[i] \in Conns \ {c} /\ backlog'[i] = backlog[i]
        BY <1>0, <2>1, <2>3
      <4>2. Stream(rx[backlog[i]], backlog[i])
        BY DEF StreamInv
      <4> QED BY <1>2, <4>1, <4>2 DEF Stream
    <3>2. ASSUME NEW i, i = Len(backlog) + 1 PROVE Stream(rx[backlog[i]], backlog[i])'
      BY <2>2, <2>3, <3>2, EmptyIsLines DEF Stream
    <3> QED BY <2>4, <3>1, <3>2
  <2>7. current # None => Stream(partialLine \o rx[current], current)'
    <3>1. HAVE current # None
    <3>2. current \in Conns \ {c}
      BY <1>0, <2>1, <3>1 DEF StreamTypes
    <3> QED BY <1>1, <1>2, <3>1, <3>2 DEF StreamInv, Stream
  <2> QED BY <1>0, <1>1, <2>2, <2>3, <2>5, <2>6, <2>7 DEF StreamInv, StreamTypes
<1>4. ASSUME UNCHANGED backlog,
             /\ rx' \in [Conns -> Seq(Fragment)]
             /\ half' \in [Conns -> Lines \union {None}]
             /\ peer' \in [Conns -> {"open", "closed"}],
             Stream(rx[c], c) => Stream(rx[c], c)',
             c = current => Stream(partialLine \o rx[c], c)'
      PROVE  StreamInv'
  <2>1. \A i \in 1..Len(backlog) : Stream(rx[backlog[i]], backlog[i])'
    <3>1. TAKE i \in 1..Len(backlog)
    <3>2. Stream(rx[backlog[i]], backlog[i])
      BY DEF StreamInv
    <3>3. CASE backlog[i] = c
      BY <1>4, <3>2, <3>3 DEF Stream
    <3>4. CASE backlog[i] # c
      BY <1>0, <1>2, <1>4, <3>2, <3>4 DEF Stream
    <3> QED BY <3>3, <3>4
  <2>2. current # None => Stream(partialLine \o rx[current], current)'
    <3>1. HAVE current # None
    <3>2. CASE current = c
      BY <1>1, <1>4, <3>2
    <3>3. CASE current # c
      <4>1. current \in Conns \ {c}
        BY <1>0, <3>1, <3>3 DEF StreamTypes
      <4> QED BY <1>1, <1>2, <3>1, <4>1 DEF StreamInv, Stream
    <3> QED BY <3>2, <3>3
  <2> QED BY <1>0, <1>1, <1>4, <2>1, <2>2 DEF StreamInv, StreamTypes, OnePlace
<1>5. CASE Send(c)
  <2>1. PICK f \in Fragment :
          /\ f.from = c
          /\ IF f.part = "tail" THEN half[c] = f.line ELSE half[c] = None
          /\ half' = [half EXCEPT ![c] = IF f.part = "head" THEN f.line ELSE None]
          /\ rx' = [rx EXCEPT ![c] = Append(@, f)]
    BY <1>5 DEF Send
  <2>2. peer[c] = "open" /\ UNCHANGED <<peer, backlog>>
    BY <1>5 DEF Send
  <2>3. rx[c] \in Seq(Fragment) /\ Append(rx[c], f) \in Seq(Fragment) /\ f.line \in Lines
    BY <1>0, AppendProperties DEF StreamTypes, Fragment
  <2>4. /\ rx' \in [Conns -> Seq(Fragment)] /\ half' \in [Conns -> Lines \union {None}]
        /\ rx'[c] = Append(rx[c], f)
        /\ half'[c] = IF f.part = "head" THEN f.line ELSE None
    BY <1>0, <2>1, <2>3 DEF StreamTypes
  <2>5. ASSUME NEW s \in Seq(Fragment), LinesOf(s, c), half[c] = OpenLine(s)
        PROVE  LinesOf(Append(s, f), c) /\ half'[c] = OpenLine(Append(s, f))
    BY <2>1, <2>4, <2>5, AppendIsLines
  <2>6. Stream(rx[c], c) => Stream(rx[c], c)'
    BY <2>2, <2>3, <2>4, <2>5 DEF Stream
  <2>7. c = current => Stream(partialLine \o rx[c], c)'
    <3>1. HAVE c = current
    <3>2. partialLine \in Seq(Fragment) /\ partialLine \o rx[c] \in Seq(Fragment)
      BY <1>0, <2>3, ConcatProperties DEF StreamTypes
    <3>3. LinesOf(partialLine \o rx[c], c) /\ half[c] = OpenLine(partialLine \o rx[c])
      BY <2>2, <3>1, ConnAssumption DEF StreamInv, Stream
    <3>4. (partialLine \o rx[c])' = Append(partialLine \o rx[c], f)
      BY <1>1, <2>3, <2>4, <3>2, AppendBehind
    <3> QED BY <2>5, <3>2, <3>3, <3>4 DEF Stream
  <2> QED BY <1>0, <1>4, <2>2, <2>4, <2>6, <2>7 DEF StreamTypes
<1>6. CASE Close(c)
  <2>1. /\ peer' = [peer EXCEPT ![c] = "closed"] /\ UNCHANGED <<half, backlog>>
        /\ rx' \in {rx, [rx EXCEPT ![c] = <<>>]}
    BY <1>6 DEF Close
  <2>2. /\ peer'[c] = "closed" /\ rx' \in [Conns -> Seq(Fragment)]
        /\ peer' \in [Conns -> {"open", "closed"}] /\ rx'[c] \in {rx[c], <<>>}
        /\ rx[c] \in Seq(Fragment)
    BY <1>0, <2>1, EmptyIsLines DEF StreamTypes
  <2>3. Stream(rx[c], c) => Stream(rx[c], c)'
    BY <2>2, EmptyIsLines DEF Stream
  <2>4. c = current => Stream(partialLine \o rx[c], c)'
    <3>1. HAVE c = current
    <3>2. partialLine \in Seq(Fragment) /\ LinesOf(partialLine \o rx[c], c)
      BY <1>0, <3>1, ConnAssumption DEF StreamInv, Stream, StreamTypes
    <3>3. LinesOf(partialLine, c) /\ partialLine \o <<>> = partialLine
      BY <2>2, <3>2, StartIsLines, ConcatEmptySeq
    <3> QED BY <1>1, <2>2, <3>2, <3>3 DEF Stream
  <2> QED BY <1>0, <1>4, <2>1, <2>2, <2>3, <2>4 DEF StreamTypes
<1> QED BY <1>3, <1>5, <1>6

\* The streams stay streams.
LEMMA StreamStep == StreamInv /\ [Next]_vars => StreamInv'
<1> SUFFICES ASSUME StreamInv, [Next]_vars PROVE StreamInv'
  OBVIOUS
<1>1. CASE WiFiEvent \/ CanFrame \/ UNCHANGED vars
  BY <1>1 DEF WiFiEvent, CanFrame, vars, deviceVars, managerVars, hostVars,
              StreamInv, StreamTypes, OnePlace, Stream
<1> QED BY <1>1, LoopKeepsStreams, HostsKeepStreams DEF Next

LEMMA Streamed == Spec => []StreamInv
<1>1. Init => StreamInv
  BY EmptyIsLines DEF Init, StreamInv, StreamTypes, OnePlace
<1> QED BY <1>1, StreamStep, PTL DEF Spec

\* Whatever is dispatched is one whole line of the adopted client, for any number
\* of hosts, split and coalesced lines, resets and re-binds (readAvailableLine,
\* partialLine_).
THEOREM CommandsStayWhole == Spec => []CommandsWhole
<1>1. StreamInv => CommandsWhole
  <2> SUFFICES ASSUME StreamInv, current # None,
                      NEW i \in Delims(partialLine \o rx[current])
               PROVE  CommandAt(partialLine \o rx[current], i) # Garbled
    BY DEF CommandsWhole
  <2>1. partialLine \o rx[current] \in Seq(Fragment)
    BY ConcatProperties DEF StreamInv, StreamTypes
  <2>2. Aligned(partialLine \o rx[current])
    BY DEF StreamInv, Stream, LinesOf
  <2> QED BY <2>1, <2>2, AlignedCommands
<1> QED BY <1>1, Streamed, PTL

\* Of a command taken off the stream the cycle has all, and answers it.
LEMMA ServeAnswers ==
    ASSUME StreamTypes, ServeClient, NEW cmd \in CompleteCommands \ CompleteCommands'
    PROVE  IF cmd = "PING" THEN <<current, "PING">> \in out'
           ELSE mirror # None => <<mirror, Answer(cmd)>> \in out'
<1> DEFINE a == Assembled
<1> DEFINE s == partialLine \o rx[current]
<1>1. /\ a \in Seq(Fragment) /\ s \in Seq(Fragment) /\ Len(a) <= Len(s)
      /\ \A i \in 1..Len(a) : a[i] = s[i]
      /\ current \in Conns
  BY ServeLeavesRest
<1>2. PICK m \in Cuts(s) : m <= Len(a) /\ partialLine' \o rx'[current] = Rest(s, m)
  BY ServeLeavesRest
<1>3. PICK i \in Delims(s) : cmd = CommandAt(s, i)
  BY DEF CompleteCommands
<1>4. current' = current
  BY DEF ServeClient
<1>5. ~RestartsDevice(a) /\ out' = Replies(a)
  BY DEF ServeClient
<1>6. CompleteCommands' = {CommandAt(Rest(s, m), k) : k \in Delims(Rest(s, m))}
  BY <1>2, <1>4 DEF CompleteCommands
<1> HIDE DEF a, s
<1>7. ~(i > m)
  BY <1>1, <1>2, <1>3, <1>6, CommandInRest
<1>8. i \in Delims(a) /\ cmd = CommandAt(a, i)
  <2>1. i \in 1..Len(s) /\ m \in 0..Len(s) /\ Len(s) \in Nat /\ Len(a) \in Nat
    BY <1>1 DEF Cuts, Delims
  <2>2. i \in 1..Len(a)
    BY <1>2, <1>7, <2>1
  <2> QED BY <1>1, <1>3, <2>2, CommandInPrefix
<1>9. Dispatched(a) = Delims(a)
  BY <1>5 DEF Dispatched, RestartsDevice
<1>10. cmd \in {CommandAt(a, k) : k \in Dispatched(a)}
  BY <1>8, <1>9
<1>11. current # None
  BY <1>1, ConnAssumption
<1> QED BY <1>5, <1>10, <1>11 DEF Replies, Write

\* A command is answered in the cycle that takes it off the stream, also when
\* several were read at once (TcpServerManager::cycle, "Dispatch each").
THEOREM EveryCommandAnswered == Spec => NothingSwallowed
<1>1. ASSUME StreamInv, [Next]_vars,
             phase = "cycle", phase' = "update", current # None, current' = current,
             NEW cmd \in CompleteCommands \ CompleteCommands'
      PROVE  IF cmd = "PING" THEN <<current, "PING">> \in out'
             ELSE mirror # None => <<mirror, Answer(cmd)>> \in out'
  <2>1. ServeClient
    <3>1. ~(\E c \in Conns : Connect(c) \/ Send(c) \/ Close(c))
      BY <1>1 DEF Connect, Send, Close, deviceVars
    <3>2. ~(WiFiEvent \/ CanFrame \/ UNCHANGED vars)
      BY <1>1 DEF WiFiEvent, CanFrame, deviceVars, vars
    <3>3. ~(DrainSerial \/ SerialReboot \/ ClientReboot \/ Accept \/ Greet \/ Reject)
      BY <1>1 DEF DrainSerial, SerialReboot, ClientReboot, Reboot, Accept, Greet, Reject
    <3>4. ~(DropClient \/ NoClient \/ WiFiUpdate \/ restartTcpServerIfNeeded
              \/ processFrames)
      BY <1>1 DEF DropClient, NoClient, WiFiUpdate, restartTcpServerIfNeeded, processFrames
    <3> QED BY <1>1, <3>1, <3>2, <3>3, <3>4 DEF Next, LoopStep
  <2> QED BY <1>1, <2>1, ServeAnswers DEF StreamInv
<1>2. StreamInv /\ [Next]_vars =>
        (phase = "cycle" /\ phase' = "update" /\ current # None /\ current' = current
           => \A cmd \in CompleteCommands \ CompleteCommands' :
                 IF cmd = "PING" THEN <<current, "PING">> \in out'
                 ELSE mirror # None => <<mirror, Answer(cmd)>> \in out')
  BY <1>1
<1> QED BY <1>2, Streamed, PTL DEF Spec, NothingSwallowed

=============================================================================
