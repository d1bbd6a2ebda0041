------------------------- MODULE TransportProofs -------------------------
(***************************************************************************)
(* The two transports of the host: the ELM327 session over BLE, and, in    *)
(* the second half, the TCP transport.                                     *)
(*                                                                         *)
(* The commands of an ELM327 session are paced by its prompts.             *)
(* A prompt of the adapter is in the air, in a notification that has not   *)
(* been scanned, or it has been heard (or is lost with the link).  Every   *)
(* wait that ended used up a prompt that was heard, or its deadline, so    *)
(* that the commands sent are at most one more than these.                 *)
(***************************************************************************)
EXTENDS Elm327Session, TCPTransport, FiniteSetTheorems, SequenceTheorems, TLAPS

Prompting(note) == \E i \in 1..Len(note) : note[i] = ">"

\* A prompt ends its notification: no answer has two of them.
PromptLast(note) == \A i \in 1..Len(note) : note[i] = ">" => i = Len(note)

Unheard == Cardinality({i \in 1..Len(adapter.notes) : Prompting(adapter.notes[i])})
Heard == count.prompts - Unheard

AdapterOK ==
    /\ DOMAIN adapter = {"up", "commands", "notes", "monitors"}
    /\ adapter.commands \in Seq(Commands)
    /\ adapter.notes \in Seq(Seq(Token))
    /\ \A i \in 1..Len(adapter.notes) : PromptLast(adapter.notes[i])

SessionOK ==
    /\ DOMAIN session = {"canMode", "polling", "ready", "buffer", "vin"}
    /\ session.buffer \in Seq(Token) /\ Len(session.buffer) <= BufferMax
    /\ ~Prompting(session.buffer)

QueueOK ==
    /\ DOMAIN queue = {"pc", "note"}
    /\ queue.pc \in {"idle", "parse", "deliver"} /\ queue.note \in Seq(Token)

\* The polling thread lives while the run context monitors, and has a PID to ask.
ThreadsOK ==
    /\ main \in [pc : {"start", "chars", "init", "wait", "waiting", "query", "vin", "giveUp",
                       "restart", "hook", "hooking", "poll", "health", "stop", "wake", "join",
                       "disconnect", "done"},
                 phase : {"detect", "run"}, protocol : Protocols, next : 1..InitLen + 1]
    /\ poll \in [pc : {"none", "setup", "query", "wait", "waiting", "pause", "over"},
                 pid : 0..PidCount + 1]
    /\ OneWaiter
    /\ poll.pc # "none" => ByPrompt
    /\ poll.pc \in {"wait", "waiting"} => poll.pid <= PidCount
    /\ main.pc \in {"wake", "join"} => session.polling = FALSE

CountOK == count \in [sent : 0..MaxSent, prompts : Nat, timeouts : 0..MaxSent]

Owing == main.pc \in {"wait", "waiting"} \/ poll.pc \in {"wait", "waiting"}
Answered == (main.pc = "waiting" \/ poll.pc = "waiting") /\ session.ready

\* The commands sent, against what answered them; the wake-up of stopOBD2Polling is no prompt,
\* but no command follows it.
PaceOK ==
    /\ Unheard <= count.prompts
    /\ count.sent <= Heard + count.timeouts + 1
    /\ main.pc \notin {"join", "disconnect", "done"} /\ (Owing => Answered) =>
           count.sent <= Heard + count.timeouts

PacedInv == AdapterOK /\ SessionOK /\ QueueOK /\ ThreadsOK /\ CountOK /\ PaceOK

-----------------------------------------------------------------------------
(* Notifications with a prompt, counted.                                    *)

Prompted(notes) == {i \in 1..Len(notes) : Prompting(notes[i])}
Prompts(notes) == Cardinality(Prompted(notes))
Notes == Seq(Seq(Token))

LEMMA PromptsType ==
    ASSUME NEW notes \in Notes
    PROVE  IsFiniteSet(Prompted(notes)) /\ Prompts(notes) \in Nat
<1>1. Len(notes) \in Nat
  BY LenProperties DEF Notes
<1>2. IsFiniteSet(1..Len(notes)) /\ Prompted(notes) \in SUBSET (1..Len(notes))
  BY <1>1, FS_Interval DEF Prompted
<1>3. IsFiniteSet(Prompted(notes))
  BY <1>2, FS_Subset
<1> QED BY <1>3, FS_CardinalityType DEF Prompts

\* An answer adds at most one.
LEMMA AnswerCounts ==
    ASSUME NEW notes \in Notes, NEW cut \in Notes,
           \A i \in 1..Len(cut) : Prompting(cut[i]) => i = Len(cut)
    PROVE  Prompts(notes \o cut) <= Prompts(notes) + 1
<1> DEFINE all == notes \o cut
           more == Prompted(notes) \cup {Len(notes) + Len(cut)}
<1>1. /\ all \in Notes /\ Len(notes) \in Nat /\ Len(cut) \in Nat
      /\ Len(all) = Len(notes) + Len(cut)
      /\ \A i \in 1..Len(all) : all[i] = IF i <= Len(notes) THEN notes[i] ELSE cut[i - Len(notes)]
  BY ConcatProperties, LenProperties DEF Notes
<1> HIDE DEF all
<1>2. Prompted(all) \in SUBSET more
  <2> SUFFICES ASSUME NEW i \in 1..Len(all), Prompting(all[i])
               PROVE  i \in more
    BY DEF Prompted
  <2>1. CASE i <= Len(notes)
    BY <1>1, <2>1 DEF Prompted
  <2>2. CASE i > Len(notes)
    <3>1. i - Len(notes) \in 1..Len(cut) /\ all[i] = cut[i - Len(notes)]
      BY <1>1, <2>2
    <3>2. i - Len(notes) = Len(cut)
      BY <3>1
    <3> QED BY <1>1, <3>2
  <2> QED BY <1>1, <2>1, <2>2
<1>3. IsFiniteSet(Prompted(notes)) /\ Prompts(notes) \in Nat /\ Prompts(all) \in Nat
  BY <1>1, PromptsType
<1>4. IsFiniteSet(more) /\ Cardinality(more) <= Prompts(notes) + 1
  <2>1. /\ IsFiniteSet(more)
        /\ Cardinality(more) = IF Len(notes) + Len(cut) \in Prompted(notes)
                               THEN Cardinality(Prompted(notes))
                               ELSE Cardinality(Prompted(notes)) + 1
    BY <1>3, FS_AddElement
  <2> QED BY <1>3, <2>1 DEF Prompts
<1>5. Prompts(all) <= Cardinality(more) /\ Cardinality(more) \in Nat
  BY <1>2, <1>4, FS_Subset, FS_CardinalityType DEF Prompts
<1> QED BY <1>3, <1>4, <1>5 DEF all

\* The first notification taken away, its prompt is taken away.
LEMMA FirstCounts ==
    ASSUME NEW notes \in Notes, notes # <<>>
    PROVE  /\ Tail(notes) \in Notes
           /\ Prompts(Tail(notes)) <= Prompts(notes)
           /\ Prompting(Head(notes)) => Prompts(Tail(notes)) + 1 <= Prompts(notes)
<1> DEFINE rest == Tail(notes)
           prompted == Prompted(rest)
           others == Prompted(notes) \ {1}
           f == [i \in prompted |-> i + 1]
<1>1. /\ rest \in Notes /\ Len(notes) \in Nat /\ Len(notes) # 0 /\ Head(notes) = notes[1]
      /\ Len(rest) = Len(notes) - 1
      /\ \A i \in 1..Len(rest) : rest[i] = notes[i + 1]
  BY HeadTailProperties, EmptySeq, LenProperties DEF Notes
<1> HIDE DEF rest
<1>2. \A i \in prompted : i \in Nat /\ i + 1 \in others
  BY <1>1 DEF Prompted
<1>3. f \in Injection(prompted, others)
  BY <1>2 DEF Injection, IsInjective
<1>4. /\ IsFiniteSet(prompted) /\ IsFiniteSet(Prompted(notes)) /\ Prompts(notes) \in Nat
      /\ Prompts(rest) \in Nat
  BY <1>1, PromptsType
<1> HIDE DEF f, prompted
<1>5. /\ IsFiniteSet(others)
      /\ Cardinality(others) = IF 1 \in Prompted(notes) THEN Prompts(notes) - 1 ELSE Prompts(notes)
  BY <1>4, FS_RemoveElement DEF Prompts
<1> HIDE DEF others
<1>6. Cardinality(prompted) <= Cardinality(others)
  BY <1>3, <1>5, FS_Injection
<1>7. Prompts(rest) <= Cardinality(others)
  BY <1>6 DEF Prompts, prompted
<1>8. Prompting(Head(notes)) => 1 \in Prompted(notes)
  BY <1>1 DEF Prompted
<1> QED BY <1>1, <1>4, <1>5, <1>7, <1>8 DEF rest

LEMMA NoneCounts == Prompts(<<>>) = 0 /\ <<>> \in Notes
<1>1. Prompted(<<>>) = {}
  BY EmptySeq DEF Prompted
<1> QED BY <1>1, FS_EmptySet, EmptySeq DEF Prompts, Notes

-----------------------------------------------------------------------------
(* Answers, and the scan.                                                   *)

\* An answer but that to ATMA ends with its only prompt.
LEMMA AnswerShape ==
    ASSUME NEW c \in Commands, NEW answer \in AnswerTo(c), answer # <<>>
    PROVE  /\ answer \in Seq(Token) /\ Len(answer) \in Nat \ {0}
           /\ \A i \in 1..Len(answer) : answer[i] = ">" <=> i = Len(answer)
<1>1. \/ answer = <<"info", ">">> \/ answer = <<"banner", ">">> \/ answer = <<"data", ">">>
      \/ answer = <<"error", ">">> \/ answer = <<"vin", ">">> \/ answer = <<"vin", "more", ">">>
  BY DEF Commands, AnswerTo
<1>2. ASSUME NEW t \in Answers, answer = <<t, ">">> PROVE
           /\ answer \in Seq(Token) /\ Len(answer) = 2
           /\ \A i \in 1..2 : answer[i] = ">" <=> i = 2
  BY <1>2 DEF Answers, Token
<1>3. ASSUME answer = <<"vin", "more", ">">> PROVE
           /\ answer \in Seq(Token) /\ Len(answer) = 3
           /\ \A i \in 1..3 : answer[i] = ">" <=> i = 3
  BY <1>3 DEF Answers, Token
<1>4. answer = <<"vin", "more", ">">> \/ \E t \in Answers : answer = <<t, ">">>
  BY <1>1 DEF Answers
<1>5. CASE \E t \in Answers : answer = <<t, ">">>
  <2>1. /\ answer \in Seq(Token) /\ Len(answer) = 2
        /\ \A i \in 1..2 : answer[i] = ">" <=> i = 2
    BY <1>2, <1>5
  <2> QED BY <2>1
<1>6. CASE answer = <<"vin", "more", ">">>
  <2>1. /\ answer \in Seq(Token) /\ Len(answer) = 3
        /\ \A i \in 1..3 : answer[i] = ">" <=> i = 3
    BY <1>3, <1>6
  <2> QED BY <2>1
<1> QED BY <1>4, <1>5, <1>6

LEMMA PieceOf ==
    ASSUME NEW s \in Seq(Token), NEW a \in 1..Len(s) + 1, NEW b \in 0..Len(s), a <= b + 1
    PROVE  /\ SubSeq(s, a, b) \in Seq(Token) /\ Len(SubSeq(s, a, b)) = b - a + 1
           /\ \A i \in 1..b - a + 1 : SubSeq(s, a, b)[i] = s[a + i - 1] /\ a + i - 1 \in 1..Len(s)
<1>1. Len(s) \in Nat
  BY LenProperties
<1>2. \A i \in a..b : s[i] \in Token
  BY <1>1, ElementOfSeq
<1> QED BY <1>1, <1>2, SubSeqProperties

\* However it is cut, its prompt is at the end of the last notification.
LEMMA CutShape ==
    ASSUME NEW c \in Commands, NEW answer \in AnswerTo(c), answer # <<>>,
           NEW cut \in Cuts(answer)
    PROVE  /\ cut \in Notes /\ PromptsOf(answer) = 1
           /\ \A i \in 1..Len(cut) : PromptLast(cut[i])
           /\ \A i \in 1..Len(cut) : Prompting(cut[i]) => i = Len(cut)
<1>1. /\ answer \in Seq(Token) /\ Len(answer) \in Nat /\ Len(answer) >= 1
      /\ \A i \in 1..Len(answer) : answer[i] = ">" <=> i = Len(answer)
  BY AnswerShape
<1>2. PromptsOf(answer) = 1
  <2>1. answer[Len(answer)] = ">" /\ Len(answer) \in DOMAIN answer
    BY <1>1
  <2> QED BY <2>1 DEF PromptsOf, ToSet
<1>3. CASE cut = <<answer>>
  <2>1. cut \in Notes /\ Len(cut) = 1 /\ cut[1] = answer
    BY <1>1, <1>3 DEF Notes
  <2> QED BY <1>1, <1>2, <2>1 DEF PromptLast
<1>4. ASSUME NEW k \in 1..(Len(answer) - 1),
             cut = <<SubSeq(answer, 1, k), SubSeq(answer, k + 1, Len(answer))>>
      PROVE  /\ cut \in Notes
             /\ \A i \in 1..Len(cut) : PromptLast(cut[i])
             /\ \A i \in 1..Len(cut) : Prompting(cut[i]) => i = Len(cut)
  <2> DEFINE head == SubSeq(answer, 1, k)
             tail == SubSeq(answer, k + 1, Len(answer))
  <2>1. /\ head \in Seq(Token) /\ Len(head) = k
        /\ \A i \in 1..k : head[i] = answer[i] /\ i \in 1..Len(answer)
    BY <1>1, PieceOf
  <2>2. /\ tail \in Seq(Token) /\ Len(tail) = Len(answer) - k
        /\ \A i \in 1..Len(answer) - k : tail[i] = answer[k + i] /\ k + i \in 1..Len(answer)
    <3> DEFINE a == k + 1
    <3>1. a \in 1..Len(answer) + 1 /\ Len(answer) \in 0..Len(answer) /\ a <= Len(answer) + 1
      BY <1>1
    <3>2. Len(answer) - a + 1 = Len(answer) - k /\ \A i \in 1..Len(answer) - k : a + i - 1 = k + i
      BY <1>1
    <3>3. tail = SubSeq(answer, a, Len(answer))
      OBVIOUS
    <3> HIDE DEF a, tail
    <3>4. /\ tail \in Seq(Token) /\ Len(tail) = Len(answer) - a + 1
          /\ \A i \in 1..Len(answer) - a + 1 :
                tail[i] = answer[a + i - 1] /\ a + i - 1 \in 1..Len(answer)
      BY <1>1, <3>1, <3>3, PieceOf
    <3> QED BY <3>2, <3>4
  <2> HIDE DEF head, tail
  <2>3. ~Prompting(head) /\ PromptLast(head)
    BY <1>1, <2>1 DEF Prompting, PromptLast
  <2>4. PromptLast(tail)
    BY <1>1, <2>2 DEF PromptLast
  <2>5. cut \in Notes /\ Len(cut) = 2 /\ cut[1] = head /\ cut[2] = tail
    BY <1>4, <2>1, <2>2 DEF Notes, head, tail
  <2>6. \A i \in 1..Len(cut) : i = 1 \/ i = 2
    BY <2>5
  <2> QED BY <2>3, <2>4, <2>5, <2>6
<1> QED BY <1>2, <1>3, <1>4 DEF Cuts

\* The first prompt of a notification with one at its end.
LEMMA PromptAt ==
    ASSUME NEW note \in Seq(Token), PromptLast(note)
    PROVE  SelectInSeq(note, LAMBDA t : t = ">") = IF Prompting(note) THEN Len(note) ELSE 0
<1> DEFINE spot == {i \in 1..Len(note) : note[i] = ">"}
<1>0. Len(note) \in Nat
  BY LenProperties
<1>1. SelectInSeq(note, LAMBDA t : t = ">") = IF spot # {} THEN Min(spot) ELSE 0
  BY DEF SelectInSeq
<1>2. CASE Prompting(note)
  <2>1. spot = {Len(note)}
    BY <1>0, <1>2 DEF Prompting, PromptLast
  <2>2. Min({Len(note)}) = Len(note)
    BY <1>0 DEF Min
  <2> QED BY <1>1, <1>2, <2>1, <2>2
<1>3. CASE ~Prompting(note)
  BY <1>1, <1>3 DEF Prompting
<1> QED BY <1>2, <1>3

\* A notification is scanned: its prompt is heard, and nothing of a prompt is left.
LEMMA ScanHears ==
    ASSUME SessionOK, NEW note \in Seq(Token), PromptLast(note)
    PROVE  /\ scanned(note).ready = (session.ready \/ Prompting(note))
           /\ scanned(note).canMode = session.canMode
           /\ scanned(note).polling = session.polling
           /\ scanned(note).vin = session.vin
           /\ DOMAIN scanned(note) = {"canMode", "polling", "ready", "buffer", "vin"}
           /\ scanned(note).buffer \in Seq(Token) /\ Len(scanned(note).buffer) <= BufferMax
           /\ ~Prompting(scanned(note).buffer)
<1> DEFINE all  == session.buffer \o note
           spot   == SelectInSeq(all, LAMBDA t : t = ">")
           rest == SubSeq(all, spot + 1, Len(all))
           kept == IF Len(rest) > BufferMax
                   THEN SubSeq(rest, Len(rest) - BufferMax + 1, Len(rest)) ELSE rest
<1>1. /\ all \in Seq(Token) /\ Len(session.buffer) \in Nat /\ Len(note) \in Nat
      /\ Len(all) = Len(session.buffer) + Len(note) /\ Len(all) \in Nat
      /\ \A i \in 1..Len(all) : all[i] = IF i <= Len(session.buffer) THEN session.buffer[i]
                                         ELSE note[i - Len(session.buffer)]
  BY ConcatProperties, LenProperties DEF SessionOK
<1>2. scanned(note) = [session EXCEPT !.ready = @ \/ spot # 0, !.buffer = kept]
  BY DEF scanned
<1> HIDE DEF all
<1>3. \A i \in 1..Len(all) : all[i] = ">" =>
         /\ i - Len(session.buffer) \in 1..Len(note)
         /\ note[i - Len(session.buffer)] = ">"
  BY <1>1 DEF SessionOK, Prompting
<1>4. PromptLast(all)
  <2> SUFFICES ASSUME NEW i \in 1..Len(all), all[i] = ">" PROVE i = Len(all)
    BY DEF PromptLast
  <2>1. i - Len(session.buffer) = Len(note)
    BY <1>3 DEF PromptLast
  <2> QED BY <1>1, <2>1
<1>5. Prompting(all) <=> Prompting(note)
  <2>1. Prompting(all) => Prompting(note)
    BY <1>3 DEF Prompting
  <2>2. ASSUME NEW i \in 1..Len(note), note[i] = ">" PROVE Prompting(all)
    <3> DEFINE k == i + Len(session.buffer)
    <3>1. k \in 1..Len(all) /\ ~ k <= Len(session.buffer) /\ k - Len(session.buffer) = i
      BY <1>1
    <3>2. all[k] = note[i]
      <4> HIDE DEF k
      <4> QED BY <1>1, <3>1
    <3> QED BY <2>2, <3>1, <3>2 DEF Prompting
  <2> QED BY <2>1, <2>2 DEF Prompting
<1>6. spot = IF Prompting(all) THEN Len(all) ELSE 0
  BY <1>1, <1>4, PromptAt
<1>7. Prompting(all) => Len(all) # 0
  BY <1>1 DEF Prompting
<1> HIDE DEF spot
<1>8. rest \in Seq(Token) /\ Len(rest) \in Nat /\ ~Prompting(rest)
  <2>1. CASE Prompting(all)
    <3>1. rest = SubSeq(all, Len(all) + 1, Len(all))
      BY <1>6, <2>1
    <3>2. SubSeq(all, Len(all) + 1, Len(all)) = <<>>
      BY <1>1, SubSeqEmpty
    <3>3. \A s : s = <<>> => s \in Seq(Token) /\ Len(s) \in Nat /\ ~Prompting(s)
      BY EmptySeq DEF Prompting
    <3> HIDE DEF rest
    <3> QED BY <3>1, <3>2, <3>3
  <2>2. CASE ~Prompting(all)
    <3>1. rest = SubSeq(all, 1, Len(all))
      BY <1>6, <2>2
    <3>2. SubSeq(all, 1, Len(all)) = all
      BY <1>1, SubSeqFull
    <3> HIDE DEF rest
    <3> QED BY <1>1, <2>2, <3>1, <3>2
  <2> QED BY <2>1, <2>2
<1> HIDE DEF rest
<1>9. kept \in Seq(Token) /\ Len(kept) <= BufferMax /\ ~Prompting(kept)
  <2>0. BufferMax \in Nat /\ BufferMax # 0
    BY SessionAssumption
  <2>1. CASE Len(rest) > BufferMax
    <3> DEFINE a == Len(rest) - BufferMax + 1
    <3>1. /\ SubSeq(rest, a, Len(rest)) \in Seq(Token)
          /\ Len(SubSeq(rest, a, Len(rest))) = Len(rest) - a + 1
          /\ \A i \in 1..Len(rest) - a + 1 :
                SubSeq(rest, a, Len(rest))[i] = rest[a + i - 1] /\ a + i - 1 \in 1..Len(rest)
      <4>1. a \in 1..Len(rest) + 1 /\ Len(rest) \in 0..Len(rest) /\ a <= Len(rest) + 1
        BY <1>8, <2>0, <2>1
      <4> HIDE DEF a
      <4> QED BY <1>8, <4>1, PieceOf
    <3>2. Len(rest) - a + 1 = BufferMax
      BY <1>8, <2>0
    <3>3. kept = SubSeq(rest, a, Len(rest))
      BY <2>1
    <3> HIDE DEF a, kept
    <3>4. kept \in Seq(Token) /\ Len(kept) = BufferMax
      BY <3>1, <3>2, <3>3
    <3>5. ASSUME NEW i \in 1..Len(kept) PROVE kept[i] # ">"
      <4>1. kept[i] = rest[a + i - 1] /\ a + i - 1 \in 1..Len(rest)
        BY <3>1, <3>2, <3>3, <3>4
      <4> QED BY <1>8, <4>1 DEF Prompting
    <3> QED BY <2>0, <3>4, <3>5 DEF Prompting
  <2>2. CASE ~(Len(rest) > BufferMax)
    BY <1>8, <2>0, <2>2
  <2> QED BY <2>1, <2>2
<1> HIDE DEF kept
<1>10. spot # 0 <=> Prompting(note)
  BY <1>1, <1>5, <1>6, <1>7
<1> QED BY <1>2, <1>9, <1>10 DEF SessionOK

-----------------------------------------------------------------------------
(* Parsing.                                                                 *)

\* A set of natural numbers has a least element, and Min is it.
LEMMA Least ==
    ASSUME NEW S \in SUBSET Nat, S # {}
    PROVE  Min(S) \in S /\ \A y \in S : Min(S) <= y
<1> DEFINE Less == {pair \in Nat \X Nat : pair[1] < pair[2]}
<1>1. IsWellFoundedOn(Less, Nat)
  BY NatLessThanWellFounded DEF OpToRel
<1>2. \A a, b \in Nat : a < b => <<a, b>> \in Less
  <2>1. TAKE a, b \in Nat
  <2>2. HAVE a < b
  <2>3. <<a, b>>[1] = a /\ <<a, b>>[2] = b /\ <<a, b>> \in Nat \X Nat
    OBVIOUS
  <2> QED BY <2>2, <2>3
<1> HIDE DEF Less
<1>3. PICK x \in S : \A y \in S : ~(<<y, x>> \in Less)
  BY <1>1, WFMin
<1>4. \A y \in S : x <= y
  <2>1. TAKE y \in S
  <2>2. x \in Nat /\ y \in Nat
    OBVIOUS
  <2>3. ~(y < x)
    BY <1>2, <1>3, <2>2
  <2> QED BY <2>2, <2>3
<1> QED BY <1>4 DEF Min

\* Where a prompt or a banner is first found, or 0.
LEMMA FoundAt ==
    ASSUME NEW note \in Seq(Token)
    PROVE  /\ SelectInSeq(note, LAMBDA t : t = ">") \in 0..Len(note)
           /\ SelectInSeq(note, LAMBDA t : t = "info") \in 0..Len(note)
<1> DEFINE spot(x) == {i \in 1..Len(note) : note[i] = x}
<1>1. /\ SelectInSeq(note, LAMBDA t : t = ">") = IF spot(">") # {} THEN Min(spot(">")) ELSE 0
      /\ SelectInSeq(note, LAMBDA t : t = "info") = IF spot("info") # {} THEN Min(spot("info")) ELSE 0
  BY DEF SelectInSeq
<1>2. Len(note) \in Nat
  BY LenProperties
<1>3. ASSUME NEW x, spot(x) # {} PROVE Min(spot(x)) \in 1..Len(note)
  <2>1. spot(x) \in SUBSET Nat
    BY <1>2
  <2> QED BY <1>3, <2>1, Least
<1> HIDE DEF spot
<1>4. ASSUME NEW x PROVE (IF spot(x) # {} THEN Min(spot(x)) ELSE 0) \in 0..Len(note)
  <2>1. CASE spot(x) # {}
    <3>1. Min(spot(x)) \in 1..Len(note)
      BY <1>3, <2>1
    <3>2. 1..Len(note) \subseteq 0..Len(note)
      BY <1>2
    <3> QED BY <2>1, <3>1, <3>2
  <2>2. CASE spot(x) = {}
    BY <1>2, <2>2
  <2> QED BY <2>1, <2>2
<1>5. /\ (IF spot(">") # {} THEN Min(spot(">")) ELSE 0) \in 0..Len(note)
      /\ (IF spot("info") # {} THEN Min(spot("info")) ELSE 0) \in 0..Len(note)
  BY <1>4
<1> QED BY <1>1, <1>5

\* What is parsed out of a notification is a part of it.
LEMMA ParsedTokens ==
    ASSUME NEW note \in Seq(Token)
    PROVE  parseCANFrame(note) \in Seq(Token) /\ parseOBD2Response(note) \in Seq(Token)
<1>1. \A s : s = <<>> \/ s = <<"frame">> => s \in Seq(Token)
  <2>1. "frame" \in Token
    BY DEF Token, Answers
  <2>2. <<"frame">> \in Seq(Token)
    BY <2>1
  <2> QED BY <2>2, EmptySeq
<1>2. parseCANFrame(note) \in Seq(Token)
  BY <1>1 DEF parseCANFrame
<1>3. extractPrompt(note) \in Seq(Token)
  <2> DEFINE spot == SelectInSeq(note, LAMBDA t : t = ">")
  <2>1. spot \in 0..Len(note) /\ Len(note) \in Nat
    BY FoundAt, LenProperties
  <2>2. extractPrompt(note) = IF spot = 0 THEN note ELSE SubSeq(note, 1, spot - 1)
    BY DEF extractPrompt
  <2> HIDE DEF spot
  <2>3. spot # 0 => SubSeq(note, 1, spot - 1) \in Seq(Token)
    <3>1. HAVE spot # 0
    <3>2. spot - 1 \in 0..Len(note) /\ 1 <= spot - 1 + 1 /\ 1 \in 1..Len(note) + 1
      BY <2>1, <3>1
    <3> QED BY <3>2, PieceOf
  <2> QED BY <2>2, <2>3
<1>4. ASSUME NEW s \in Seq(Token) PROVE stripInfoPrefixes(s) \in Seq(Token)
  <2> DEFINE spot == SelectInSeq(s, LAMBDA t : t = "info")
  <2>1. spot \in 0..Len(s) /\ Len(s) \in Nat
    BY FoundAt, LenProperties
  <2>2. stripInfoPrefixes(s) = SubSeq(s, spot + 1, Len(s))
    BY DEF stripInfoPrefixes
  <2> HIDE DEF spot
  <2>3. spot + 1 \in 1..Len(s) + 1 /\ Len(s) \in 0..Len(s) /\ spot + 1 <= Len(s) + 1
    BY <2>1
  <2> QED BY <2>2, <2>3, PieceOf
<1>5. parseOBD2Response(note) = <<>> \/ parseOBD2Response(note) = stripInfoPrefixes(extractPrompt(note))
  BY DEF parseOBD2Response
<1> QED BY <1>1, <1>2, <1>3, <1>4, <1>5

-----------------------------------------------------------------------------
(* The pace.                                                                *)

LEMMA UnheardIs == Unheard = Prompts(adapter.notes)
BY DEF Unheard, Prompts, Prompted

\* A step that sends nothing and hears nothing keeps the pace, if it does not come to owe less.
LEMMA PaceStays ==
    ASSUME PaceOK, adapter'.notes = adapter.notes, UNCHANGED count,
           main'.pc \notin {"join", "disconnect", "done"} /\ (Owing' => Answered') =>
               main.pc \notin {"join", "disconnect", "done"} /\ (Owing => Answered)
    PROVE  PaceOK'
<1>1. Unheard' = Unheard
  BY DEF Unheard
<1>2. Heard' = Heard
  BY <1>1 DEF Heard
<1> QED BY <1>1, <1>2 DEF PaceOK

\* A command is sent where nothing is owed; it is owed an answer then.
LEMMA PacePays ==
    ASSUME PaceOK, CountOK, AdapterOK, NEW c, sendPaced(c),
           main.pc \notin {"join", "disconnect", "done"}, ~Owing, Owing', ~Answered'
    PROVE  PaceOK' /\ CountOK' /\ adapter'.notes = adapter.notes
<1>1. adapter'.notes = adapter.notes
  BY DEF sendPaced, send, AdapterOK
<1>2. Unheard' = Unheard
  BY <1>1 DEF Unheard
<1>3. Unheard \in Nat
  BY UnheardIs, PromptsType DEF AdapterOK, Notes
<1>4. /\ count.sent \in 0..MaxSent /\ count.prompts \in Nat /\ count.timeouts \in 0..MaxSent
      /\ MaxSent \in Nat
  BY SessionAssumption DEF CountOK
<1>5. /\ count'.prompts = count.prompts /\ count'.timeouts = count.timeouts
      /\ count'.sent <= count.sent + 1 /\ CountOK'
  BY <1>4 DEF sendPaced, CountOK
<1>6. count'.sent \in Nat
  BY <1>4, <1>5 DEF CountOK
<1>7. count.sent <= count.prompts - Unheard + count.timeouts
  BY DEF PaceOK, Heard
<1> QED BY <1>1, <1>2, <1>3, <1>4, <1>5, <1>6, <1>7 DEF PaceOK, Heard

\* A wait ends with the prompt that was heard, or with its deadline.
LEMMA PaceEnds ==
    ASSUME PaceOK, CountOK, AdapterOK, promptOrDeadline, UNCHANGED <<adapter, session>>,
           main.pc = "waiting" \/ poll.pc = "waiting",
           main'.pc \in {"join", "disconnect", "done"} => main.pc \in {"join", "disconnect", "done"},
           main.pc \in {"join", "disconnect", "done"} => main'.pc = main.pc
    PROVE  PaceOK' /\ CountOK'
<1>1. Unheard' = Unheard
  BY DEF Unheard
<1>2. Unheard \in Nat
  BY UnheardIs, PromptsType DEF AdapterOK, Notes
<1>3. /\ count.sent \in 0..MaxSent /\ count.prompts \in Nat /\ count.timeouts \in 0..MaxSent
      /\ MaxSent \in Nat
  BY SessionAssumption DEF CountOK
<1>4. /\ Unheard <= count.prompts
      /\ count.sent <= count.prompts - Unheard + count.timeouts + 1
  BY DEF PaceOK, Heard
<1>5. CASE session.ready /\ UNCHANGED count
  <2>1. main.pc \notin {"join", "disconnect", "done"} =>
           count.sent <= count.prompts - Unheard + count.timeouts
    BY <1>5 DEF PaceOK, Heard, Answered
  <2> QED BY <1>1, <1>3, <1>4, <1>5, <2>1 DEF PaceOK, Heard, CountOK
<1>6. CASE timedOut
  <2>1. /\ count'.sent = count.sent /\ count'.prompts = count.prompts
        /\ count'.timeouts = IF count.timeouts < MaxSent THEN count.timeouts + 1 ELSE count.timeouts
        /\ CountOK'
    BY <1>3, <1>6 DEF timedOut, CountOK
  <2>2. count.sent <= count.prompts - Unheard + count'.timeouts
    BY <1>2, <1>3, <1>4, <2>1
  <2> QED BY <1>1, <1>2, <1>3, <1>4, <2>1, <2>2 DEF PaceOK, Heard
<1> QED BY <1>5, <1>6 DEF promptOrDeadline

-----------------------------------------------------------------------------
(* The steps.                                                               *)

\* A step that neither counts nor takes notifications.
LEMMA UncountedStep ==
    ASSUME PacedInv, ThreadsOK', SessionOK', AdapterOK', QueueOK', UNCHANGED count,
           adapter'.notes = adapter.notes,
           main'.pc \notin {"join", "disconnect", "done"} /\ (Owing' => Answered') =>
               main.pc \notin {"join", "disconnect", "done"} /\ (Owing => Answered)
    PROVE  PacedInv'
<1>1. PaceOK'
  BY PaceStays DEF PacedInv
<1>2. CountOK'
  BY DEF PacedInv, CountOK
<1> QED BY <1>1, <1>2 DEF PacedInv

\* The run context sets up or decides: no other thread is polling, and no prompt is awaited.
Alone == main.pc \notin {"wait", "waiting", "health", "stop", "wake", "join", "disconnect", "done"}

\* While the run context is at work and waits for nothing, nothing is owed.
LEMMA AloneOwesNothing ==
    ASSUME ThreadsOK, Alone
    PROVE  ~Owing /\ poll.pc = "none" /\ main.pc \notin {"join", "disconnect", "done"}
BY DEF ThreadsOK, Alone, Owing, OneWaiter

\* The run context up to the health loop, the paced commands aside.
LEMMA SetUpStep ==
    ASSUME PacedInv,
           \/ Connect \/ AwaitCharacteristics \/ SendMonitorInit \/ InitDone \/ ReadVin
           \/ Hook \/ Hooked \/ StartPolling
    PROVE  PacedInv'
<1>0. ThreadsOK /\ SessionOK /\ AdapterOK /\ QueueOK /\ InitLen \in Nat \ {0}
  BY SessionAssumption DEF PacedInv
<1>1. Alone
  BY DEF Connect, AwaitCharacteristics, SendMonitorInit, InitDone, ReadVin, Hook, Hooked,
         StartPolling, Alone
<1>2. ~Owing /\ poll.pc = "none" /\ main.pc \notin {"join", "disconnect", "done"}
  BY <1>0, <1>1, AloneOwesNothing
<1>3. UNCHANGED <<queue, count>>
  BY DEF Connect, AwaitCharacteristics, SendMonitorInit, InitDone, ReadVin, Hook, Hooked,
         StartPolling
<1>4. AdapterOK' /\ adapter'.notes = adapter.notes
  <2>1. CASE Connect
    BY <1>0, <2>1 DEF Connect, AdapterOK
  <2>2. CASE SendMonitorInit
    <3>1. InitCommand \in Commands
      BY DEF InitCommand, Commands
    <3>2. Append(adapter.commands, InitCommand) \in Seq(Commands)
      BY <1>0, <3>1, AppendProperties DEF AdapterOK
    <3> QED BY <1>0, <2>2, <3>2 DEF SendMonitorInit, send, AdapterOK
  <2>3. CASE ~Connect /\ ~SendMonitorInit
    <3>1. UNCHANGED adapter
      BY <2>3 DEF AwaitCharacteristics, InitDone, ReadVin, Hook, Hooked, StartPolling
    <3> QED BY <1>0, <3>1 DEF AdapterOK
  <2> QED BY <2>1, <2>2, <2>3
<1>5. SessionOK' /\ session'.ready = session.ready
  <2>1. \/ UNCHANGED session
        \/ session' = [session EXCEPT !.canMode = FALSE, !.vin = FALSE]
        \/ session' = [session EXCEPT !.canMode = TRUE]
        \/ session' = [session EXCEPT !.polling = TRUE]
    BY DEF Connect, AwaitCharacteristics, SendMonitorInit, InitDone, ReadVin, Hook, Hooked,
           StartPolling
  <2> QED BY <1>0, <2>1 DEF SessionOK
<1>6. ThreadsOK'
  <2>1. CASE StartPolling
    <3>1. main' = [main EXCEPT !.pc = "health"]
          /\ ((poll' = [poll EXCEPT !.pc = "setup"] /\ ByPrompt) \/ UNCHANGED poll)
      BY <2>1 DEF StartPolling, Goto
    <3> QED BY <1>0, <1>2, <3>1 DEF ThreadsOK, OneWaiter, ByPrompt
  <2>2. CASE ~StartPolling
    <3>1. UNCHANGED poll
      BY <2>2 DEF Connect, AwaitCharacteristics, SendMonitorInit, InitDone, ReadVin, Hook, Hooked
    <3>2. main' \in [pc : {"start", "chars", "init", "wait", "waiting", "query", "vin", "giveUp",
                       "restart", "hook", "hooking", "poll", "health", "stop", "wake", "join",
                       "disconnect", "done"},
                 phase : {"detect", "run"}, protocol : Protocols, next : 1..InitLen + 1]
          /\ main'.pc \notin {"wake", "join"}
      <4>1. CASE Connect
        BY <1>0, <4>1 DEF Connect, Goto, ThreadsOK
      <4>2. CASE AwaitCharacteristics
        <5>1. \/ main' = [main EXCEPT !.pc = "init", !.next = 1]
              \/ main' = [main EXCEPT !.pc = "giveUp"]
              \/ main' = [main EXCEPT !.pc = "done"]
          BY <4>2 DEF AwaitCharacteristics, Goto
        <5>2. 1 \in 1..InitLen + 1
          BY <1>0
        <5> QED BY <1>0, <5>1, <5>2 DEF ThreadsOK
      <4>3. CASE SendMonitorInit
        <5>1. main' = [main EXCEPT !.next = @ + 1] /\ main.next <= InitLen /\ main.pc = "init"
          BY <4>3 DEF SendMonitorInit
        <5>2. main.next + 1 \in 1..InitLen + 1
          BY <1>0, <5>1 DEF ThreadsOK
        <5> QED BY <1>0, <5>1, <5>2 DEF ThreadsOK
      <4>4. CASE InitDone
        BY <1>0, <4>4 DEF InitDone, Goto, ThreadsOK
      <4>5. CASE ReadVin
        BY <1>0, <4>5 DEF ReadVin, Goto, ThreadsOK
      <4>6. CASE Hook \/ Hooked
        BY <1>0, <4>6 DEF Hook, Hooked, Goto, ThreadsOK
      <4> QED BY <2>2, <4>1, <4>2, <4>3, <4>4, <4>5, <4>6
    <3> QED BY <1>0, <1>2, <3>1, <3>2 DEF ThreadsOK, OneWaiter
  <2> QED BY <2>1, <2>2
<1>7. QueueOK'
  BY <1>0, <1>3 DEF QueueOK
<1> QED BY <1>2, <1>3, <1>4, <1>5, <1>6, <1>7, UncountedStep

\* The paced commands of the run context, and its waits for them.
LEMMA MainPaceStep ==
    ASSUME PacedInv, SendInit \/ QueryVin \/ EnterWait \/ LeaveWait
    PROVE  PacedInv'
<1>0. /\ ThreadsOK /\ SessionOK /\ AdapterOK /\ QueueOK /\ CountOK /\ PaceOK
      /\ InitLen \in Nat \ {0}
  BY SessionAssumption DEF PacedInv
<1>1. poll.pc = "none" /\ UNCHANGED <<poll, queue>>
  BY <1>0 DEF SendInit, QueryVin, EnterWait, LeaveWait, ThreadsOK, OneWaiter
<1>2. QueueOK'
  BY <1>0, <1>1 DEF QueueOK
<1>3. CASE SendInit \/ QueryVin
  <2>1. main.pc \in {"init", "query"} /\ main' = [main EXCEPT !.pc = "wait"]
    BY <1>3 DEF SendInit, QueryVin, Goto
  <2>2. PICK c \in Commands : sendPaced(c)
    BY <1>3 DEF SendInit, QueryVin, InitCommand, Commands
  <2>3. UNCHANGED session \/ session' = [session EXCEPT !.canMode = FALSE]
    BY <1>3 DEF SendInit, QueryVin
  <2>4. ThreadsOK' /\ main'.pc = "wait" /\ poll'.pc = "none"
    BY <1>0, <1>1, <2>1 DEF ThreadsOK, OneWaiter
  <2>5. SessionOK'
    BY <1>0, <2>3 DEF SessionOK
  <2>6. Owing' /\ ~Answered' /\ ~Owing
    BY <1>1, <2>1, <2>4 DEF Owing, Answered
  <2>7. PaceOK' /\ CountOK' /\ adapter'.notes = adapter.notes
    BY <1>0, <2>1, <2>2, <2>6, PacePays
  <2>8. AdapterOK'
    <3>1. Append(adapter.commands, c) \in Seq(Commands)
      BY <1>0, AppendProperties DEF AdapterOK
    <3> QED BY <1>0, <2>2, <3>1 DEF sendPaced, send, AdapterOK
  <2> QED BY <1>2, <2>4, <2>5, <2>7, <2>8 DEF PacedInv
<1>4. CASE EnterWait
  <2>1. /\ main.pc = "wait" /\ main' = [main EXCEPT !.pc = "waiting"]
        /\ session' = [session EXCEPT !.ready = FALSE] /\ UNCHANGED <<adapter, count>>
    BY <1>4 DEF EnterWait, Goto, clearPrompt
  <2>2. ThreadsOK' /\ main'.pc = "waiting"
    BY <1>0, <1>1, <2>1 DEF ThreadsOK, OneWaiter
  <2>3. SessionOK' /\ session'.ready = FALSE
    BY <1>0, <2>1 DEF SessionOK
  <2>4. Owing' /\ ~Answered'
    BY <2>2, <2>3 DEF Owing, Answered
  <2>5. AdapterOK' /\ adapter'.notes = adapter.notes
    BY <1>0, <2>1 DEF AdapterOK
  <2> QED BY <1>2, <2>1, <2>2, <2>3, <2>4, <2>5, UncountedStep
<1>5. CASE LeaveWait
  <2>1. /\ main.pc = "waiting" /\ promptOrDeadline /\ UNCHANGED <<adapter, session>>
        /\ main' = IF main.next <= InitLen
                   THEN [main EXCEPT !.pc = "init", !.next = @ + 1]
                   ELSE [main EXCEPT !.pc = IF session.ready THEN "vin" ELSE "giveUp"]
    BY <1>5 DEF LeaveWait
  <2>2. main'.pc \in {"init", "vin", "giveUp"} /\ ThreadsOK'
    <3>1. CASE main.next <= InitLen
      <4>1. main.next + 1 \in 1..InitLen + 1
        BY <1>0, <3>1 DEF ThreadsOK
      <4> QED BY <1>0, <1>1, <2>1, <3>1, <4>1 DEF ThreadsOK, OneWaiter
    <3>2. CASE ~(main.next <= InitLen)
      <4>1. main' = [main EXCEPT !.pc = "vin"] \/ main' = [main EXCEPT !.pc = "giveUp"]
        BY <2>1, <3>2
      <4> QED BY <1>0, <1>1, <4>1 DEF ThreadsOK, OneWaiter
    <3> QED BY <3>1, <3>2
  <2>3. PaceOK' /\ CountOK'
    BY <1>0, <2>1, <2>2, PaceEnds
  <2>4. SessionOK' /\ AdapterOK'
    BY <1>0, <2>1 DEF SessionOK, AdapterOK
  <2> QED BY <1>2, <2>2, <2>3, <2>4 DEF PacedInv
<1> QED BY <1>3, <1>4, <1>5

\* The run context from the health loop to its end.
LEMMA TearDownStep ==
    ASSUME PacedInv,
           EndDetection \/ LeaveHealth \/ StopPolling \/ WakePoller \/ Join \/ Disconnect
    PROVE  PacedInv'
<1>0. /\ ThreadsOK /\ SessionOK /\ AdapterOK /\ QueueOK /\ CountOK /\ PaceOK
      /\ InitLen \in Nat \ {0} /\ MaxSent \in Nat
  BY SessionAssumption DEF PacedInv
<1>1. CASE EndDetection
  <2>1. /\ main.pc \in {"giveUp", "restart"} /\ poll.pc = "none" /\ UNCHANGED poll
        /\ queue' = Quiet /\ session' = NewSession /\ count' = NewCount
        /\ adapter' = [up |-> FALSE, commands |-> <<>>, notes |-> <<>>, monitors |-> FALSE]
    BY <1>0, <1>1 DEF EndDetection, ThreadsOK, OneWaiter
  <2>2. main' = [main EXCEPT !.pc = IF @ = "restart" THEN "start" ELSE "done",
                            !.phase = IF main.pc = "restart" THEN "run" ELSE @, !.next = 1]
    BY <1>1 DEF EndDetection
  <2>3. ThreadsOK'
    <3>1. \/ main' = [main EXCEPT !.pc = "start", !.phase = "run", !.next = 1]
          \/ main' = [main EXCEPT !.pc = "done", !.next = 1]
      <4>1. CASE main.pc = "restart"
        BY <2>2, <4>1
      <4>2. CASE main.pc = "giveUp"
        <5>1. main' = [main EXCEPT !.pc = "done", !.phase = main.phase, !.next = 1]
          BY <2>2, <4>2
        <5> QED BY <1>0, <5>1 DEF ThreadsOK
      <4> QED BY <2>1, <4>1, <4>2
    <3>2. 1 \in 1..InitLen + 1
      BY <1>0
    <3> QED BY <1>0, <2>1, <3>1, <3>2 DEF ThreadsOK, OneWaiter
  <2>4. AdapterOK'
    <3>1. <<>> \in Seq(Commands) /\ <<>> \in Seq(Seq(Token))
      BY EmptySeq
    <3> QED BY <2>1, <3>1, EmptySeq DEF AdapterOK
  <2>5. SessionOK'
    <3>1. session'.buffer = <<>> /\ DOMAIN session' = {"canMode", "polling", "ready", "buffer", "vin"}
      BY <2>1 DEF NewSession
    <3>2. BufferMax \in Nat
      BY SessionAssumption
    <3>3. \A s : s = <<>> => s \in Seq(Token) /\ Len(s) = 0 /\ ~Prompting(s)
      BY EmptySeq DEF Prompting
    <3> QED BY <3>1, <3>2, <3>3 DEF SessionOK
  <2>6. QueueOK' /\ CountOK'
    BY <1>0, <2>1, EmptySeq DEF QueueOK, Quiet, CountOK, NewCount
  <2>7. PaceOK'
    <3>1. Unheard' = 0
      <4>1. adapter'.notes = <<>>
        BY <2>1
      <4> QED BY <4>1, NoneCounts DEF Unheard, Prompts, Prompted
    <3> QED BY <2>1, <3>1 DEF PaceOK, Heard, NewCount
  <2> QED BY <2>3, <2>4, <2>5, <2>6, <2>7 DEF PacedInv
<1>2. CASE LeaveHealth \/ StopPolling
  <2>1. /\ main.pc \in {"health", "stop"} /\ UNCHANGED <<poll, queue, count>>
    BY <1>2 DEF LeaveHealth, StopPolling
  <2>2. /\ main'.pc \in {"stop", "wake", "disconnect"}
        /\ main'.pc = "wake" => session' = [session EXCEPT !.polling = FALSE]
        /\ main' = [main EXCEPT !.pc = main'.pc]
        /\ main'.pc = "disconnect" => ~ByPrompt
    <3>1. DOMAIN main = {"pc", "phase", "protocol", "next"}
      BY <1>0 DEF ThreadsOK
    <3> QED BY <1>2, <3>1 DEF LeaveHealth, StopPolling, Goto
  <2>3. AdapterOK' /\ adapter'.notes = adapter.notes
    <3>1. Append(adapter.commands, "atma") \in Seq(Commands)
      BY <1>0, AppendProperties DEF AdapterOK, Commands
    <3> QED BY <1>0, <1>2, <3>1 DEF LeaveHealth, StopPolling, send, AdapterOK
  <2>4. \/ UNCHANGED session
        \/ session' = [session EXCEPT !.polling = FALSE]
        \/ session' = [session EXCEPT !.canMode = FALSE]
    BY <1>2 DEF LeaveHealth, StopPolling
  <2>5. SessionOK' /\ session'.ready = session.ready
    BY <1>0, <2>4 DEF SessionOK
  <2>6. main'.pc = "wake" => session'.polling = FALSE
    BY <1>0, <2>2 DEF SessionOK
  <2>7. ThreadsOK'
    BY <1>0, <2>1, <2>2, <2>6 DEF ThreadsOK, OneWaiter, ByPrompt
  <2>8. main'.pc \notin {"join", "disconnect", "done"} /\ (Owing' => Answered') =>
               main.pc \notin {"join", "disconnect", "done"} /\ (Owing => Answered)
    BY <2>1, <2>2, <2>5 DEF Owing, Answered
  <2>9. QueueOK'
    BY <1>0, <2>1 DEF QueueOK
  <2> QED BY <2>1, <2>3, <2>5, <2>7, <2>8, <2>9, UncountedStep
<1>3. CASE WakePoller \/ Join \/ Disconnect
  <2>1. /\ UNCHANGED <<queue, count>>
        /\ main' = [main EXCEPT !.pc = main'.pc] /\ main'.pc \in {"join", "disconnect", "done"}
        /\ main'.pc = "join" <=> main.pc = "wake"
    <3>1. DOMAIN main = {"pc", "phase", "protocol", "next"}
      BY <1>0 DEF ThreadsOK
    <3> QED BY <1>3, <3>1 DEF WakePoller, Join, Disconnect, Goto
  <2>2. UNCHANGED session \/ session' = [session EXCEPT !.ready = TRUE]
    BY <1>3 DEF WakePoller, Join, Disconnect
  <2>3. SessionOK' /\ session'.polling = session.polling
    BY <1>0, <2>2 DEF SessionOK
  <2>4. UNCHANGED adapter \/ adapter' = [adapter EXCEPT !.up = FALSE, !.commands = <<>>]
    BY <1>3 DEF WakePoller, Join, Disconnect
  <2>5. AdapterOK' /\ adapter'.notes = adapter.notes
    <3>1. <<>> \in Seq(Commands)
      BY EmptySeq
    <3> QED BY <1>0, <2>4, <3>1 DEF AdapterOK
  <2>6. ThreadsOK'
    <3>1. \/ UNCHANGED poll /\ main.pc = "wake"
          \/ poll' = Idle
          \/ UNCHANGED poll /\ poll.pc = "none"
      BY <1>0, <1>3 DEF WakePoller, Join, Disconnect, ThreadsOK, OneWaiter
    <3>2. poll' \in [pc : {"none", "setup", "query", "wait", "waiting", "pause", "over"},
                     pid : 0..PidCount + 1]
          /\ (poll' = poll \/ poll'.pc = "none")
      BY <1>0, <3>1, SessionAssumption DEF ThreadsOK, Idle
    <3>3. ByPrompt' = ByPrompt
      BY <1>0, <2>1 DEF ByPrompt, ThreadsOK
    <3>4. main'.pc # "join" => poll'.pc = "none"
      BY <1>0, <2>1, <3>1 DEF Idle, ThreadsOK
    <3> QED BY <1>0, <2>1, <2>3, <3>2, <3>3, <3>4 DEF ThreadsOK, OneWaiter
  <2>7. QueueOK'
    BY <1>0, <2>1 DEF QueueOK
  <2> QED BY <2>1, <2>3, <2>5, <2>6, <2>7, UncountedStep
<1> QED BY <1>1, <1>2, <1>3

\* The polling thread.
LEMMA PollerStep ==
    ASSUME PacedInv, Poller
    PROVE  PacedInv'
<1>0. /\ ThreadsOK /\ SessionOK /\ AdapterOK /\ QueueOK /\ CountOK /\ PaceOK
      /\ PidCount \in Nat \ {0}
  BY SessionAssumption DEF PacedInv
<1>1. /\ poll.pc # "none" /\ UNCHANGED <<main, queue>>
      /\ main.pc \in {"health", "stop", "wake", "join"}
  BY <1>0 DEF Poller, PollPause, PollQuery, PollEnterWait, PollLeaveWait, ThreadsOK, OneWaiter
<1>2. QueueOK'
  BY <1>0, <1>1 DEF QueueOK
<1>3. ASSUME NEW goal \in {"query", "wait", "waiting", "pause", "over"},
             NEW pid \in 0..PidCount + 1, PollGoto(goal, pid), session'.polling = session.polling,
             goal \in {"wait", "waiting"} => pid <= PidCount
      PROVE  ThreadsOK' /\ poll'.pc = goal
  <2>1. /\ poll'.pc = goal /\ poll'.pid = pid
        /\ poll' \in [pc : {"none", "setup", "query", "wait", "waiting", "pause", "over"},
                      pid : 0..PidCount + 1]
    BY <1>3 DEF PollGoto
  <2> QED BY <1>0, <1>1, <1>3, <2>1 DEF ThreadsOK, OneWaiter, ByPrompt
<1>4. poll.pid \in 0..PidCount + 1 /\ (poll.pc \in {"wait", "waiting"} => poll.pid <= PidCount)
  BY <1>0 DEF ThreadsOK
<1>5. UNCHANGED session => SessionOK' /\ session'.polling = session.polling
  BY <1>0 DEF SessionOK
<1>6. UNCHANGED adapter => AdapterOK' /\ adapter'.notes = adapter.notes
  BY <1>0 DEF AdapterOK
<1>7. CASE PollPause
  <2>1. /\ poll.pc \in {"setup", "pause"} /\ UNCHANGED <<session, adapter, count>>
        /\ PollGoto("query", 1) \/ PollGoto("over", 1)
    BY <1>7 DEF PollPause
  <2>2. ThreadsOK' /\ poll'.pc \in {"query", "over"}
    BY <1>0, <1>3, <1>5, <2>1
  <2>3. ~Owing
    BY <1>1, <2>1 DEF Owing
  <2> QED BY <1>1, <1>2, <1>5, <1>6, <2>1, <2>2, <2>3, UncountedStep
<1>8. CASE PollQuery
  <2>1. poll.pc = "query" /\ UNCHANGED session
    BY <1>8 DEF PollQuery
  <2>2. ~Owing
    BY <1>1, <2>1 DEF Owing
  <2>3. CASE KeepsOn /\ poll.pid <= PidCount
    <3>1. sendPaced("pid") /\ PollGoto("wait", poll.pid)
      BY <1>8, <2>3 DEF PollQuery
    <3>2. ThreadsOK' /\ poll'.pc = "wait"
      BY <1>3, <1>4, <1>5, <2>1, <2>3, <3>1
    <3>3. main.pc \in {"health", "stop"}
      <4>1. session.polling # FALSE
        BY <2>3 DEF KeepsOn
      <4> QED BY <1>0, <1>1, <4>1 DEF ThreadsOK
    <3>4. Owing' /\ ~Answered'
      BY <1>1, <3>2, <3>3 DEF Owing, Answered
    <3>5. PaceOK' /\ CountOK' /\ adapter'.notes = adapter.notes
      BY <1>0, <2>2, <3>1, <3>3, <3>4, PacePays
    <3>6. AdapterOK'
      <4>1. Append(adapter.commands, "pid") \in Seq(Commands)
        BY <1>0, AppendProperties DEF AdapterOK, Commands
      <4> QED BY <1>0, <3>1, <4>1 DEF sendPaced, send, AdapterOK
    <3> QED BY <1>2, <1>5, <2>1, <3>2, <3>5, <3>6 DEF PacedInv
  <2>4. CASE ~(KeepsOn /\ poll.pid <= PidCount)
    <3>1. PollGoto("pause", 0) /\ UNCHANGED <<adapter, count>>
      BY <1>8, <2>4 DEF PollQuery
    <3>2. ThreadsOK' /\ poll'.pc = "pause"
      BY <1>0, <1>3, <1>5, <2>1, <3>1
    <3> QED BY <1>1, <1>2, <1>5, <1>6, <2>1, <2>2, <3>1, <3>2, UncountedStep
  <2> QED BY <2>3, <2>4
<1>9. CASE PollEnterWait
  <2>1. /\ poll.pc = "wait" /\ PollGoto("waiting", poll.pid) /\ UNCHANGED <<adapter, count>>
        /\ session' = [session EXCEPT !.ready = FALSE]
    BY <1>9 DEF PollEnterWait, clearPrompt
  <2>2. SessionOK' /\ session'.ready = FALSE /\ session'.polling = session.polling
    BY <1>0, <2>1 DEF SessionOK
  <2>3. ThreadsOK' /\ poll'.pc = "waiting"
    BY <1>3, <1>4, <2>1, <2>2
  <2>4. Owing' /\ ~Answered'
    BY <2>2, <2>3 DEF Owing, Answered
  <2> QED BY <1>2, <1>6, <2>1, <2>2, <2>3, <2>4, UncountedStep
<1>10. CASE PollLeaveWait
  <2>1. /\ poll.pc = "waiting" /\ PollGoto("query", poll.pid + 1) /\ promptOrDeadline
        /\ UNCHANGED <<adapter, session>>
    BY <1>10 DEF PollLeaveWait
  <2>2. poll.pid + 1 \in 0..PidCount + 1
    BY <1>0, <1>4, <2>1
  <2>3. ThreadsOK' /\ poll'.pc = "query"
    BY <1>3, <1>5, <2>1, <2>2
  <2>4. PaceOK' /\ CountOK'
    BY <1>0, <1>1, <2>1, PaceEnds
  <2> QED BY <1>2, <1>5, <1>6, <2>1, <2>3, <2>4 DEF PacedInv
<1> QED BY <1>7, <1>8, <1>9, <1>10 DEF Poller

\* Threads and pacing are not the Bluetooth queue's or the adapter's.
LEMMA ThreadsStay ==
    ASSUME ThreadsOK, UNCHANGED <<main, poll>>, session'.polling = session.polling
    PROVE  ThreadsOK' /\ (Owing' <=> Owing) /\ ((session'.ready <=> session.ready) => (Answered' <=> Answered))
BY DEF ThreadsOK, OneWaiter, ByPrompt, Owing, Answered

\* The Bluetooth queue: a prompt that is scanned is heard.
LEMMA BleQueueStep ==
    ASSUME PacedInv, BleQueue
    PROVE  PacedInv'
<1>0. /\ ThreadsOK /\ SessionOK /\ AdapterOK /\ QueueOK /\ CountOK /\ PaceOK
  BY DEF PacedInv
<1>1. UNCHANGED <<main, poll, count>>
  BY DEF BleQueue, ScanPrompt, ParseAndObserve, Deliver, ReportLoss
<1>2. CASE ScanPrompt
  <2> DEFINE note == Head(adapter.notes)
  <2>1. /\ adapter.notes # <<>> /\ queue' = [pc |-> "parse", note |-> note]
        /\ session' = IF session.canMode THEN session ELSE scanned(note)
        /\ adapter' = [adapter EXCEPT !.notes = Tail(@)]
    BY <1>2 DEF ScanPrompt
  <2>2. /\ adapter.notes \in Notes /\ note \in Seq(Token) /\ note = adapter.notes[1]
        /\ Len(adapter.notes) \in Nat /\ Len(adapter.notes) >= 1
        /\ Tail(adapter.notes) \in Notes
        /\ Len(Tail(adapter.notes)) = Len(adapter.notes) - 1
        /\ \A i \in 1..Len(Tail(adapter.notes)) : Tail(adapter.notes)[i] = adapter.notes[i + 1]
    <3>1. Len(adapter.notes) \in Nat /\ Len(adapter.notes) # 0
      BY <1>0, <2>1, EmptySeq, LenProperties DEF AdapterOK
    <3> QED BY <1>0, <2>1, <3>1, HeadTailProperties DEF AdapterOK, Notes
  <2>3. PromptLast(note)
    BY <1>0, <2>2 DEF AdapterOK
  <2>4. /\ Prompts(Tail(adapter.notes)) <= Prompts(adapter.notes)
        /\ Prompting(note) => Prompts(Tail(adapter.notes)) + 1 <= Prompts(adapter.notes)
        /\ Prompts(adapter.notes) \in Nat /\ Prompts(Tail(adapter.notes)) \in Nat
    BY <2>1, <2>2, FirstCounts, PromptsType
  <2> HIDE DEF note
  <2>5. AdapterOK' /\ adapter'.notes = Tail(adapter.notes)
    <3>1. /\ adapter'.notes = Tail(adapter.notes) /\ adapter'.commands = adapter.commands
          /\ DOMAIN adapter' = DOMAIN adapter
      BY <1>0, <2>1 DEF AdapterOK
    <3>2. \A i \in 1..Len(Tail(adapter.notes)) : i + 1 \in 1..Len(adapter.notes)
      BY <2>2
    <3>3. \A i \in 1..Len(Tail(adapter.notes)) : PromptLast(Tail(adapter.notes)[i])
      BY <1>0, <2>2, <3>2 DEF AdapterOK
    <3> QED BY <1>0, <2>2, <3>1, <3>3 DEF AdapterOK, Notes
  <2>6. QueueOK'
    BY <2>1, <2>2 DEF QueueOK
  <2>7. /\ SessionOK' /\ session'.polling = session.polling
        /\ Prompting(note) \/ (session'.ready <=> session.ready)
    <3>1. CASE session.canMode
      BY <1>0, <2>1, <3>1 DEF SessionOK
    <3>2. CASE ~session.canMode
      <4>1. session' = scanned(note)
        BY <2>1, <3>2
      <4>2. SessionOK' /\ session'.polling = session.polling
        BY <1>0, <2>2, <2>3, <4>1, ScanHears DEF SessionOK
      <4>3. ~Prompting(note) => session'.ready = (session.ready \/ FALSE)
        BY <1>0, <2>2, <2>3, <4>1, ScanHears
      <4>4. ~Prompting(note) => (session'.ready <=> session.ready)
        BY <4>3
      <4> QED BY <4>2, <4>4
    <3> QED BY <3>1, <3>2
  <2>8. ThreadsOK' /\ (Owing' <=> Owing) /\ (Prompting(note) \/ (Answered' <=> Answered))
    BY <1>0, <1>1, <2>7, ThreadsStay
  <2>9. /\ Unheard = Prompts(adapter.notes)
        /\ Unheard' = Prompts(Tail(adapter.notes))
    BY <2>5 DEF Unheard, Prompts, Prompted
  <2>10. CountOK' /\ count' = count /\ main' = main
    BY <1>0, <1>1 DEF CountOK
  <2>11. PaceOK'
    <3>1. /\ count.sent \in Nat /\ count.prompts \in Nat /\ count.timeouts \in Nat
      BY <1>0, SessionAssumption DEF CountOK
    <3>2. CASE Prompting(note)
      BY <1>0, <2>4, <2>9, <2>10, <3>1, <3>2 DEF PaceOK, Heard
    <3>3. CASE ~Prompting(note)
      BY <1>0, <2>4, <2>8, <2>9, <2>10, <3>1, <3>3 DEF PaceOK, Heard
    <3> QED BY <3>2, <3>3
  <2> QED BY <2>5, <2>6, <2>7, <2>8, <2>10, <2>11 DEF PacedInv
<1>3. CASE ~ScanPrompt
  <2>1. UNCHANGED adapter
    BY <1>3 DEF BleQueue, ParseAndObserve, Deliver, ReportLoss
  <2>2. \/ UNCHANGED session
        \/ \E v \in BOOLEAN : session' = [session EXCEPT !.vin = v]
    BY <1>3, Zenon DEF BleQueue, ParseAndObserve, Deliver, ReportLoss
  <2>3. SessionOK' /\ session'.polling = session.polling /\ session'.ready = session.ready
    BY <1>0, <2>2 DEF SessionOK
  <2>4. AdapterOK' /\ adapter'.notes = adapter.notes
    BY <1>0, <2>1 DEF AdapterOK
  <2>5. QueueOK'
    <3>1. queue' = Quiet => QueueOK'
      BY EmptySeq DEF Quiet, QueueOK
    <3>2. CASE ParseAndObserve
      <4>1. PICK data \in {parseCANFrame(queue.note), parseOBD2Response(queue.note)} :
               queue' = IF data = <<>> THEN Quiet ELSE [pc |-> "deliver", note |-> data]
        BY <3>2 DEF ParseAndObserve
      <4>2. data \in Seq(Token)
        BY <1>0, ParsedTokens DEF QueueOK
      <4>3. CASE data = <<>>
        BY <3>1, <4>1, <4>3
      <4>4. CASE data # <<>>
        BY <4>1, <4>2, <4>4 DEF QueueOK
      <4> QED BY <4>3, <4>4
    <3>3. CASE Deliver
      BY <3>1, <3>3 DEF Deliver
    <3>4. CASE ReportLoss
      BY <1>0, <3>4 DEF ReportLoss, QueueOK
    <3> QED BY <1>3, <3>2, <3>3, <3>4 DEF BleQueue
  <2>6. ThreadsOK' /\ (Owing' <=> Owing) /\ (Answered' <=> Answered)
    BY <1>0, <1>1, <2>3, ThreadsStay
  <2> QED BY <1>1, <2>3, <2>4, <2>5, <2>6, UncountedStep
<1> QED BY <1>2, <1>3

\* The adapter, the link and the user: an answer brings its prompt into the air.
LEMMA EnvironmentStep ==
    ASSUME PacedInv, Environment
    PROVE  PacedInv'
<1>0. /\ ThreadsOK /\ SessionOK /\ AdapterOK /\ QueueOK /\ CountOK /\ PaceOK
  BY DEF PacedInv
<1>1. UNCHANGED <<main, poll, queue, session>>
  BY DEF Environment, Discover, Answer, Ignore, Stream, LoseLink, Interrupt
<1>2. /\ SessionOK' /\ QueueOK' /\ session'.polling = session.polling
      /\ session'.ready = session.ready
  BY <1>0, <1>1 DEF SessionOK, QueueOK
<1>3. ThreadsOK' /\ (Owing' <=> Owing) /\ (Answered' <=> Answered) /\ main' = main
  BY <1>0, <1>1, <1>2, ThreadsStay
<1>4. /\ count.sent \in Nat /\ count.prompts \in Nat /\ count.timeouts \in Nat
      /\ Unheard \in Nat /\ Unheard = Prompts(adapter.notes)
  BY <1>0, SessionAssumption, UnheardIs, PromptsType DEF CountOK, AdapterOK, Notes
<1>5. ASSUME UNCHANGED count, Unheard' \in Nat, Unheard' <= Unheard, AdapterOK'
      PROVE  PacedInv'
  <2>1. CountOK'
    BY <1>0, <1>5 DEF CountOK
  <2>2. PaceOK'
    BY <1>0, <1>3, <1>4, <1>5 DEF PaceOK, Heard
  <2> QED BY <1>2, <1>3, <1>5, <2>1, <2>2 DEF PacedInv
<1>6. CASE Discover \/ Interrupt
  <2>1. UNCHANGED <<adapter, count>>
    BY <1>6 DEF Discover, Interrupt
  <2>2. AdapterOK' /\ Unheard' = Unheard
    BY <1>0, <2>1 DEF AdapterOK, Unheard
  <2> QED BY <1>4, <1>5, <2>1, <2>2
<1>7. CASE Ignore
  <2>1. /\ adapter.commands # <<>> /\ adapter' = [adapter EXCEPT !.commands = Tail(@)]
        /\ UNCHANGED count
    BY <1>7 DEF Ignore
  <2>2. Tail(adapter.commands) \in Seq(Commands)
    BY <1>0, <2>1, HeadTailProperties DEF AdapterOK
  <2>3. AdapterOK' /\ adapter'.notes = adapter.notes
    BY <1>0, <2>1, <2>2 DEF AdapterOK
  <2>4. Unheard' = Unheard
    BY <2>3 DEF Unheard
  <2> QED BY <1>4, <1>5, <2>1, <2>3, <2>4
<1>8. CASE Stream
  <2>1. PICK t \in {"frame", "half"} : adapter' = [adapter EXCEPT !.notes = <<<<t>>>>]
    BY <1>8 DEF Stream
  <2>2. /\ <<t>> \in Seq(Token) /\ Len(<<t>>) = 1 /\ <<t>>[1] # ">"
    BY <2>1 DEF Token, Answers
  <2>3. ~Prompting(<<t>>) /\ PromptLast(<<t>>)
    BY <2>2 DEF Prompting, PromptLast
  <2>4. <<<<t>>>> \in Notes /\ Len(<<<<t>>>>) = 1 /\ <<<<t>>>>[1] = <<t>>
    BY <2>2 DEF Notes
  <2>5. adapter'.notes = <<<<t>>>> /\ adapter'.commands = adapter.commands
        /\ DOMAIN adapter' = DOMAIN adapter
    BY <1>0, <2>1 DEF AdapterOK
  <2>6. AdapterOK'
    BY <1>0, <2>3, <2>4, <2>5 DEF AdapterOK, Notes
  <2>7. Prompted(<<<<t>>>>) = {}
    BY <2>3, <2>4 DEF Prompted
  <2>8. Unheard' = 0
    <3>1. Unheard' = Prompts(<<<<t>>>>)
      BY <2>5 DEF Unheard, Prompts, Prompted
    <3> QED BY <2>7, <3>1, FS_EmptySet DEF Prompts
  <2> QED BY <1>4, <1>5, <1>8, <2>6, <2>8 DEF Stream
<1>9. CASE LoseLink
  <2>1. /\ adapter' = [up |-> FALSE, commands |-> <<>>, notes |-> <<>>, monitors |-> FALSE]
        /\ UNCHANGED count
    BY <1>9 DEF LoseLink
  <2>2. AdapterOK' /\ adapter'.notes = <<>>
    <3>1. <<>> \in Seq(Commands) /\ <<>> \in Seq(Seq(Token))
      BY EmptySeq
    <3> QED BY <2>1, <3>1, EmptySeq DEF AdapterOK
  <2>3. Unheard' = 0
    BY <2>2, NoneCounts DEF Unheard, Prompts, Prompted
  <2> QED BY <1>4, <1>5, <2>1, <2>2, <2>3
<1>10. CASE Answer
  <2> DEFINE c == Head(adapter.commands)
  <2>0. PICK answer \in AnswerTo(c) : \E cut \in Cuts(answer) :
           /\ adapter' = [adapter EXCEPT
                !.commands = Tail(@),
                !.notes = IF answer = <<>> THEN @ ELSE @ \o cut,
                !.monitors = Head(adapter.commands) = "atma"]
           /\ count' = [count EXCEPT !.prompts = @ + PromptsOf(answer)]
    BY <1>10 DEF Answer
  <2>1. PICK cut \in Cuts(answer) :
           /\ adapter' = [adapter EXCEPT
                !.commands = Tail(@),
                !.notes = IF answer = <<>> THEN @ ELSE @ \o cut,
                !.monitors = Head(adapter.commands) = "atma"]
           /\ count' = [count EXCEPT !.prompts = @ + PromptsOf(answer)]
    BY <2>0
  <2>2. c \in Commands /\ Tail(adapter.commands) \in Seq(Commands)
    BY <1>0, <1>10, HeadTailProperties DEF AdapterOK, Answer
  <2> HIDE DEF c
  <2>3. /\ adapter'.notes = IF answer = <<>> THEN adapter.notes ELSE adapter.notes \o cut
        /\ adapter'.commands = Tail(adapter.commands)
        /\ DOMAIN adapter' = DOMAIN adapter
    BY <1>0, <2>1 DEF AdapterOK
  <2>4. CASE answer = <<>>
    <3>1. PromptsOf(answer) = 0
      BY <2>4, EmptySeq DEF PromptsOf, ToSet
    <3>2. count' = count
      <4>1. count.prompts + 0 = count.prompts
        BY <1>4
      <4> QED BY <1>0, <2>1, <3>1, <4>1 DEF CountOK
    <3>3. adapter'.notes = adapter.notes
      BY <2>3, <2>4
    <3>4. AdapterOK' /\ Unheard' = Unheard
      BY <1>0, <2>2, <2>3, <3>3 DEF AdapterOK, Unheard
    <3> QED BY <1>4, <1>5, <3>2, <3>4
  <2>5. CASE answer # <<>>
    <3>1. /\ cut \in Notes /\ PromptsOf(answer) = 1
          /\ \A i \in 1..Len(cut) : PromptLast(cut[i])
          /\ \A i \in 1..Len(cut) : Prompting(cut[i]) => i = Len(cut)
      BY <2>1, <2>2, <2>5, CutShape
    <3>2. adapter.notes \in Notes /\ adapter'.notes = adapter.notes \o cut
      BY <1>0, <2>3, <2>5 DEF AdapterOK, Notes
    <3>3. /\ adapter.notes \o cut \in Notes
          /\ Len(adapter.notes) \in Nat /\ Len(cut) \in Nat
          /\ Len(adapter.notes \o cut) = Len(adapter.notes) + Len(cut)
          /\ \A i \in 1..Len(adapter.notes \o cut) : (adapter.notes \o cut)[i] =
                IF i <= Len(adapter.notes) THEN adapter.notes[i] ELSE cut[i - Len(adapter.notes)]
      BY <3>1, <3>2, ConcatProperties, LenProperties DEF Notes
    <3>4. \A i \in 1..Len(adapter.notes \o cut) : PromptLast((adapter.notes \o cut)[i])
      <4>1. TAKE i \in 1..Len(adapter.notes \o cut)
      <4>2. CASE i <= Len(adapter.notes)
        BY <1>0, <3>3, <4>2 DEF AdapterOK
      <4>3. CASE i > Len(adapter.notes)
        <5>1. i - Len(adapter.notes) \in 1..Len(cut)
          BY <3>3, <4>3
        <5> QED BY <3>1, <3>3, <4>3, <5>1
      <4> QED BY <3>3, <4>2, <4>3
    <3>5. AdapterOK'
      BY <1>0, <2>2, <2>3, <3>2, <3>3, <3>4 DEF AdapterOK, Notes
    <3>6. /\ Unheard' = Prompts(adapter.notes \o cut)
          /\ Prompts(adapter.notes \o cut) <= Prompts(adapter.notes) + 1
          /\ Prompts(adapter.notes \o cut) \in Nat
      BY <3>1, <3>2, <3>3, AnswerCounts, PromptsType DEF Unheard, Prompts, Prompted
    <3>7. /\ count'.prompts = count.prompts + 1 /\ count'.sent = count.sent
          /\ count'.timeouts = count.timeouts /\ CountOK'
      BY <1>0, <1>4, <2>1, <3>1 DEF CountOK
    <3>8. PaceOK'
      BY <1>0, <1>3, <1>4, <3>6, <3>7 DEF PaceOK, Heard
    <3> QED BY <1>2, <1>3, <3>5, <3>7, <3>8 DEF PacedInv
  <2> QED BY <2>4, <2>5
<1> QED BY <1>6, <1>7, <1>8, <1>9, <1>10 DEF Environment

LEMMA PacedInit == ElmInit => PacedInv
<1> SUFFICES ASSUME ElmInit PROVE PacedInv
  OBVIOUS
<1>0. InitLen \in Nat \ {0} /\ PidCount \in Nat \ {0} /\ BufferMax \in Nat /\ MaxSent \in Nat
  BY SessionAssumption
<1>1. AdapterOK /\ adapter.notes = <<>>
  <2>1. <<>> \in Seq(Commands) /\ <<>> \in Seq(Seq(Token))
    BY EmptySeq
  <2> QED BY <2>1, EmptySeq DEF ElmInit, AdapterOK
<1>2. SessionOK
  <2>1. session.buffer = <<>> /\ DOMAIN session = {"canMode", "polling", "ready", "buffer", "vin"}
    BY DEF ElmInit, NewSession
  <2>2. \A s : s = <<>> => s \in Seq(Token) /\ Len(s) = 0 /\ ~Prompting(s)
    BY EmptySeq DEF Prompting
  <2> QED BY <1>0, <2>1, <2>2 DEF SessionOK
<1>3. QueueOK /\ CountOK
  BY <1>0, EmptySeq DEF ElmInit, QueueOK, Quiet, CountOK, NewCount
<1>4. ThreadsOK
  <2>1. 1 \in 1..InitLen + 1 /\ 0 \in 0..PidCount + 1
    BY <1>0
  <2> QED BY <2>1 DEF ElmInit, ThreadsOK, OneWaiter, Idle
<1>5. PaceOK
  <2>1. Unheard = 0
    BY <1>1, NoneCounts, UnheardIs
  <2> QED BY <2>1 DEF ElmInit, PaceOK, Heard, NewCount
<1> QED BY <1>1, <1>2, <1>3, <1>4, <1>5 DEF PacedInv

LEMMA PacedKept ==
    ASSUME PacedInv, [ElmNext]_elmVars
    PROVE  PacedInv'
<1>1. CASE Connect \/ AwaitCharacteristics \/ InitDone \/ ReadVin \/ Hook \/ Hooked \/ StartPolling
           \/ SendMonitorInit
  BY <1>1, SetUpStep
<1>2. CASE SendInit \/ QueryVin \/ EnterWait \/ LeaveWait
  BY <1>2, MainPaceStep
<1>3. CASE EndDetection \/ LeaveHealth \/ StopPolling \/ WakePoller \/ Join \/ Disconnect
  BY <1>3, TearDownStep
<1>4. CASE Poller
  BY <1>4, PollerStep
<1>5. CASE BleQueue
  BY <1>5, BleQueueStep
<1>6. CASE Environment
  BY <1>6, EnvironmentStep
<1>7. CASE UNCHANGED elmVars
  <2>1. UNCHANGED <<main, poll, queue, session, adapter, count>>
    BY <1>7 DEF elmVars
  <2>2. AdapterOK' /\ SessionOK' /\ QueueOK' /\ CountOK'
    BY <2>1 DEF PacedInv, AdapterOK, SessionOK, QueueOK, CountOK
  <2>3. ThreadsOK'
    BY <2>1 DEF PacedInv, ThreadsOK, OneWaiter, ByPrompt
  <2>4. PaceOK'
    BY <2>1 DEF PacedInv, PaceOK, Heard, Unheard, Owing, Answered
  <2> QED BY <2>2, <2>3, <2>4 DEF PacedInv
<1> QED BY <1>1, <1>2, <1>3, <1>4, <1>5, <1>6, <1>7 DEF ElmNext, Main, Ended

-----------------------------------------------------------------------------
(* The flags, and the theorem.                                              *)

FlagsOK ==
    /\ session.canMode \in BOOLEAN /\ session.polling \in BOOLEAN
    /\ session.ready \in BOOLEAN /\ session.vin \in BOOLEAN
    /\ device \in [connected : BOOLEAN, ready : BOOLEAN, hooked : BOOLEAN]
    /\ stopToken \in BOOLEAN

\* What the actions may do to the session: its flags are set or cleared, it scans or it is new.
LEMMA SessionChanges ==
    ASSUME [ElmNext]_elmVars
    PROVE  \/ UNCHANGED session
           \/ session' = NewSession
           \/ \E b \in BOOLEAN : session' = [session EXCEPT !.canMode = b]
           \/ session' = [session EXCEPT !.canMode = FALSE, !.vin = FALSE]
           \/ \E b \in BOOLEAN : session' = [session EXCEPT !.polling = b]
           \/ \E b \in BOOLEAN : session' = [session EXCEPT !.ready = b]
           \/ \E b \in BOOLEAN : session' = [session EXCEPT !.vin = b]
           \/ \E note : session' = scanned(note)
<1>1. CASE SendInit \/ SendMonitorInit \/ Connect \/ LeaveWait \/ ReadVin \/ Hook \/ Hooked
           \/ LeaveHealth \/ Join \/ Disconnect \/ PollPause \/ PollQuery \/ PollLeaveWait
           \/ Deliver \/ ReportLoss \/ Environment \/ Ended \/ UNCHANGED elmVars
  BY <1>1 DEF SendInit, SendMonitorInit, Connect, LeaveWait, ReadVin, Hook, Hooked,
       LeaveHealth, Join, Disconnect, PollPause, PollQuery, PollLeaveWait,
       Deliver, ReportLoss, Environment, Discover, Answer, Ignore, Stream, LoseLink, Interrupt,
       Ended, elmVars
<1>2. CASE InitDone \/ QueryVin
  BY <1>2 DEF InitDone, QueryVin
<1>3. CASE AwaitCharacteristics
  BY <1>3 DEF AwaitCharacteristics
<1>4. CASE EnterWait \/ PollEnterWait \/ WakePoller
  BY <1>4 DEF EnterWait, PollEnterWait, WakePoller, clearPrompt
<1>5. CASE EndDetection
  BY <1>5 DEF EndDetection
<1>6. CASE StartPolling \/ StopPolling
  BY <1>6 DEF StartPolling, StopPolling
<1>7. CASE ScanPrompt
  BY <1>7 DEF ScanPrompt
<1>8. CASE ParseAndObserve
  BY <1>8, Zenon DEF ParseAndObserve
<1> QED BY <1>1, <1>2, <1>3, <1>4, <1>5, <1>6, <1>7, <1>8 DEF ElmNext, Main, Poller, BleQueue

LEMMA DeviceChanges ==
    ASSUME [ElmNext]_elmVars
    PROVE  \/ UNCHANGED device
           \/ \E b \in BOOLEAN : device' = [device EXCEPT !.connected = b]
           \/ device' = [device EXCEPT !.ready = TRUE]
           \/ device' = [device EXCEPT !.hooked = TRUE]
           \/ device' = [device EXCEPT !.connected = FALSE, !.ready = FALSE]
<1>1. CASE SendInit \/ SendMonitorInit \/ LeaveWait \/ ReadVin \/ Hook \/ AwaitCharacteristics
           \/ LeaveHealth \/ Join \/ PollPause \/ PollQuery \/ PollLeaveWait \/ InitDone
           \/ QueryVin \/ EnterWait \/ PollEnterWait \/ WakePoller \/ StartPolling \/ StopPolling
           \/ ScanPrompt \/ ParseAndObserve \/ Deliver \/ Ended \/ UNCHANGED elmVars
  BY <1>1 DEF SendInit, SendMonitorInit, LeaveWait, ReadVin, Hook, AwaitCharacteristics,
       LeaveHealth, Join, PollPause, PollQuery, PollLeaveWait, InitDone,
       QueryVin, EnterWait, PollEnterWait, WakePoller, StartPolling, StopPolling,
       ScanPrompt, ParseAndObserve, Deliver, Ended, elmVars
<1>2. CASE Connect \/ Hooked \/ ReportLoss \/ EndDetection \/ Disconnect
  BY <1>2 DEF Connect, Hooked, ReportLoss, EndDetection, Disconnect
<1>3. CASE Environment
  BY <1>3 DEF Environment, Discover, Answer, Ignore, Stream, LoseLink, Interrupt
<1> QED BY <1>1, <1>2, <1>3 DEF ElmNext, Main, Poller, BleQueue

LEMMA FlagsKept ==
    ASSUME SessionOK, FlagsOK, [ElmNext]_elmVars
    PROVE  FlagsOK'
<1>1. /\ session'.canMode \in BOOLEAN /\ session'.polling \in BOOLEAN
      /\ session'.ready \in BOOLEAN /\ session'.vin \in BOOLEAN
  <2>1. DOMAIN session = {"canMode", "polling", "ready", "buffer", "vin"}
    BY DEF SessionOK
  <2>2. CASE UNCHANGED session
    BY <2>2 DEF FlagsOK
  <2>3. CASE session' = NewSession
    BY <2>3 DEF NewSession
  <2>4. CASE \/ \E b \in BOOLEAN : session' = [session EXCEPT !.canMode = b]
             \/ session' = [session EXCEPT !.canMode = FALSE, !.vin = FALSE]
    BY <2>1, <2>4 DEF FlagsOK
  <2>5. CASE \/ \E b \in BOOLEAN : session' = [session EXCEPT !.polling = b]
             \/ \E b \in BOOLEAN : session' = [session EXCEPT !.ready = b]
             \/ \E b \in BOOLEAN : session' = [session EXCEPT !.vin = b]
    BY <2>1, <2>5 DEF FlagsOK
  <2>6. ASSUME NEW note, session' = scanned(note)
        PROVE  /\ session'.canMode \in BOOLEAN /\ session'.polling \in BOOLEAN
               /\ session'.ready \in BOOLEAN /\ session'.vin \in BOOLEAN
    <3> DEFINE all == session.buffer \o note
               spot == SelectInSeq(all, LAMBDA t : t = ">")
               rest == SubSeq(all, spot + 1, Len(all))
               kept == IF Len(rest) > BufferMax
                       THEN SubSeq(rest, Len(rest) - BufferMax + 1, Len(rest)) ELSE rest
    <3>1. session' = [session EXCEPT !.ready = @ \/ spot # 0, !.buffer = kept]
      BY <2>6 DEF scanned
    <3> HIDE DEF spot, kept
    <3>2. /\ session'.canMode = session.canMode /\ session'.polling = session.polling
          /\ session'.vin = session.vin /\ session'.ready = (session.ready \/ spot # 0)
      BY <2>1, <3>1
    <3> QED BY <3>2 DEF FlagsOK
  <2> QED BY <2>2, <2>3, <2>4, <2>5, <2>6, SessionChanges
<1>2. device' \in [connected : BOOLEAN, ready : BOOLEAN, hooked : BOOLEAN]
  BY DeviceChanges DEF FlagsOK
<1>3. stopToken' \in BOOLEAN
  <2>1. stopToken' = stopToken \/ stopToken' = TRUE
    BY DEF ElmNext, Main, Poller, BleQueue, Environment, SendInit, SendMonitorInit, Connect,
         LeaveWait, ReadVin, Hook, Hooked, AwaitCharacteristics, LeaveHealth, Join, Disconnect,
         PollPause, PollQuery, PollLeaveWait, InitDone, QueryVin, EnterWait, PollEnterWait,
         WakePoller, StartPolling, StopPolling, EndDetection, ScanPrompt, ParseAndObserve,
         Deliver, ReportLoss, Discover, Answer, Ignore, Stream, LoseLink, Interrupt, Ended, elmVars
  <2> QED BY <2>1 DEF FlagsOK
<1> QED BY <1>1, <1>2, <1>3 DEF FlagsOK

\* Every variable keeps its type, the commands are paced by the prompts and the deadlines of the
\* waits before them, and the polling thread waits alone (Elm327Session::sendCommand,
\* waitForPrompt, startOBD2Polling and stopOBD2Polling).
THEOREM SessionHolds == ElmSpec => []SessionSafe
<1>1. ElmInit => PacedInv /\ FlagsOK
  <2>1. ElmInit => /\ session.canMode = FALSE /\ session.polling = FALSE
                /\ session.ready = FALSE /\ session.vin = FALSE
    BY DEF ElmInit, NewSession
  <2>2. ElmInit => device \in [connected : BOOLEAN, ready : BOOLEAN, hooked : BOOLEAN]
    BY DEF ElmInit
  <2>3. ElmInit => stopToken \in BOOLEAN
    BY DEF ElmInit
  <2>4. ElmInit => FlagsOK
    BY <2>1, <2>2, <2>3 DEF FlagsOK
  <2> QED BY <2>4, PacedInit
<1>2. PacedInv /\ FlagsOK /\ [ElmNext]_elmVars => (PacedInv /\ FlagsOK)'
  BY PacedKept, FlagsKept DEF PacedInv
<1>3. PacedInv /\ FlagsOK => SessionSafe
  <2> SUFFICES ASSUME PacedInv, FlagsOK PROVE SessionSafe
    OBVIOUS
  <2>1. Paced
    <3>1. Unheard \in Nat
      BY UnheardIs, PromptsType DEF PacedInv, AdapterOK, Notes
    <3> QED BY <3>1, SessionAssumption DEF PacedInv, PaceOK, Heard, CountOK, Paced
  <2>2. {session.canMode, session.polling, session.ready, session.vin} \subseteq BOOLEAN
    BY Zenon DEF FlagsOK
  <2>3. ElmTypeOK
    BY <2>2, Zenon DEF PacedInv, ThreadsOK, QueueOK, SessionOK, FlagsOK, AdapterOK, CountOK, ElmTypeOK
  <2> QED BY <2>1, <2>3 DEF PacedInv, ThreadsOK, SessionSafe
<1> QED BY <1>1, <1>2, <1>3, PTL DEF ElmSpec

-----------------------------------------------------------------------------
(***************************************************************************)
(* The TCP transport, for every network and every retry budget.            *)
(***************************************************************************)

\* The reading thread has a connection only after a handshake, to the device
\* deviceIdHex_ names at the address host_ names.
LinkInv ==
    /\ pc \in {"shake", "tag", "read"} => connected
    /\ pc = "join" /\ reconnected => connected
    /\ connected => remote = host /\ peer # None
    /\ connected /\ pc \notin {"shake", "tag"} => deviceId = peer

\* While nothing has reconnected the id is that of the device hunted, and what
\* discovery found is that device, unless the match ran during the write of the
\* id, which only happens when the old address has already won.
HuntInv ==
    /\ disc # "done" => Hunting
    /\ Hunting => hunted # None
    /\ Hunting /\ reconnected => pc = "join"
    /\ Hunting /\ ~reconnected => deviceId = hunted
    /\ Hunting /\ ~reconnected /\ found /\ pc # "tag" => foundDev = hunted

\* The reading thread's steps, one by one: they keep the session's invariant.
LEMMA LinkStep ==
  LinkInv /\ HuntInv /\ [Next]_vars => LinkInv'
<1> SUFFICES ASSUME LinkInv, HuntInv, [Next]_vars PROVE LinkInv'
  OBVIOUS
<1> USE NetAssumption
<1>0. (pc \in {"loop", "backoff"}) => ~reconnected
  BY DEF HuntInv, Hunting, RapidHunt
<1>1. CASE ReadingThread
  <2>1. CASE ConnectUntilUp
    BY <2>1 DEF LinkInv, ConnectUntilUp, Return, Dial, CloseConnection,
           sockVars
  <2>2. CASE DialFails
    BY <2>2 DEF LinkInv, DialFails, ConnectFailed, GiveUp, Return, sockVars
  <2>3. CASE DialConnects
    BY <2>3 DEF LinkInv, DialConnects
  <2>4. CASE HandshakeFails
    BY <2>4 DEF LinkInv, HandshakeFails, ConnectFailed, GiveUp, Return,
                CloseConnection
  <2>5. CASE HandshakeSucceeds
    BY <2>5 DEF LinkInv, HandshakeSucceeds, flagVars, sockVars
  <2>14. CASE HandshakeSkips
    BY <2>14 DEF LinkInv, HandshakeSkips, flagVars, callVars
  <2>6. CASE TagDevice
    BY <2>6 DEF LinkInv, TagDevice, HandshakeId, ConnectSucceeded,
                StopDiscovery, Return, flagVars, sockVars
  <2>7. CASE ReadChunk
    BY <2>7 DEF LinkInv, ReadChunk, Return, flagVars, callVars
  <2>8. CASE SelectError \/ StopRequested
    BY <2>8 DEF LinkInv, SelectError, StopRequested, ReadEnds, Return,
           sockVars
  <2>9. CASE ReadFailure
    BY <2>9 DEF LinkInv, ReadFailure, Return, CloseConnection
  <2>10. CASE RapidReconnect
    BY <2>10 DEF LinkInv, RapidReconnect, Dial, CloseConnection, sockVars
  <2>11. CASE RetryLoop
    BY <2>11, <1>0 DEF LinkInv, RetryLoop, StopDiscovery, flagVars, callVars,
                 sockVars
  <2>12. CASE BackoffThenAttemptReconnect
    BY <2>12, <1>0 DEF LinkInv, BackoffThenAttemptReconnect, StopDiscovery, Dial,
                 CloseConnection, sockVars
  <2>13. CASE FinalizeHunt
    BY <2>13 DEF LinkInv, FinalizeHunt, Dial, CloseConnection, GiveUp, Return,
                 SwitchToDiscovered, sockVars
  <2>15. QED
    BY <1>1, <2>1, <2>2, <2>3, <2>4, <2>5, <2>6, <2>7, <2>8, <2>9, <2>10, <2>11,
       <2>12, <2>13, <2>14 DEF ReadingThread
<1>2. CASE Call
  BY <1>2 DEF LinkInv, Call, OpenAgain, Open, NextLine, Return, canRead,
              flagVars, sockVars
<1>3. CASE DiscoveryThread
  BY <1>3 DEF LinkInv, DiscoveryThread, DiscoveryStarts, DiscoveryGuard,
              DiscoveryPoll, mainVars, flagVars, callVars, sockVars
<1>4. CASE RequestStop \/ Network
  BY <1>4 DEF LinkInv, RequestStop, Network, DeviceMoves, PeerSends,
              PeerCloses, transportVars, flagVars, callVars
<1>5. CASE UNCHANGED vars
  BY <1>5 DEF LinkInv, vars, flagVars, callVars, sockVars
<1>6. QED
  BY <1>1, <1>2, <1>3, <1>4, <1>5 DEF Next

\* Both threads' steps keep the hunt's invariant.
LEMMA HuntStep ==
  LinkInv /\ HuntInv /\ [Next]_vars => HuntInv'
<1> SUFFICES ASSUME LinkInv, HuntInv, [Next]_vars PROVE HuntInv'
  OBVIOUS
<1> USE NetAssumption DEF HuntInv, Hunting, RapidHunt, Connecting
<1>1. CASE ReadingThread
  <2>1. CASE ConnectUntilUp
    BY <2>1 DEF ConnectUntilUp, Return, Dial, discVars
  <2>2. CASE DialFails
    BY <2>2 DEF DialFails, ConnectFailed, GiveUp, Return, discVars
  <2>3. CASE DialConnects
    BY <2>3 DEF DialConnects, callVars, discVars
  <2>4. CASE HandshakeFails
    BY <2>4 DEF HandshakeFails, ConnectFailed, GiveUp, Return, discVars
  <2>5. CASE HandshakeSucceeds
    BY <2>5 DEF HandshakeSucceeds, callVars, discVars
  <2>14. CASE HandshakeSkips
    BY <2>14 DEF HandshakeSkips, callVars, discVars
  <2>6. CASE TagDevice
    BY <2>6 DEF TagDevice, ConnectSucceeded, StopDiscovery, Return
  <2>7. CASE ReadChunk
    BY <2>7 DEF ReadChunk, Return, callVars, discVars
  <2>8. CASE SelectError \/ StopRequested
    BY <2>8 DEF SelectError, StopRequested, ReadEnds, Return, discVars
  <2>9. CASE ReadFailure
    BY <2>9 DEF LinkInv, ReadFailure, Return, discVars
  <2>10. CASE RapidReconnect
    BY <2>10 DEF RapidReconnect, Dial, discVars
  <2>11. CASE RetryLoop
    BY <2>11 DEF RetryLoop, StopDiscovery, callVars
  <2>12. CASE BackoffThenAttemptReconnect
    BY <2>12 DEF BackoffThenAttemptReconnect, StopDiscovery, Dial
  <2>13. CASE FinalizeHunt
    BY <2>13 DEF FinalizeHunt, Dial, GiveUp, Return, discVars
  <2>15. QED
    BY <1>1, <2>1, <2>2, <2>3, <2>4, <2>5, <2>6, <2>7, <2>8, <2>9, <2>10, <2>11,
       <2>12, <2>13, <2>14 DEF ReadingThread
<1>2. CASE Call
  BY <1>2 DEF Call, OpenAgain, Open, NextLine, Return, callVars,
         discVars
<1>3. CASE DiscoveryThread
  <2>1. CASE DiscoveryStarts \/ DiscoveryGuard
    BY <2>1 DEF DiscoveryStarts, DiscoveryGuard, mainVars, callVars
  <2>2. CASE DiscoveryPoll
    <3>1. UNCHANGED <<pc, from, reconnected, deviceId, hunted>>
      BY <2>2 DEF DiscoveryPoll, mainVars, callVars
    <3>2. Hunting
      BY <2>2 DEF DiscoveryPoll
    <3>3. CASE UNCHANGED <<found, foundDev>>
      BY <3>1, <3>2, <3>3
    <3>4. CASE \E a \in Addrs : isTargetDevice(a) /\ foundDev' = at[a]
      <4>1. PICK a \in Addrs : isTargetDevice(a) /\ foundDev' = at[a]
        BY <3>4
      <4>2. pc # "tag" => (deviceId = None \/ deviceId = at[a])
        BY <4>1 DEF isTargetDevice, IdMatches
      <4>3. QED
        BY <3>1, <3>2, <4>1, <4>2
    <3>5. QED
      BY <2>2, <3>3, <3>4 DEF DiscoveryPoll
  <2>3. QED
    BY <1>3, <2>1, <2>2 DEF DiscoveryThread
<1>4. CASE RequestStop \/ Network
  BY <1>4 DEF RequestStop, Network, DeviceMoves, PeerSends, PeerCloses,
              transportVars, callVars, discVars
<1>5. CASE UNCHANGED vars
  BY <1>5 DEF vars, callVars, discVars
<1>6. QED
  BY <1>1, <1>2, <1>3, <1>4, <1>5 DEF Next

\* Both invariants hold in every reachable state.
LEMMA Invariants == Spec => [](LinkInv /\ HuntInv)
<1>1. Init => LinkInv /\ HuntInv
  BY NetAssumption DEF Init, LinkInv, HuntInv, Hunting, RapidHunt,
         Connecting
<1>2. LinkInv /\ HuntInv /\ [Next]_vars => (LinkInv /\ HuntInv)'
  BY LinkStep, HuntStep
<1>3. QED
  BY <1>1, <1>2, PTL DEF Spec

\* Lines are read only from the device the id names at the address host_ names,
\* for any number of devices, addresses and retries (connectAndAuth, finalizeHunt).
THEOREM LinkHolds == Spec => []SessionNamesPeer
<1>1. LinkInv => SessionNamesPeer
  BY DEF LinkInv, SessionNamesPeer
<1>2. QED
  BY <1>1, Invariants, PTL

\* The discovery thread is joined before enterHuntingState returns, on every path.
THEOREM HuntJoins == Spec => []DiscoveryJoined
<1>1. HuntInv => DiscoveryJoined
  BY DEF HuntInv, DiscoveryJoined
<1>2. QED
  BY <1>1, Invariants, PTL

\* A hunt leaves nothing behind but a session with the device the id names, by
\* any of its ways out (enterHuntingState, attemptReconnect).
THEOREM HuntLeavesSession == Spec => []HuntSafe
<1>1. SessionNamesPeer /\ DiscoveryJoined => HuntSafe
  BY DEF HuntSafe
<1>2. QED
  BY <1>1, LinkHolds, HuntJoins, PTL

\* host_ moves only to the hunted device, although isTargetDevice reads the id
\* while performHeloHandshake may be writing it.
THEOREM SwitchesToTarget == Spec => SwitchOnlyToTarget
<1>1. LinkInv /\ HuntInv /\ [Next]_vars =>
        (host' # host => hunted # None /\ foundDev = hunted)
  <2> SUFFICES ASSUME HuntInv, [Next]_vars, host' # host
               PROVE  hunted # None /\ foundDev = hunted
    OBVIOUS
  <2>1. FinalizeHunt
    <3>1. ~(Call \/ DiscoveryThread \/ RequestStop \/ Network \/ UNCHANGED vars)
      BY DEF Call, OpenAgain, Open, NextLine, DiscoveryThread,
             DiscoveryStarts,
             DiscoveryGuard, DiscoveryPoll, mainVars, RequestStop, Network,
             DeviceMoves, PeerSends, PeerCloses, transportVars, vars
    <3>2. ~(DialFails \/ DialConnects \/ HandshakeSkips \/ HandshakeFails
              \/ HandshakeSucceeds \/ TagDevice)
      BY DEF DialFails, DialConnects, HandshakeSkips, HandshakeFails,
             HandshakeSucceeds, TagDevice
    <3>3. ~(ReadChunk \/ SelectError \/ StopRequested \/ ReadFailure
              \/ RetryLoop)
      BY DEF ReadChunk, SelectError, StopRequested, ReadEnds, ReadFailure,
             RetryLoop
    <3>4. ~(ConnectUntilUp \/ RapidReconnect \/ BackoffThenAttemptReconnect)
      BY DEF ConnectUntilUp, RapidReconnect, BackoffThenAttemptReconnect, Dial
    <3>5. QED
      BY <3>1, <3>2, <3>3, <3>4 DEF Next, ReadingThread
  <2>2. SwitchToDiscovered /\ pc = "join"
    BY <2>1 DEF FinalizeHunt
  <2>3. QED
    BY <2>2 DEF HuntInv, Hunting, RapidHunt, SwitchToDiscovered
<1>2. QED
  BY <1>1, Invariants, PTL DEF Spec, SwitchOnlyToTarget

-----------------------------------------------------------------------------
(* What the reader's buffer holds, and what open() and nextLine() return *)

\* The bytes of buffer p came by the link l.
CameBy(p, l) == \A i \in 1..Len(p) : p[i].link = l

\* clearPending empties the buffer before a connect, so that whatever is in it
\* while a connection is up came by that connection.
BufferInv ==
    /\ link \in BOOLEAN
    /\ pending \in Seq(Chunk)
    /\ pc = "dial" => pending = <<>>
    /\ connected => CameBy(pending, link)

\* Only an open() that has not failed takes the thread out of idle.
OpenInv ==
    /\ pc # "idle" => opened
    /\ exhausted => opened /\ pc = "idle"

\* takeBufferedLine erases a prefix: what is left came by the same link.
LEMMA AfterLineCameBy ==
  ASSUME NEW p \in Seq(Chunk), NEW l, CameBy(p, l), LineEnds(p) # {}
  PROVE  AfterLine(p) \in Seq(Chunk) /\ CameBy(AfterLine(p), l)
<1>1. Min(LineEnds(p)) \in 1..Len(p)
  <2>1. LineEnds(p) \in SUBSET Nat /\ LineEnds(p) \subseteq 1..Len(p)
    BY DEF LineEnds
  <2>2. QED
    BY <2>1, Least
<1> DEFINE m == Min(LineEnds(p))
<1>2. /\ m \in Nat /\ Len(p) \in Nat /\ m + 1 \in 1..(Len(p) + 1)
      /\ \A i \in 1..Len(p) : p[i] \in Chunk /\ p[i].link = l
  BY <1>1 DEF CameBy
<1>3. AfterLine(p) = SubSeq(p, m + 1, Len(p))
  BY DEF AfterLine
<1> HIDE DEF m
<1>4. /\ SubSeq(p, m + 1, Len(p)) \in Seq(Chunk)
      /\ Len(SubSeq(p, m + 1, Len(p))) = Len(p) - m
      /\ \A i \in 1..(Len(p) - m) : SubSeq(p, m + 1, Len(p))[i] = p[m + i]
  BY <1>2
<1>5. \A i \in 1..(Len(p) - m) : m + i \in 1..Len(p)
  BY <1>2
<1>6. QED
  BY <1>2, <1>3, <1>4, <1>5 DEF CameBy

\* recv() appends bytes of the connection it reads from.
LEMMA ReceivedCameBy ==
  ASSUME NEW p \in Seq(Chunk), NEW c \in Chunk, CameBy(p, c.link)
  PROVE  Received(p, c) \in Seq(Chunk) /\ CameBy(Received(p, c), c.link)
BY DEF Received, CameBy

\* What a handshake leaves in the buffer: nothing, or the bytes read with the ACK.
LEMMA EmptyOrOneChunk ==
  /\ \A p : p = <<>> => p \in Seq(Chunk) /\ \A l : CameBy(p, l)
  /\ \A p : \A c \in Chunk : p = <<c>> => p \in Seq(Chunk) /\ CameBy(p, c.link)
<1>1. ASSUME NEW p, p = <<>> PROVE p \in Seq(Chunk) /\ \A l : CameBy(p, l)
  BY <1>1 DEF CameBy
<1>2. ASSUME NEW p, NEW c \in Chunk, p = <<c>>
      PROVE  p \in Seq(Chunk) /\ CameBy(p, c.link)
  <2>1. p \in Seq(Chunk)
    BY <1>2
  <2>2. Len(p) = 1 /\ p[1] = c
    BY <1>2
  <2>3. QED
    BY <2>1, <2>2 DEF CameBy
<1>3. QED
  BY <1>1, <1>2

\* The reading thread's steps keep the buffer's invariant.
LEMMA BufferStep == LinkInv /\ BufferInv /\ [Next]_vars => BufferInv'
<1> SUFFICES ASSUME LinkInv, BufferInv, [Next]_vars PROVE BufferInv'
  OBVIOUS
<1>0. \A p : p = <<>> => p \in Seq(Chunk) /\ \A l : CameBy(p, l)
  BY EmptyOrOneChunk
<1>1. CASE ReadingThread
  <2>1. CASE ConnectUntilUp \/ RapidReconnect \/ BackoffThenAttemptReconnect
    BY <1>0, <2>1 DEF BufferInv, ConnectUntilUp, RapidReconnect,
       BackoffThenAttemptReconnect, Return, Dial, StopDiscovery,
       CloseConnection,
       sockVars
  <2>2. CASE DialFails
    BY <2>2 DEF BufferInv, DialFails, ConnectFailed, GiveUp, Return, sockVars
  <2>3. CASE DialConnects
    BY <1>0, <2>3 DEF BufferInv, DialConnects
  <2>4. CASE HandshakeFails
    <3>1. pending' \in Seq(Chunk)
      <4>1. [link |-> link, ends |-> FALSE] \in Chunk
        BY DEF BufferInv, Chunk
      <4>2. pending' = <<>> \/ pending' = <<[link |-> link, ends |-> FALSE]>>
        BY <2>4 DEF HandshakeFails
      <4>3. QED
        BY <4>1, <4>2, EmptyOrOneChunk
    <3>2. QED
      BY <2>4, <3>1 DEF BufferInv, HandshakeFails, ConnectFailed, GiveUp, Return,
                  CloseConnection
  <2>5. CASE HandshakeSucceeds
    <3>1. pending' \in Seq(Chunk) /\ CameBy(pending', link)
      <4>1. \A e \in BOOLEAN : /\ [link |-> link, ends |-> e] \in Chunk
                               /\ [link |-> link, ends |-> e].link = link
        BY DEF BufferInv, Chunk
      <4>2. PICK e \in BOOLEAN :
              pending' = <<>> \/ pending' = <<[link |-> link, ends |-> e]>>
        BY <2>5 DEF HandshakeSucceeds
      <4>3. QED
        BY <4>1, <4>2, EmptyOrOneChunk
    <3>2. QED
      BY <2>5, <3>1 DEF BufferInv, HandshakeSucceeds, flagVars, sockVars
  <2>12. CASE HandshakeSkips
    <3>1. pending' \in Seq(Chunk) /\ CameBy(pending', link)
      <4>1. /\ [link |-> link, ends |-> FALSE] \in Chunk
            /\ [link |-> link, ends |-> FALSE].link = link
        BY DEF BufferInv, Chunk
      <4>2. pending' = <<>> \/ pending' = <<[link |-> link, ends |-> FALSE]>>
        BY <2>12 DEF HandshakeSkips
      <4>3. QED
        BY <4>1, <4>2, EmptyOrOneChunk
    <3>2. QED
      BY <2>12, <3>1 DEF BufferInv, HandshakeSkips, flagVars
  <2>6. CASE TagDevice
    BY <2>6 DEF BufferInv, TagDevice, ConnectSucceeded, StopDiscovery, Return,
                flagVars, sockVars
  <2>7. CASE ReadChunk
    <3>1. PICK chunk \in Chunk :
            /\ chunk.link = link
            /\ pending' \in {AfterLine(Received(pending, chunk)),
                             Received(pending, chunk)}
            /\ pending' # Received(pending, chunk) =>
                  LineEnds(Received(pending, chunk)) # {}
      BY <2>7 DEF ReadChunk
    <3>2. CameBy(pending, link) /\ pending \in Seq(Chunk)
      BY <2>7 DEF ReadChunk, BufferInv, LinkInv
    <3>3. /\ Received(pending, chunk) \in Seq(Chunk)
          /\ CameBy(Received(pending, chunk), link)
      BY <3>1, <3>2, ReceivedCameBy
    <3>4. pending' \in Seq(Chunk) /\ CameBy(pending', link)
      BY <3>1, <3>3, AfterLineCameBy
    <3>5. QED
      BY <2>7, <3>4 DEF BufferInv, ReadChunk, Return, flagVars
  <2>8. CASE SelectError \/ StopRequested
    BY <2>8 DEF BufferInv, SelectError, StopRequested, ReadEnds, Return,
           sockVars
  <2>9. CASE ReadFailure
    BY <2>9 DEF BufferInv, ReadFailure, Return, CloseConnection
  <2>10. CASE RetryLoop
    BY <2>10 DEF BufferInv, RetryLoop, StopDiscovery, flagVars, sockVars
  <2>11. CASE FinalizeHunt
    BY <1>0, <2>11 DEF BufferInv, FinalizeHunt, Dial, CloseConnection, GiveUp,
       Return, sockVars
  <2>13. QED
    BY <1>1, <2>1, <2>2, <2>3, <2>4, <2>5, <2>6, <2>7, <2>8, <2>9, <2>10, <2>11,
       <2>12 DEF ReadingThread
<1>2. CASE Call
  <2>1. CASE NextLine
    <3>1. pending' \in Seq(Chunk) /\ (connected => CameBy(pending', link))
      BY <2>1, AfterLineCameBy DEF NextLine, BufferInv, canRead
    <3>2. QED
      BY <2>1, <3>1 DEF BufferInv, NextLine, Return, flagVars, sockVars
  <2>2. CASE OpenAgain \/ Open
    BY <2>2 DEF BufferInv, OpenAgain, Open, flagVars, sockVars
  <2>3. QED
    BY <1>2, <2>1, <2>2 DEF Call
<1>3. CASE DiscoveryThread
  BY <1>3 DEF BufferInv, DiscoveryThread, DiscoveryStarts, DiscoveryGuard,
              DiscoveryPoll, mainVars, flagVars, sockVars
<1>4. CASE RequestStop \/ Network
  BY <1>4 DEF BufferInv, RequestStop, Network, DeviceMoves, PeerSends,
              PeerCloses, transportVars, flagVars
<1>5. CASE UNCHANGED vars
  BY <1>5 DEF BufferInv, vars, flagVars, sockVars
<1>6. QED
  BY <1>1, <1>2, <1>3, <1>4, <1>5 DEF Next

\* Neither a handshake nor nextLine() ever parses what an earlier connection left
\* behind, for a buffer of any size (connectAndAuth's clearPending).
THEOREM NothingStale == Spec => []NoStaleBytes
<1>1. Init => BufferInv
  BY EmptyOrOneChunk DEF Init, BufferInv
<1>2. LinkInv /\ BufferInv /\ [Next]_vars => BufferInv'
  BY BufferStep
<1>3. BufferInv => NoStaleBytes
  BY DEF BufferInv, NoStaleBytes, CameBy
<1>4. QED
  BY <1>1, <1>2, <1>3, Invariants, PTL DEF Spec

\* No step but nextLine() at an exhausted transport's end, or open() refusing, is
\* left to an exhausted transport; and none but open() leads out of idle.
LEMMA OpenStep ==
  OpenInv /\ [Next]_vars =>
    /\ OpenInv'
    /\ exhausted => /\ exhausted' /\ pc' = "idle"
                    /\ ret' # ret => ret' \in {"end", "refused"}
<1> SUFFICES ASSUME OpenInv, [Next]_vars
             PROVE  /\ OpenInv'
                    /\ exhausted => /\ exhausted' /\ pc' = "idle"
                                    /\ ret' # ret => ret' \in {"end", "refused"}
  OBVIOUS
<1> USE DEF OpenInv, Return, GiveUp
<1>1. CASE ReadingThread
  <2>1. CASE ConnectUntilUp \/ RapidReconnect \/ BackoffThenAttemptReconnect
    BY <2>1 DEF ConnectUntilUp, RapidReconnect, BackoffThenAttemptReconnect, Dial,
                StopDiscovery
  <2>2. CASE DialFails \/ DialConnects
    BY <2>2 DEF DialFails, DialConnects, ConnectFailed
  <2>3. CASE HandshakeSkips \/ HandshakeFails
    BY <2>3 DEF HandshakeSkips, HandshakeFails, ConnectFailed, flagVars, callVars
  <2>4. CASE HandshakeSucceeds \/ TagDevice
    BY <2>4 DEF HandshakeSucceeds, TagDevice, ConnectSucceeded, StopDiscovery,
                flagVars
  <2>5. CASE ReadChunk
    BY <2>5 DEF ReadChunk, flagVars
  <2>6. CASE SelectError \/ StopRequested \/ ReadFailure
    BY <2>6 DEF SelectError, StopRequested, ReadEnds, ReadFailure
  <2>7. CASE RetryLoop \/ FinalizeHunt
    BY <2>7 DEF RetryLoop, FinalizeHunt, StopDiscovery, Dial, flagVars
  <2>8. QED
    BY <1>1, <2>1, <2>2, <2>3, <2>4, <2>5, <2>6, <2>7 DEF ReadingThread
<1>2. CASE Call
  BY <1>2 DEF Call, OpenAgain, Open, NextLine, canRead, flagVars
<1>3. CASE DiscoveryThread
  BY <1>3 DEF DiscoveryThread, DiscoveryStarts, DiscoveryGuard, DiscoveryPoll,
              mainVars, flagVars, callVars
<1>4. CASE RequestStop \/ Network
  BY <1>4 DEF RequestStop, Network, DeviceMoves, PeerSends, PeerCloses,
              transportVars, flagVars, callVars
<1>5. CASE UNCHANGED vars
  BY <1>5 DEF vars, flagVars, callVars
<1>6. QED
  BY <1>1, <1>2, <1>3, <1>4, <1>5 DEF Next

\* A transport that gave up delivers no line and opens no connection again
\* (handleReadFailure, open, nextLine).
THEOREM ExhaustedStays == Spec => ExhaustedIsFinal
<1>1. Init => OpenInv
  BY DEF Init, OpenInv
<1>2. QED
  BY <1>1, OpenStep, PTL DEF Spec, ExhaustedIsFinal
=============================================================================
