------------------------- MODULE SmtpSessionProofs -------------------------
(***************************************************************************)
(* Proofs about the SMTP dialogue, for any number of recipients, mails and *)
(* NOOPs, with and without TLS, for replies in one piece or in two.        *)
(*                                                                         *)
(* What is in the socket and what is on its way to it are one stream, and  *)
(* the inductive invariant says what may be in it and among the commands   *)
(* that are not answered yet: the code 354 keeps the replies of one mail   *)
(* apart from those of the next (DataMarks), where one read is one piece   *)
(* no refusal is passed over (RcptsKept), and replies in one piece come    *)
(* one at a time (InStep).                                                 *)
(***************************************************************************)
EXTENDS SmtpSession, SequenceTheorems, TLAPS

\* The pieces of replies that the proxy has not read, in their order.
Stream == arrived \o coming

Codes == {"220", "250", "251", "334", "235", "354", "error"}
Piece == [code : Codes, ends : BOOLEAN]
Sendable == [cmd : Commands, rcpt : 1..Rcpts, mail : Mails]

Types ==
  /\ ssl \in {"plain", "SSL", "TLS"}
  /\ step \in Commands \cup {"idle", "closed"}
  /\ phase \in {"write", "expect"}
  /\ rcpt \in 1..Rcpts
  /\ mail \in Mails
  /\ ret \in [Mails -> {"none", "0", "1"}]
  /\ told \in [Mails -> Codes \cup {"none"}]
  /\ sent \in Seq(Sendable)
  /\ arrived \in Seq(Piece)
  /\ coming \in Seq(Piece)
  /\ granted \in SUBSET (1..Rcpts)
  /\ taken \in [Mails -> SUBSET (1..Rcpts)]

\* A mail in hand has no result yet, nor has one that is still to come.
Results ==
  /\ step \in SetUp \cup Dialogue => ret[mail] = "none"
  /\ \A m \in Mails : m > mail => ret[m] = "none"
  /\ \A m \in Mails : ~split /\ told[m] = "250" => ret[m] = "1"

\* The text of a mail that was reported as sent is not on its way any more.
BodyTaken == \A j \in 1..Len(sent) : sent[j].cmd = "BODY" => ret[sent[j].mail] # "1"

\* Which replies to DATA and to the text of the mail there are, by the step.
BeforeData ==
  /\ \A i \in 1..Len(Stream) : Stream[i].code # "354"
  /\ \A j \in 1..Len(sent) : sent[j].cmd \notin {"DATA", "BODY"}

InData ==
  /\ \A j \in 1..Len(sent) : sent[j].cmd # "BODY" /\ (sent[j].cmd = "DATA" => j = Len(sent))
  /\ \A i \in 1..Len(Stream) : Stream[i].code = "354" =>
       /\ sent = <<>> /\ granted # {}
       /\ \A k \in i..Len(Stream) : Stream[k].code = "354"

Only354 == \A i \in 1..Len(Stream) : Stream[i].code = "354"

BodySent == Len(sent) = 1 /\ sent[1].cmd = "BODY" /\ sent[1].mail = mail /\ Only354

BodyAnswered ==
  /\ sent = <<>>
  /\ \E c \in {"250", "error"} :
       /\ c = "250" => taken[mail] = granted
       /\ \A i \in 1..Len(Stream) :
            /\ Stream[i].code \in {"354", c}
            /\ Stream[i].code = c => \A k \in i..Len(Stream) : Stream[k].code = c

DataMarks ==
  /\ step \in {"idle", "NOOP", "RSET", "MAIL", "RCPT"} \cup SetUp => BeforeData
  /\ step = "DATA" /\ phase = "write" => BeforeData
  /\ step = "DATA" /\ phase = "expect" => InData
  /\ step = "BODY" => granted # {}
  /\ step = "BODY" /\ phase = "write" => sent = <<>> /\ Only354
  /\ step = "BODY" /\ phase = "expect" => BodySent \/ BodyAnswered

\* One read is one piece, and no code but the one a command asks for is passed.
OneByOne == ssl # "plain" \/ ~split

\* The recipients of the mail in hand whose command is written.
Written(i) ==
  \/ step = "RCPT" /\ (i < rcpt \/ (i = rcpt /\ phase = "expect"))
  \/ step \in {"DATA", "BODY"}

\* Recipient i is on its way to the server, or the server has it; what resets
\* the server's list is not on its way after it.
Pending(i) ==
  \E j \in 1..Len(sent) :
    /\ sent[j].cmd = "RCPT" /\ sent[j].rcpt = i
    /\ \A k \in j..Len(sent) : sent[k].cmd \notin {"RSET", "MAIL"}

Granted(i) == i \in granted /\ \A k \in 1..Len(sent) : sent[k].cmd \notin {"RSET", "MAIL"}

NoError == \A i \in 1..Len(Stream) : Stream[i].code # "error"

RcptsKept ==
  OneByOne /\ NoError => \A i \in 1..Rcpts : Written(i) => Pending(i) \/ Granted(i)

\* What a server answers to a command at any time.
AnyAnswer(cmd) ==
  CASE cmd \in {"GREET", "STARTTLS"} -> {"220", "error"}
    [] cmd \in {"AUTH", "USER"} -> {"334", "error"}
    [] cmd = "PASS" -> {"235", "error"}
    [] cmd = "RCPT" -> {"250", "251", "error"}
    [] cmd = "DATA" -> {"354", "error"}
    [] OTHER -> {"250", "error"}

InStep ==
  ~split =>
    /\ step = "idle" \/ (step \in Commands /\ phase = "write") => sent = <<>> /\ Stream = <<>>
    /\ step \in Commands /\ phase = "expect" =>
         \/ Len(sent) = 1 /\ sent[1].cmd = step /\ Stream = <<>>
         \/ sent = <<>> /\ Len(Stream) = 1 /\ Stream[1].code \in AnyAnswer(step)

\* What the results mean.
SentIsWhole == \A m \in Mails : ret[m] = "1" => taken[m] # {} /\ (OneByOne => taken[m] = 1..Rcpts)

IInv ==
  Types /\ Results /\ BodyTaken /\ DataMarks /\ RcptsKept /\ InStep /\ SentIsWhole

-----------------------------------------------------------------------------
(***************************************************************************)
(* What the actions do to the stream and to the commands on their way.     *)
(***************************************************************************)

\* The reply of code code comes behind what is in the stream.
Grows(code) ==
  /\ Len(Stream') > Len(Stream)
  /\ ~split => Len(Stream') = Len(Stream) + 1
  /\ \A i \in 1..Len(Stream) : Stream'[i] = Stream[i]
  /\ \A i \in (Len(Stream) + 1)..Len(Stream') : Stream'[i].code = code

\* The first n pieces of the stream are read.
Shrinks(n) ==
  /\ n \in 1..Len(Stream)
  /\ Len(Stream') = Len(Stream) - n
  /\ \A i \in 1..Len(Stream') : Stream'[i] = Stream[i + n]

\* The server takes the first command.
ServerTakes ==
  /\ Len(sent) > 0
  /\ Len(sent') = Len(sent) - 1
  /\ \A j \in 1..Len(sent') : sent'[j] = sent[j + 1]

\* A command is sent behind the others.
CommandSent ==
  /\ Len(sent') = Len(sent) + 1
  /\ \A j \in 1..Len(sent) : sent'[j] = sent[j]
  /\ sent'[Len(sent')] = [cmd |-> step, rcpt |-> rcpt, mail |-> mail]

\* The stream is a sequence of pieces.
LEMMA StreamType ==
  ASSUME Types
  PROVE  /\ Stream \in Seq(Piece) /\ Len(Stream) \in Nat
         /\ Len(Stream) = Len(arrived) + Len(coming)
         /\ Len(arrived) \in Nat /\ Len(coming) \in Nat /\ Len(sent) \in Nat
         /\ \A i \in 1..Len(Stream) :
              Stream[i] = IF i <= Len(arrived) THEN arrived[i] ELSE coming[i - Len(arrived)]
<1>1. arrived \in Seq(Piece) /\ coming \in Seq(Piece) /\ sent \in Seq(Sendable)
  BY DEF Types
<1>2. Len(arrived) \in Nat /\ Len(coming) \in Nat /\ Len(sent) \in Nat
  BY <1>1
<1>3. /\ Stream \in Seq(Piece) /\ Len(Stream) = Len(arrived) + Len(coming)
      /\ \A i \in 1..(Len(arrived) + Len(coming)) :
           Stream[i] = IF i <= Len(arrived) THEN arrived[i] ELSE coming[i - Len(arrived)]
  BY <1>1, ConcatProperties DEF Stream
<1> QED BY <1>2, <1>3

\* Moving the head of one sequence to the end of the one before it.
LEMMA JoinedMove ==
  ASSUME NEW S, NEW a \in Seq(S), NEW b \in Seq(S), b # <<>>
  PROVE  /\ Append(a, Head(b)) \in Seq(S) /\ Tail(b) \in Seq(S)
         /\ Append(a, Head(b)) \o Tail(b) = a \o b
<1>1. Head(b) \in S /\ Tail(b) \in Seq(S) /\ Tail(b) = SubSeq(b, 2, Len(b))
  BY HeadTailProperties, TailIsSubSeq
<1>2. Append(a, Head(b)) \in Seq(S) /\ Append(a, Head(b)) = a \o <<Head(b)>>
  BY <1>1, AppendProperties, AppendIsConcat
<1>3. Len(b) \in Nat /\ Len(b) > 0 /\ Head(b) = b[1]
  OBVIOUS
<1>4. b = <<Head(b)>> \o Tail(b)
  <2>1. 1 \in 1..Len(b) /\ Len(b) \in 1..Len(b)
    BY <1>3
  <2>2. SubSeq(b, 1, Len(b)) = <<b[1]>> \o SubSeq(b, 1 + 1, Len(b))
    BY <2>1, SubSeqRecursiveFirst
  <2>3. SubSeq(b, 1, Len(b)) = b
    BY SubSeqFull
  <2> QED BY <1>1, <1>3, <2>2, <2>3
<1>5. <<Head(b)>> \in Seq(S)
  BY <1>1
<1>6. (a \o <<Head(b)>>) \o Tail(b) = a \o (<<Head(b)>> \o Tail(b))
  BY <1>1, <1>5, ConcatAssociative
<1> QED BY <1>1, <1>2, <1>4, <1>6

\* Taking the first n elements off the first of two sequences.
LEMMA JoinedRest ==
  ASSUME NEW S, NEW a \in Seq(S), NEW b \in Seq(S), NEW n \in 1..Len(a)
  PROVE  LET r == SubSeq(a, n + 1, Len(a))
         IN  /\ r \in Seq(S)
             /\ Len(r \o b) = Len(a \o b) - n
             /\ \A i \in 1..Len(r \o b) : (r \o b)[i] = (a \o b)[i + n]
             /\ (a \o b)[n] = a[n]
             /\ n \in 1..Len(a \o b)
<1> DEFINE r == SubSeq(a, n + 1, Len(a))
<1>1. Len(a) \in Nat /\ Len(b) \in Nat /\ n \in Nat
  OBVIOUS
<1>2. \A i \in (n + 1)..Len(a) : a[i] \in S
  BY <1>1
<1>3. /\ r \in Seq(S)
      /\ Len(r) = IF n + 1 <= Len(a) THEN Len(a) - (n + 1) + 1 ELSE 0
      /\ \A i \in 1..(Len(a) - (n + 1) + 1) : r[i] = a[(n + 1) + i - 1]
  BY <1>1, <1>2, SubSeqProperties
<1>4. Len(r) = Len(a) - n /\ \A i \in 1..(Len(a) - n) : r[i] = a[i + n]
  BY <1>1, <1>3
<1> HIDE DEF r
<1>5. /\ Len(r \o b) = Len(r) + Len(b)
      /\ \A i \in 1..(Len(r) + Len(b)) : (r \o b)[i] = IF i <= Len(r) THEN r[i] ELSE b[i - Len(r)]
  BY <1>3, ConcatProperties
<1>6. /\ Len(a \o b) = Len(a) + Len(b)
      /\ \A i \in 1..(Len(a) + Len(b)) : (a \o b)[i] = IF i <= Len(a) THEN a[i] ELSE b[i - Len(a)]
  BY ConcatProperties
<1> DEFINE rb == r \o b
           ab == a \o b
<1>7. /\ Len(rb) = Len(r) + Len(b) /\ Len(ab) = Len(a) + Len(b)
      /\ \A i \in 1..(Len(r) + Len(b)) : rb[i] = IF i <= Len(r) THEN r[i] ELSE b[i - Len(r)]
      /\ \A i \in 1..(Len(a) + Len(b)) : ab[i] = IF i <= Len(a) THEN a[i] ELSE b[i - Len(a)]
  BY <1>5, <1>6
<1> HIDE DEF rb, ab
<1>8. ASSUME NEW i \in 1..Len(rb)
      PROVE  rb[i] = ab[i + n]
  <2>1. i + n \in 1..(Len(a) + Len(b)) /\ i \in 1..(Len(r) + Len(b))
    BY <1>1, <1>4, <1>7
  <2>2. CASE i <= Len(r)
    <3>1. rb[i] = r[i] /\ r[i] = a[i + n] /\ i + n <= Len(a)
      BY <1>1, <1>4, <1>7, <2>1, <2>2
    <3> QED BY <1>7, <2>1, <3>1
  <2>3. CASE i > Len(r)
    <3>1. rb[i] = b[i - Len(r)] /\ i - Len(r) = (i + n) - Len(a) /\ ~(i + n <= Len(a))
      BY <1>1, <1>4, <1>7, <2>1, <2>3
    <3> QED BY <1>7, <2>1, <3>1
  <2> QED BY <2>2, <2>3, <1>1, <1>4
<1>9. Len(rb) = Len(ab) - n /\ ab[n] = a[n] /\ n \in 1..Len(ab)
  BY <1>1, <1>4, <1>7
<1> QED BY <1>3, <1>8, <1>9 DEF r, rb, ab

\* A piece that arrives is in the stream as before.
LEMMA ArriveStream ==
  ASSUME Types, Arrive
  PROVE  /\ Stream' = Stream
         /\ arrived' \in Seq(Piece) /\ coming' \in Seq(Piece)
<1>1. arrived \in Seq(Piece) /\ coming \in Seq(Piece) /\ coming # <<>>
  BY DEF Types, Arrive
<1>2. arrived' = Append(arrived, Head(coming)) /\ coming' = Tail(coming)
  BY DEF Arrive
<1>3. /\ Append(arrived, Head(coming)) \in Seq(Piece) /\ Tail(coming) \in Seq(Piece)
      /\ Append(arrived, Head(coming)) \o Tail(coming) = arrived \o coming
  BY <1>1, JoinedMove
<1> QED BY <1>2, <1>3 DEF Stream

\* The pieces of one reply.
LEMMA PieceTypes ==
  ASSUME NEW code \in Codes, NEW ps \in Pieces(code)
  PROVE  /\ ps \in Seq(Piece) /\ Len(ps) > 0 /\ (~split => Len(ps) = 1)
         /\ \A i \in 1..Len(ps) : ps[i].code = code
<1> DEFINE Fits(x) == x \in Piece /\ x.code = code
<1>1. \A e \in BOOLEAN : Fits([code |-> code, ends |-> e])
  BY DEF Piece
<1>2. \/ \E x : Fits(x) /\ ps = <<x>>
      \/ split /\ \E x, y : Fits(x) /\ Fits(y) /\ ps = <<x, y>>
  BY <1>1, Zenon DEF Pieces
<1>3. ASSUME NEW x, Fits(x), ps = <<x>>
      PROVE  ps \in Seq(Piece) /\ Len(ps) = 1 /\ \A i \in 1..Len(ps) : ps[i].code = code
  BY <1>3
<1>4. ASSUME NEW x, NEW y, Fits(x), Fits(y), ps = <<x, y>>
      PROVE  ps \in Seq(Piece) /\ Len(ps) = 2 /\ \A i \in 1..Len(ps) : ps[i].code = code
  BY <1>4
<1> HIDE DEF Fits
<1>5. ps \in Seq(Piece) /\ (Len(ps) = 1 \/ (split /\ Len(ps) = 2)) /\ \A i \in 1..Len(ps) : ps[i].code = code
  BY <1>2, <1>3, <1>4, Zenon
<1> QED BY <1>5

\* A reply of the server.
LEMMA ReplyStream ==
  ASSUME Types, NEW code \in Codes, NEW ps \in Pieces(code), coming' = coming \o ps, arrived' = arrived
  PROVE  coming' \in Seq(Piece) /\ Grows(code)
<1>1. arrived \in Seq(Piece) /\ coming \in Seq(Piece)
  BY DEF Types
<1>2. /\ ps \in Seq(Piece) /\ Len(ps) > 0 /\ (~split => Len(ps) = 1)
      /\ \A i \in 1..Len(ps) : ps[i].code = code
  BY PieceTypes
<1>3. coming \o ps \in Seq(Piece)
  BY <1>1, <1>2, ConcatProperties
<1>4. Stream \in Seq(Piece) /\ Len(Stream) \in Nat /\ Len(ps) \in Nat
  BY <1>2, StreamType
<1>5. Stream' = Stream \o ps
  BY <1>1, <1>2, ConcatAssociative DEF Stream
<1>6. /\ Len(Stream \o ps) = Len(Stream) + Len(ps)
      /\ \A i \in 1..(Len(Stream) + Len(ps)) :
           (Stream \o ps)[i] = IF i <= Len(Stream) THEN Stream[i] ELSE ps[i - Len(Stream)]
  BY <1>2, <1>4, ConcatProperties
<1> DEFINE longer == Stream \o ps
<1>7. /\ Len(longer) = Len(Stream) + Len(ps)
      /\ \A i \in 1..(Len(Stream) + Len(ps)) :
           longer[i] = IF i <= Len(Stream) THEN Stream[i] ELSE ps[i - Len(Stream)]
  BY <1>6
<1> HIDE DEF longer
<1>8. \A i \in 1..Len(Stream) : longer[i] = Stream[i]
  BY <1>4, <1>7
<1>9. ASSUME NEW i \in (Len(Stream) + 1)..Len(longer)
      PROVE  longer[i].code = code
  <2>1. i - Len(Stream) \in 1..Len(ps) /\ i \in 1..(Len(Stream) + Len(ps)) /\ ~(i <= Len(Stream))
    BY <1>4, <1>7
  <2>2. longer[i] = ps[i - Len(Stream)]
    BY <1>7, <2>1
  <2> QED BY <1>2, <2>1, <2>2
<1>10. Len(longer) > Len(Stream) /\ (~split => Len(longer) = Len(Stream) + 1)
  BY <1>2, <1>4, <1>7
<1>11. Stream' = longer /\ coming' \in Seq(Piece)
  BY <1>3, <1>5 DEF longer
<1> QED BY <1>8, <1>9, <1>10, <1>11, Zenon DEF Grows

\* A read takes the first pieces.
LEMMA ReadStream ==
  ASSUME Types, NEW n \in 1..Len(arrived),
         arrived' = SubSeq(arrived, n + 1, Len(arrived)), coming' = coming
  PROVE  arrived' \in Seq(Piece) /\ Shrinks(n) /\ Stream[n] = arrived[n]
<1>1. arrived \in Seq(Piece) /\ coming \in Seq(Piece)
  BY DEF Types
<1> DEFINE r == SubSeq(arrived, n + 1, Len(arrived))
<1>2. /\ r \in Seq(Piece)
      /\ Len(r \o coming) = Len(arrived \o coming) - n
      /\ \A i \in 1..Len(r \o coming) : (r \o coming)[i] = (arrived \o coming)[i + n]
      /\ (arrived \o coming)[n] = arrived[n]
      /\ n \in 1..Len(arrived \o coming)
  BY <1>1, JoinedRest
<1>3. arrived' = r /\ coming' = coming
  OBVIOUS
<1> HIDE DEF r
<1> QED BY <1>2, <1>3, Zenon DEF Shrinks, Stream

\* The first command is off the sequence of those that wait.
LEMMA TakenCommand ==
  ASSUME Types, sent # <<>>
  PROVE  /\ sent[1] \in Sendable /\ Head(sent) = sent[1]
         /\ sent' = Tail(sent) => sent' \in Seq(Sendable) /\ ServerTakes
<1>1. sent \in Seq(Sendable)
  BY DEF Types
<1>2. /\ Head(sent) \in Sendable /\ Tail(sent) \in Seq(Sendable) /\ Len(Tail(sent)) = Len(sent) - 1
      /\ \A i \in 1..Len(Tail(sent)) : Tail(sent)[i] = sent[i + 1]
  BY <1>1, HeadTailProperties
<1>3. Head(sent) = sent[1] /\ Len(sent) > 0
  BY <1>1
<1> QED BY <1>2, <1>3, Zenon DEF ServerTakes

\* The command of the step joins those that wait.
LEMMA SentCommand ==
  ASSUME Types, step \in Commands
  PROVE  sent' = Append(sent, [cmd |-> step, rcpt |-> rcpt, mail |-> mail])
           => sent' \in Seq(Sendable) /\ CommandSent
<1> DEFINE new == [cmd |-> step, rcpt |-> rcpt, mail |-> mail]
<1>1. sent \in Seq(Sendable) /\ new \in Sendable
  BY DEF Types, Sendable
<1> HIDE DEF new
<1>2. /\ Append(sent, new) \in Seq(Sendable) /\ Len(Append(sent, new)) = Len(sent) + 1
      /\ \A i \in 1..Len(sent) : Append(sent, new)[i] = sent[i]
      /\ Append(sent, new)[Len(sent) + 1] = new
  BY <1>1, AppendProperties
<1> QED BY <1>2, Zenon DEF CommandSent, new

-----------------------------------------------------------------------------
(***************************************************************************)
(* Every step keeps the invariant.                                         *)
(***************************************************************************)

\* A step that fails ends the connection, and the mail in hand is not reported
\* as sent.
LEMMA FailKeeps ==
  ASSUME IInv, step \in Commands, NEW code \in Codes, Fail(code), ~split => code # "250",
         UNCHANGED <<ssl, split, sent, granted, taken>>,
         arrived' \in Seq(Piece), coming' \in Seq(Piece)
  PROVE  IInv'
<1>0. /\ step' = "closed" /\ rcpt' = rcpt /\ phase' = phase /\ mail' = mail
      /\ \/ ret' = ret /\ told' = told
         \/ ret' = [ret EXCEPT ![mail] = "0"] /\ told' = [told EXCEPT ![mail] = code]
  BY DEF Fail, Answer
<1>1. Types /\ Results /\ BodyTaken /\ SentIsWhole
  BY DEF IInv
<1>2. Types'
  BY <1>0, <1>1 DEF Types
<1>3. Results'
  <2>1. ASSUME NEW m \in Mails, m > mail
        PROVE  ret'[m] = "none"
    <3>1. ret[m] = "none" /\ m # mail
      BY <1>1, <2>1 DEF Results, Types, Mails
    <3> QED BY <1>0, <1>1, <3>1 DEF Types
  <2>2. ASSUME NEW m \in Mails, ~split, told'[m] = "250"
        PROVE  ret'[m] = "1"
    <3>1. told[m] = "250" => ret[m] = "1"
      BY <1>1, <2>2 DEF Results
    <3>2. CASE ret' = ret /\ told' = told
      BY <2>2, <3>1, <3>2
    <3>3. CASE ret' = [ret EXCEPT ![mail] = "0"] /\ told' = [told EXCEPT ![mail] = code]
      <4>1. m # mail
        BY <1>1, <2>2, <3>3 DEF Types
      <4> QED BY <1>1, <2>2, <3>1, <3>3, <4>1 DEF Types
    <3> QED BY <1>0, <3>2, <3>3
  <2> QED BY <1>0, <2>1, <2>2 DEF Results, SetUp, Dialogue
<1>4. BodyTaken'
  <2>1. \A m \in Mails : ret'[m] = "1" => ret[m] = "1"
    BY <1>0, <1>1 DEF Types
  <2>2. ASSUME NEW j \in 1..Len(sent)
        PROVE  sent[j].mail \in Mails
    <3>1. sent[j] \in Sendable
      BY <1>1 DEF Types
    <3> QED BY <3>1 DEF Sendable
  <2> QED BY <1>1, <2>1, <2>2 DEF BodyTaken
<1>5. SentIsWhole'
  BY <1>0, <1>1 DEF SentIsWhole, OneByOne, Types
<1>6. DataMarks' /\ RcptsKept' /\ InStep'
  BY <1>0 DEF DataMarks, RcptsKept, Written, InStep, SetUp, Dialogue, Commands
<1> QED BY <1>2, <1>3, <1>4, <1>5, <1>6 DEF IInv

\* A step that only moves pieces on.
LEMMA QuietKeeps ==
  ASSUME IInv, UNCHANGED <<settings, proxyVars, sent, granted, taken, Stream>>,
         arrived' \in Seq(Piece), coming' \in Seq(Piece)
  PROVE  IInv'
<1> USE DEF settings, proxyVars
<1>1. Types' /\ Results' /\ BodyTaken' /\ SentIsWhole'
  BY DEF IInv, Types, Results, BodyTaken, SentIsWhole, OneByOne
<1>2. DataMarks'
  BY DEF IInv, DataMarks, BeforeData, InData, Only354, BodySent, BodyAnswered
<1>3. RcptsKept' /\ InStep'
  BY DEF IInv, RcptsKept, OneByOne, NoError, Written, Pending, Granted, InStep
<1> QED BY <1>1, <1>2, <1>3 DEF IInv

\* A command on its way is one.
LEMMA SentTypes ==
  ASSUME Types, NEW j \in 1..Len(sent)
  PROVE  sent[j].cmd \in Commands /\ sent[j].rcpt \in 1..Rcpts /\ sent[j].mail \in Mails
<1>1. sent[j] \in Sendable
  BY DEF Types
<1> QED BY <1>1 DEF Sendable

\* The codes of replies.
LEMMA AnswerCodes ==
  ASSUME NEW c \in Commands, NEW code \in AnyAnswer(c)
  PROVE  /\ code \in Codes
         /\ code = "354" => c = "DATA"
         /\ c = "BODY" => code \in {"250", "error"}
<1>1. CASE c \in {"GREET", "STARTTLS", "AUTH", "USER", "PASS", "RCPT", "DATA"}
  BY <1>1 DEF AnyAnswer, Codes
<1>2. CASE c \notin {"GREET", "STARTTLS", "AUTH", "USER", "PASS", "RCPT", "DATA"}
  <2>1. AnyAnswer(c) = {"250", "error"}
    BY <1>2 DEF AnyAnswer
  <2> QED BY <1>2, <2>1 DEF Codes
<1> QED BY <1>1, <1>2

\* The server's answers are among them, and 354 needs a recipient.
LEMMA AnswersBound ==
  ASSUME NEW c \in Commands, NEW code \in Answers(c)
  PROVE  code \in AnyAnswer(c) /\ (c = "DATA" /\ code = "354" => granted # {})
<1>1. CASE c \in {"GREET", "STARTTLS"}
  BY <1>1 DEF AnyAnswer, Answers
<1>2. CASE c \in {"AUTH", "USER"}
  BY <1>2 DEF AnyAnswer, Answers
<1>3. CASE c = "PASS"
  BY <1>3 DEF AnyAnswer, Answers
<1>4. CASE c = "RCPT"
  <2>1. Answers(c) = IF from THEN {"250", "251", "error"} ELSE {"error"}
    BY <1>4 DEF Answers
  <2>2. AnyAnswer(c) = {"250", "251", "error"}
    BY <1>4 DEF AnyAnswer
  <2> QED BY <1>4, <2>1, <2>2
<1>5. CASE c = "DATA"
  BY <1>5 DEF AnyAnswer, Answers
<1>6. CASE c \notin {"GREET", "STARTTLS", "AUTH", "USER", "PASS", "RCPT", "DATA"}
  BY <1>6 DEF AnyAnswer, Answers
<1> QED BY <1>1, <1>2, <1>3, <1>4, <1>5, <1>6

\* The server answers command h with code.
Served(h, code) ==
  /\ h = sent[1] /\ h \in Sendable
  /\ code \in Codes /\ code \in AnyAnswer(h.cmd)
  /\ h.cmd = "DATA" /\ code = "354" => granted # {}
  /\ Grows(code) /\ ServerTakes
  /\ h.cmd \in {"RSET", "MAIL"} => granted' = {}
  /\ h.cmd = "RCPT" => granted' = (IF code = "error" THEN granted ELSE granted \cup {h.rcpt})
  /\ h.cmd \notin {"RSET", "MAIL", "RCPT"} => granted' = granted
  /\ h.cmd = "BODY" /\ code = "250" => taken' = [taken EXCEPT ![h.mail] = granted]
  /\ ~(h.cmd = "BODY" /\ code = "250") => taken' = taken
  /\ UNCHANGED <<settings, proxyVars>>

\* What Serve does, in the terms of the stream.
LEMMA ServeEffect ==
  ASSUME Types, Serve
  PROVE  /\ sent' \in Seq(Sendable) /\ arrived' \in Seq(Piece) /\ coming' \in Seq(Piece)
         /\ \E code \in Codes : Served(sent[1], code)
<1> DEFINE h == sent[1]
<1>1. sent # <<>> /\ sent' = Tail(sent) /\ UNCHANGED <<settings, proxyVars>> /\ arrived' = arrived
  BY DEF Serve
<1>2. h \in Sendable /\ Head(sent) = h /\ sent' \in Seq(Sendable) /\ ServerTakes
  BY <1>1, TakenCommand
<1> HIDE DEF h
<1>3. PICK code \in Answers(h.cmd) :
        /\ \E ps \in Pieces(code) : coming' = coming \o ps
        /\ granted' = CASE h.cmd \in {"RSET", "MAIL"} -> {}
                        [] h.cmd = "RCPT" /\ code # "error" -> granted \cup {h.rcpt}
                        [] OTHER -> granted
        /\ taken' = IF h.cmd = "BODY" /\ code = "250"
                      THEN [taken EXCEPT ![h.mail] = granted] ELSE taken
  BY <1>2 DEF Serve
<1>4. /\ code \in Codes /\ code \in AnyAnswer(h.cmd)
      /\ h.cmd = "DATA" /\ code = "354" => granted # {}
  BY <1>2, AnswersBound, AnswerCodes DEF Sendable
<1>5. /\ h.cmd \in {"RSET", "MAIL"} => granted' = {}
      /\ h.cmd = "RCPT" => granted' = (IF code = "error" THEN granted ELSE granted \cup {h.rcpt})
      /\ h.cmd \notin {"RSET", "MAIL", "RCPT"} => granted' = granted
      /\ h.cmd = "BODY" /\ code = "250" => taken' = [taken EXCEPT ![h.mail] = granted]
      /\ ~(h.cmd = "BODY" /\ code = "250") => taken' = taken
  BY <1>3
<1>6. PICK ps \in Pieces(code) : coming' = coming \o ps
  BY <1>3
<1>7. coming' \in Seq(Piece) /\ Grows(code)
  BY <1>1, <1>4, <1>6, ReplyStream
<1>8. Served(h, code)
  BY <1>1, <1>2, <1>4, <1>5, <1>7 DEF Served, h
<1>9. arrived' \in Seq(Piece)
  BY <1>1 DEF Types
<1> QED BY <1>2, <1>4, <1>7, <1>8, <1>9 DEF h

\* A reply to a command before DATA is no 354.
LEMMA ServeBeforeData ==
  ASSUME Types, NEW h, NEW code \in Codes, Served(h, code), BeforeData
  PROVE  BeforeData'
<1>1. /\ h = sent[1] /\ h \in Sendable /\ code \in AnyAnswer(h.cmd) /\ Grows(code) /\ ServerTakes
  BY DEF Served
<1>2. Len(sent) \in Nat /\ Len(Stream) \in Nat /\ Len(sent) > 0
  BY <1>1, StreamType DEF ServerTakes
<1>3. code # "354"
  BY <1>1, <1>2, AnswerCodes DEF BeforeData, Sendable
<1>4. ASSUME NEW i \in 1..Len(Stream')
      PROVE  Stream'[i].code # "354"
  BY <1>1, <1>2, <1>3 DEF BeforeData, Grows
<1>5. ASSUME NEW j \in 1..Len(sent')
      PROVE  sent'[j].cmd \notin {"DATA", "BODY"}
  BY <1>1, <1>2 DEF BeforeData, ServerTakes
<1> QED BY <1>4, <1>5 DEF BeforeData

\* The reply 354 is to DATA, the last command on its way, and for a mail that
\* has a recipient.
LEMMA ServeInData ==
  ASSUME Types, NEW h, NEW code \in Codes, Served(h, code), InData, sent' \in Seq(Sendable)
  PROVE  InData'
<1>1. /\ h = sent[1] /\ h \in Sendable /\ code \in AnyAnswer(h.cmd) /\ Grows(code) /\ ServerTakes
      /\ h.cmd = "DATA" /\ code = "354" => granted # {} /\ granted' = granted
  BY DEF Served
<1>2. Len(sent) \in Nat /\ Len(Stream) \in Nat /\ Len(sent) > 0 /\ sent # <<>>
  BY <1>1, StreamType DEF ServerTakes
<1>3. \A i \in 1..Len(Stream) : Stream[i].code # "354"
  BY <1>2 DEF InData
<1>4. h.cmd # "BODY" /\ (h.cmd = "DATA" => Len(sent) = 1)
  <2>1. \A j \in 1..Len(sent) : sent[j].cmd # "BODY" /\ (sent[j].cmd = "DATA" => j = Len(sent))
    BY DEF InData
  <2>2. 1 \in 1..Len(sent)
    BY <1>2
  <2> QED BY <1>1, <2>1, <2>2, Zenon
<1>5. ASSUME NEW j \in 1..Len(sent')
      PROVE  sent'[j].cmd # "BODY" /\ (sent'[j].cmd = "DATA" => j = Len(sent'))
  BY <1>1, <1>2 DEF InData, ServerTakes
<1>6. ASSUME NEW i \in 1..Len(Stream'), Stream'[i].code = "354"
      PROVE  sent' = <<>> /\ granted' # {} /\ \A k \in i..Len(Stream') : Stream'[k].code = "354"
  <2>1. i > Len(Stream) /\ code = "354"
    BY <1>1, <1>2, <1>3, <1>6 DEF Grows
  <2>2. h.cmd = "DATA"
    BY <1>1, <2>1, AnswerCodes DEF Sendable
  <2>3. Len(sent) = 1 /\ ServerTakes
    BY <1>1, <1>4, <2>2, Zenon
  <2>4. sent' = <<>>
    BY <2>3 DEF ServerTakes
  <2>5. \A k \in i..Len(Stream') : Stream'[k].code = "354"
    BY <1>1, <1>2, <2>1 DEF Grows
  <2> QED BY <1>1, <2>1, <2>2, <2>4, <2>5
<1> QED BY <1>5, <1>6 DEF InData

\* The reply to the text of the mail ends its dialogue.
LEMMA ServeBody ==
  ASSUME Types, NEW h, NEW code \in Codes, Served(h, code), BodySent, sent' \in Seq(Sendable)
  PROVE  BodyAnswered' /\ granted' = granted
<1>1. /\ h = sent[1] /\ h \in Sendable /\ code \in AnyAnswer(h.cmd) /\ Grows(code) /\ ServerTakes
      /\ h.cmd = "BODY" /\ h.mail = mail /\ mail' = mail /\ mail \in Mails
  BY DEF Served, BodySent, proxyVars, Types
<1>2. granted' = granted /\ code \in {"250", "error"}
  BY <1>1, AnswerCodes DEF Served, Commands, Dialogue
<1>3. code = "250" => taken'[mail] = granted
  BY <1>1 DEF Served, Types
<1>4. Len(sent') = 0 /\ Len(Stream) \in Nat
  BY <1>1, StreamType DEF BodySent, ServerTakes
<1>5. sent' = <<>>
  BY <1>4
<1>6. \A i \in 1..Len(Stream) : Stream'[i].code = "354"
  BY <1>1 DEF BodySent, Only354, Grows
<1>7. ASSUME NEW i \in 1..Len(Stream')
      PROVE  /\ Stream'[i].code \in {"354", code}
             /\ Stream'[i].code = code => \A k \in i..Len(Stream') : Stream'[k].code = code
  BY <1>1, <1>2, <1>4, <1>6 DEF Grows
<1> QED BY <1>1, <1>2, <1>3, <1>5, <1>7 DEF BodyAnswered

\* A reply that is no error leaves every recipient where the server has it or
\* is about to have it.
LEMMA ServeRcpts ==
  ASSUME Types, NEW h, NEW code \in Codes, Served(h, code), RcptsKept
  PROVE  RcptsKept'
<1>1. /\ h = sent[1] /\ h \in Sendable /\ Grows(code) /\ ServerTakes
      /\ ssl' = ssl /\ split' = split /\ step' = step /\ rcpt' = rcpt /\ phase' = phase
  BY DEF Served, settings, proxyVars
<1>2. Len(sent) \in Nat /\ Len(Stream) \in Nat /\ Len(sent) > 0
  BY <1>1, StreamType DEF ServerTakes
<1>3. SUFFICES ASSUME OneByOne', NoError', NEW i \in 1..Rcpts, Written(i)'
               PROVE  Pending(i)' \/ Granted(i)'
  BY DEF RcptsKept
<1>4. OneByOne /\ Written(i)
  BY <1>1, <1>3 DEF OneByOne, Written
<1>5. NoError
  <2>1. ASSUME NEW k \in 1..Len(Stream)
        PROVE  Stream[k].code # "error"
    <3>1. k \in 1..Len(Stream') /\ Stream'[k] = Stream[k]
      BY <1>1, <1>2 DEF Grows
    <3> QED BY <1>3, <3>1 DEF NoError
  <2> QED BY <2>1 DEF NoError
<1>6. code # "error"
  <2>1. Len(Stream') \in (Len(Stream) + 1)..Len(Stream')
    BY <1>1, <1>2 DEF Grows
  <2>2. Len(Stream') \in 1..Len(Stream') /\ Stream'[Len(Stream')].code = code
    BY <1>1, <1>2, <2>1 DEF Grows
  <2> QED BY <1>3, <2>2 DEF NoError
<1>7. Len(sent') = Len(sent) - 1 /\ \A k \in 1..Len(sent') : sent'[k] = sent[k + 1]
  BY <1>1 DEF ServerTakes
<1>8. CASE Granted(i)
  <2>1. \A k \in 1..Len(sent) : sent[k].cmd \notin {"RSET", "MAIL"}
    BY <1>8 DEF Granted
  <2>2. h.cmd \notin {"RSET", "MAIL"}
    BY <1>1, <1>2, <2>1
  <2>3. i \in granted'
    BY <1>6, <1>8, <2>2 DEF Granted, Served
  <2>4. \A k \in 1..Len(sent') : sent'[k].cmd \notin {"RSET", "MAIL"}
    BY <1>2, <1>7, <2>1
  <2> QED BY <2>3, <2>4 DEF Granted
<1>9. CASE Pending(i)
  <2>1. PICK j \in 1..Len(sent) :
          /\ sent[j].cmd = "RCPT" /\ sent[j].rcpt = i
          /\ \A k \in j..Len(sent) : sent[k].cmd \notin {"RSET", "MAIL"}
    BY <1>9 DEF Pending
  <2>2. CASE j = 1
    <3>1. h.cmd = "RCPT" /\ h.rcpt = i
      BY <1>1, <2>1, <2>2
    <3>2. i \in granted'
      BY <1>6, <3>1 DEF Served
    <3>3. \A k \in 1..Len(sent') : sent'[k].cmd \notin {"RSET", "MAIL"}
      BY <1>2, <1>7, <2>1, <2>2
    <3> QED BY <3>2, <3>3 DEF Granted
  <2>3. CASE j # 1
    <3>1. j - 1 \in 1..Len(sent') /\ sent'[j - 1] = sent[j]
      BY <1>2, <1>7, <2>1, <2>3
    <3>2. \A k \in (j - 1)..Len(sent') : sent'[k].cmd \notin {"RSET", "MAIL"}
      BY <1>2, <1>7, <2>1, <2>3
    <3> QED BY <2>1, <3>1, <3>2 DEF Pending
  <2> QED BY <2>2, <2>3
<1>10. Pending(i) \/ Granted(i)
  BY <1>3, <1>4, <1>5 DEF RcptsKept
<1> QED BY <1>8, <1>9, <1>10

\* The server answers in order, and takes no mail twice.
LEMMA ServeKeeps ==
  ASSUME IInv, Serve
  PROVE  IInv'
<1>1. /\ Types /\ Results /\ BodyTaken /\ DataMarks /\ RcptsKept /\ InStep /\ SentIsWhole
      /\ sent' \in Seq(Sendable) /\ arrived' \in Seq(Piece) /\ coming' \in Seq(Piece)
  BY ServeEffect DEF IInv
<1>2. PICK code \in Codes : Served(sent[1], code)
  BY <1>1, ServeEffect
<1> DEFINE h == sent[1]
<1>3. /\ h \in Sendable /\ Grows(code) /\ ServerTakes /\ code \in AnyAnswer(h.cmd)
      /\ ssl' = ssl /\ split' = split /\ step' = step /\ rcpt' = rcpt /\ phase' = phase
      /\ mail' = mail /\ ret' = ret /\ told' = told
  BY <1>2 DEF Served, settings, proxyVars
<1>4. Len(sent) \in Nat /\ Len(Stream) \in Nat /\ Len(sent) > 0 /\ sent # <<>> /\ Len(sent') = Len(sent) - 1
  BY <1>1, <1>3, StreamType DEF ServerTakes
<1>5. Types'
  <2>1. granted' \in SUBSET (1..Rcpts)
    <3>1. granted \subseteq 1..Rcpts /\ h.rcpt \in 1..Rcpts
      BY <1>1, <1>3 DEF Types, Sendable
    <3>2. granted' = {} \/ granted' = granted \/ granted' = granted \cup {h.rcpt}
      BY <1>2 DEF Served
    <3> QED BY <3>1, <3>2
  <2>2. taken' \in [Mails -> SUBSET (1..Rcpts)]
    BY <1>1, <1>2, <1>3 DEF Served, Types, Sendable
  <2> QED BY <1>1, <1>3, <2>1, <2>2 DEF Types
<1>6. Results'
  BY <1>1, <1>3 DEF Results
<1>7. BodyTaken'
  <2>1. ASSUME NEW j \in 1..Len(sent'), sent'[j].cmd = "BODY"
        PROVE  ret'[sent'[j].mail] # "1"
    <3>1. j + 1 \in 1..Len(sent) /\ sent'[j] = sent[j + 1]
      BY <1>3, <1>4 DEF ServerTakes
    <3> QED BY <1>1, <1>3, <2>1, <3>1 DEF BodyTaken
  <2> QED BY <2>1 DEF BodyTaken
<1>8. DataMarks'
  <2>1. BeforeData => BeforeData'
    BY <1>1, <1>2, ServeBeforeData
  <2>2. InData => InData'
    BY <1>1, <1>2, ServeInData
  <2>3. BodySent => BodyAnswered' /\ granted' = granted
    BY <1>1, <1>2, ServeBody
  <2>4. ~BodyAnswered
    BY <1>4 DEF BodyAnswered
  <2>5. step = "BODY" => granted # {} /\ phase = "expect" /\ BodySent
    BY <1>1, <1>4, <2>4 DEF DataMarks, Types
  <2> QED BY <1>1, <1>3, <2>1, <2>2, <2>3, <2>5 DEF DataMarks
<1>9. RcptsKept'
  BY <1>1, <1>2, ServeRcpts
<1>10. InStep'
  <2>1. SUFFICES ASSUME ~split
                 PROVE  /\ ~(step = "idle" \/ (step \in Commands /\ phase = "write"))
                        /\ step \in Commands /\ phase = "expect" =>
                             sent' = <<>> /\ Len(Stream') = 1 /\ Stream'[1].code \in AnyAnswer(step)
    BY <1>3 DEF InStep
  <2>2. ~(step = "idle" \/ (step \in Commands /\ phase = "write"))
    BY <1>1, <1>4, <2>1 DEF InStep
  <2>3. ASSUME step \in Commands, phase = "expect"
        PROVE  sent' = <<>> /\ Len(Stream') = 1 /\ Stream'[1].code \in AnyAnswer(step)
    <3>1. Len(sent) = 1 /\ h.cmd = step /\ Stream = <<>>
      BY <1>1, <1>4, <2>1, <2>3 DEF InStep
    <3>2. Len(sent') = 0 /\ Len(Stream) = 0
      BY <1>4, <3>1
    <3>3. Len(Stream') = 1 /\ Stream'[1].code = code
      BY <1>3, <2>1, <3>2 DEF Grows
    <3> QED BY <1>1, <1>3, <3>1, <3>2, <3>3
  <2> QED BY <2>2, <2>3
<1>11. SentIsWhole'
  <2>1. ASSUME NEW m \in Mails, ret[m] = "1"
        PROVE  taken'[m] = taken[m]
    <3>1. h.cmd = "BODY" => h.mail # m
      BY <1>1, <1>4, <2>1 DEF BodyTaken
    <3> QED BY <1>1, <1>2, <3>1 DEF Served, Types
  <2> QED BY <1>1, <1>3, <2>1 DEF SentIsWhole, OneByOne
<1> QED BY <1>5, <1>6, <1>7, <1>8, <1>9, <1>10, <1>11 DEF IInv

\* A command that is written leaves the earlier recipients where they are, and
\* its own is on its way.
LEMMA WriteKeeps ==
  ASSUME IInv, phase = "write", step \in Commands, phase' = "expect",
         CommandSent, sent' \in Seq(Sendable),
         UNCHANGED <<settings, step, rcpt, mail, noops, ret, told, arrived, coming, serverVars>>
  PROVE  IInv'
<1>1. /\ Types /\ Results /\ BodyTaken /\ DataMarks /\ RcptsKept /\ InStep /\ SentIsWhole
      /\ Stream' = Stream
  BY DEF IInv, Stream
<1> DEFINE new == [cmd |-> step, rcpt |-> rcpt, mail |-> mail]
<1>2. /\ ssl' = ssl /\ split' = split /\ step' = step /\ rcpt' = rcpt /\ mail' = mail
      /\ ret' = ret /\ told' = told /\ granted' = granted /\ taken' = taken
      /\ arrived' = arrived /\ coming' = coming
  BY DEF settings, serverVars
<1>3. /\ Len(sent) \in Nat /\ Len(sent') = Len(sent) + 1 /\ sent'[Len(sent')] = new
      /\ \A j \in 1..Len(sent) : sent'[j] = sent[j]
  BY <1>1, StreamType DEF CommandSent
<1>4. new.cmd = step /\ new.rcpt = rcpt /\ new.mail = mail
  OBVIOUS
<1> HIDE DEF new
<1>5. Types'
  BY <1>1, <1>2 DEF Types
<1>6. Results' /\ SentIsWhole'
  BY <1>1, <1>2 DEF Results, SentIsWhole, OneByOne
<1>7. BodyTaken'
  <2>1. ASSUME NEW j \in 1..Len(sent'), sent'[j].cmd = "BODY"
        PROVE  ret[sent'[j].mail] # "1"
    <3>1. CASE j = Len(sent')
      <4>1. step = "BODY" /\ sent'[j].mail = mail
        BY <1>3, <1>4, <2>1, <3>1
      <4>2. ret[mail] = "none"
        BY <1>1, <4>1 DEF Results, Dialogue
      <4> QED BY <4>1, <4>2
    <3>2. CASE j # Len(sent')
      <4>1. j \in 1..Len(sent) /\ sent'[j] = sent[j]
        BY <1>3, <3>2
      <4> QED BY <1>1, <2>1, <4>1 DEF BodyTaken
    <3> QED BY <3>1, <3>2
  <2> QED BY <1>2, <2>1 DEF BodyTaken
<1>8. DataMarks'
  <2>1. CASE step \notin {"DATA", "BODY"}
    <3>1. BeforeData
      BY <1>1, <2>1 DEF DataMarks, Commands, Dialogue
    <3>2. ASSUME NEW j \in 1..Len(sent')
          PROVE  sent'[j].cmd \notin {"DATA", "BODY"}
      <4>1. j \in 1..Len(sent) \/ j = Len(sent')
        BY <1>3
      <4> QED BY <1>3, <1>4, <2>1, <3>1, <4>1 DEF BeforeData
    <3>3. BeforeData'
      BY <1>1, <3>1, <3>2 DEF BeforeData
    <3> QED BY <1>2, <2>1, <3>3 DEF DataMarks
  <2>2. CASE step = "DATA"
    <3>1. BeforeData
      BY <1>1, <2>2 DEF DataMarks
    <3>2. ASSUME NEW j \in 1..Len(sent')
          PROVE  sent'[j].cmd # "BODY" /\ (sent'[j].cmd = "DATA" => j = Len(sent'))
      <4>1. j \in 1..Len(sent) \/ j = Len(sent')
        BY <1>3
      <4> QED BY <1>3, <1>4, <2>2, <3>1, <4>1 DEF BeforeData
    <3>3. InData'
      BY <1>1, <3>1, <3>2 DEF BeforeData, InData
    <3> QED BY <1>2, <2>2, <3>3 DEF DataMarks, SetUp
  <2>3. CASE step = "BODY"
    <3>1. granted # {} /\ sent = <<>> /\ Only354
      BY <1>1, <2>3 DEF DataMarks
    <3>2. Len(sent') = 1 /\ sent'[1] = new
      BY <1>3, <3>1
    <3>3. BodySent'
      BY <1>1, <1>2, <1>4, <2>3, <3>1, <3>2 DEF BodySent, Only354
    <3> QED BY <1>2, <2>3, <3>1, <3>3 DEF DataMarks, SetUp
  <2> QED BY <2>1, <2>2, <2>3
<1>9. RcptsKept'
  <2>1. SUFFICES ASSUME OneByOne', NoError', NEW i \in 1..Rcpts, Written(i)'
                 PROVE  Pending(i)' \/ Granted(i)'
    BY DEF RcptsKept
  <2>2. OneByOne /\ NoError
    BY <1>1, <1>2, <2>1 DEF OneByOne, NoError
  <2>3. step \notin {"RSET", "MAIL"}
    BY <1>2, <2>1 DEF Written
  <2>4. \A k \in 1..Len(sent') : k \in 1..Len(sent) \/ k = Len(sent')
    BY <1>3
  <2>5. CASE step = "RCPT" /\ i = rcpt
    <3>1. Len(sent') \in 1..Len(sent') /\ \A k \in Len(sent')..Len(sent') : k = Len(sent')
      BY <1>3
    <3>2. sent'[Len(sent')].cmd = "RCPT" /\ sent'[Len(sent')].rcpt = i
      BY <1>3, <1>4, <2>5
    <3>3. \A k \in Len(sent')..Len(sent') : sent'[k].cmd \notin {"RSET", "MAIL"}
      BY <3>1, <3>2
    <3> QED BY <3>1, <3>2, <3>3 DEF Pending
  <2>6. CASE Written(i)
    <3>1. Pending(i) \/ Granted(i)
      BY <1>1, <2>2, <2>6 DEF RcptsKept
    <3>2. CASE Granted(i)
      <4>1. \A k \in 1..Len(sent') : sent'[k].cmd \notin {"RSET", "MAIL"}
        BY <1>3, <1>4, <2>3, <2>4, <3>2 DEF Granted
      <4> QED BY <1>2, <3>2, <4>1 DEF Granted
    <3>3. CASE Pending(i)
      <4>1. PICK j \in 1..Len(sent) :
              /\ sent[j].cmd = "RCPT" /\ sent[j].rcpt = i
              /\ \A k \in j..Len(sent) : sent[k].cmd \notin {"RSET", "MAIL"}
        BY <3>3 DEF Pending
      <4>2. j \in 1..Len(sent') /\ sent'[j] = sent[j]
        BY <1>3
      <4>3. ASSUME NEW k \in j..Len(sent')
            PROVE  sent'[k].cmd \notin {"RSET", "MAIL"}
        <5>1. (k \in j..Len(sent) /\ k \in 1..Len(sent)) \/ k = Len(sent')
          BY <1>3
        <5> QED BY <1>3, <1>4, <2>3, <4>1, <5>1
      <4> QED BY <4>1, <4>2, <4>3 DEF Pending
    <3> QED BY <3>1, <3>2, <3>3
  <2>7. Written(i) \/ (step = "RCPT" /\ i = rcpt)
    BY <1>2, <2>1 DEF Written
  <2> QED BY <2>5, <2>6, <2>7
<1>10. InStep'
  <2>1. SUFFICES ASSUME ~split
                 PROVE  Len(sent') = 1 /\ sent'[1].cmd = step /\ Stream' = <<>>
    BY <1>2 DEF InStep, Commands, SetUp, Dialogue
  <2>2. sent = <<>> /\ Stream = <<>>
    BY <1>1, <2>1 DEF InStep
  <2> QED BY <1>1, <1>3, <1>4, <2>2
<1> QED BY <1>5, <1>6, <1>7, <1>8, <1>9, <1>10 DEF IInv

\* The replies the steps of a mail go on with.
LEMMA AcceptedCodes ==
  ASSUME step \in Commands, NEW code, Accepts(code)
  PROVE  /\ code # "error"
         /\ step = "DATA" => code = "354"
         /\ step = "BODY" => code = "250"
<1>1. CASE step \in {"GREET", "STARTTLS"}
  BY <1>1 DEF Accepts, Expected
<1>2. CASE step \in {"AUTH", "USER"}
  BY <1>2 DEF Accepts, Expected
<1>3. CASE step \in {"PASS", "DATA"}
  BY <1>3 DEF Accepts, Expected
<1>4. CASE step \notin {"GREET", "STARTTLS", "AUTH", "USER", "PASS", "DATA"}
  <2>1. Expected = "250"
    BY <1>4 DEF Expected
  <2> QED BY <1>4, <2>1 DEF Accepts
<1> QED BY <1>1, <1>2, <1>3, <1>4

\* A reply to the command of the step that does not let it go on is no 250.
LEMMA RefusedCodes ==
  ASSUME step \in Commands, NEW code \in AnyAnswer(step), ~Accepts(code)
  PROVE  code # "250"
<1>1. CASE step \in {"GREET", "STARTTLS", "AUTH", "USER", "PASS", "DATA"}
  BY <1>1 DEF AnyAnswer
<1>2. CASE step \notin {"GREET", "STARTTLS", "AUTH", "USER", "PASS", "DATA"}
  <2>1. Expected = "250"
    BY <1>2 DEF Expected
  <2> QED BY <2>1 DEF Accepts
<1> QED BY <1>1, <1>2

\* smtpExpect reads the first n pieces of the stream.
Reads(n) ==
  /\ phase = "expect" /\ step \in Commands
  /\ Shrinks(n)
  /\ (Encrypted => n = 1)
  /\ UNCHANGED <<settings, sent, serverVars>>
  /\ arrived' \in Seq(Piece) /\ coming' \in Seq(Piece)

\* Replies in one piece: the read takes the whole stream, the answer to the
\* command of the step.
LEMMA ReadAll ==
  ASSUME Types, InStep, NEW n, Reads(n), ~split
  PROVE  sent = <<>> /\ n = 1 /\ Stream' = <<>> /\ Stream[n].code \in AnyAnswer(step)
<1>1. Len(Stream) \in Nat /\ n \in 1..Len(Stream) /\ Len(Stream') = Len(Stream) - n
  BY StreamType DEF Reads, Shrinks
<1>2. Stream # <<>>
  BY <1>1
<1>3. sent = <<>> /\ Len(Stream) = 1 /\ Stream[1].code \in AnyAnswer(step)
  BY <1>2 DEF InStep, Reads
<1>4. n = 1 /\ Len(Stream') = 0
  BY <1>1, <1>3
<1>5. Stream' \in Seq(Piece)
  BY ConcatProperties DEF Reads, Stream
<1> QED BY <1>3, <1>4, <1>5

\* The next step of a dialogue: a reply that was accepted is no refusal.
LEMMA AdvanceKeeps ==
  ASSUME IInv, NEW n, Reads(n), Accepts(Stream[n].code), step \notin {"BODY", "NOOP"}, Advance
  PROVE  IInv'
<1>1. /\ Types /\ Results /\ BodyTaken /\ DataMarks /\ RcptsKept /\ InStep /\ SentIsWhole
  BY DEF IInv
<1>2. /\ phase = "expect" /\ step \in Commands /\ Shrinks(n) /\ (Encrypted => n = 1)
      /\ ssl' = ssl /\ split' = split /\ sent' = sent /\ granted' = granted /\ taken' = taken
      /\ arrived' \in Seq(Piece) /\ coming' \in Seq(Piece)
  BY DEF Reads, settings, serverVars
<1>3. /\ phase' = "write" /\ mail' = mail /\ ret' = ret /\ told' = told
      /\ step' \in (SetUp \cup Dialogue) \ {"RSET"}
      /\ step = "DATA" => step' = "BODY"
      /\ step # "DATA" => step' # "BODY"
  BY DEF Advance, SetUp, Dialogue
<1>4. Len(Stream) \in Nat /\ n \in 1..Len(Stream) /\ Len(Stream') = Len(Stream) - n
      /\ \A i \in 1..Len(Stream') : Stream'[i] = Stream[i + n]
  BY <1>1, <1>2, StreamType DEF Shrinks
<1>5. Stream[n].code # "error" /\ (step = "DATA" => Stream[n].code = "354")
  BY <1>2, AcceptedCodes
<1>6. Types'
  <2>1. rcpt' \in 1..Rcpts
    BY <1>1, SessionAssumption DEF Advance, Types
  <2> QED BY <1>1, <1>2, <1>3, <2>1 DEF Types, Commands
<1>7. Results'
  <2>1. step \in SetUp \cup Dialogue
    BY <1>2 DEF Commands
  <2> QED BY <1>1, <1>2, <1>3, <2>1 DEF Results
<1>8. BodyTaken' /\ SentIsWhole'
  BY <1>1, <1>2, <1>3 DEF BodyTaken, SentIsWhole, OneByOne
<1>9. DataMarks'
  <2>1. CASE step = "DATA"
    <3>1. InData
      BY <1>1, <1>2, <2>1 DEF DataMarks
    <3>2. sent = <<>> /\ granted # {} /\ \A k \in n..Len(Stream) : Stream[k].code = "354"
      BY <1>4, <1>5, <2>1, <3>1 DEF InData
    <3>3. \A i \in 1..Len(Stream') : Stream'[i].code = "354"
      BY <1>4, <3>2
    <3> QED BY <1>2, <1>3, <2>1, <3>2, <3>3 DEF DataMarks, Only354, SetUp
  <2>2. CASE step # "DATA"
    <3>1. BeforeData
      BY <1>1, <1>2, <2>2 DEF DataMarks, Commands, Dialogue
    <3>2. \A i \in 1..Len(Stream') : Stream'[i].code # "354"
      BY <1>4, <3>1 DEF BeforeData
    <3>3. BeforeData'
      BY <1>2, <3>1, <3>2 DEF BeforeData
    <3> QED BY <1>3, <2>2, <3>3 DEF DataMarks
  <2> QED BY <2>1, <2>2
<1>10. RcptsKept'
  <2>1. SUFFICES ASSUME OneByOne', NoError', NEW i \in 1..Rcpts, Written(i)'
                 PROVE  Pending(i)' \/ Granted(i)'
    BY DEF RcptsKept
  <2>2. OneByOne
    BY <1>2, <2>1 DEF OneByOne
  <2>3. step \in {"RCPT", "DATA"}
    BY <1>1, <1>3, <2>1, SessionAssumption DEF Advance, Written, Types
  <2>4. Written(i)
    BY <1>1, <1>2, <1>3, <2>1, <2>3 DEF Advance, Written, Types
  <2>5. n = 1
    <3>1. CASE split
      <4>1. ssl \in {"SSL", "TLS"}
        BY <1>1, <2>2, <3>1 DEF OneByOne, Types
      <4> QED BY <1>2, <2>3, <4>1 DEF Encrypted
    <3>2. CASE ~split
      BY <1>1, <3>2, ReadAll
    <3> QED BY <3>1, <3>2
  <2>6. ASSUME NEW k \in 1..Len(Stream)
        PROVE  Stream[k].code # "error"
    <3>1. CASE k = 1
      BY <1>5, <2>5, <3>1
    <3>2. CASE k # 1
      <4>1. k - 1 \in 1..Len(Stream') /\ (k - 1) + n = k
        BY <1>4, <2>5, <3>2
      <4>2. Stream'[k - 1] = Stream[k]
        BY <1>4, <4>1
      <4> QED BY <2>1, <4>1, <4>2 DEF NoError
    <3> QED BY <3>1, <3>2
  <2>7. Pending(i) \/ Granted(i)
    BY <1>1, <2>2, <2>4, <2>6 DEF RcptsKept, NoError
  <2> QED BY <1>2, <2>7 DEF Pending, Granted
<1>11. InStep'
  <2>1. ~split => sent = <<>> /\ Stream' = <<>>
    BY <1>1, ReadAll
  <2> QED BY <1>2, <1>3, <2>1 DEF InStep
<1> QED BY <1>6, <1>7, <1>8, <1>9, <1>10, <1>11 DEF IInv

\* The last step of a mail: the reply to its text is read, and it is the
\* server's word for the recipients it had.
LEMMA FinishMailKeeps ==
  ASSUME IInv, NEW n, Reads(n), Accepts(Stream[n].code), step = "BODY", Finish(Stream[n].code)
  PROVE  IInv'
<1>1. /\ Types /\ Results /\ BodyTaken /\ DataMarks /\ RcptsKept /\ InStep /\ SentIsWhole
  BY DEF IInv
<1>2. /\ phase = "expect" /\ step \in Commands /\ Shrinks(n)
      /\ ssl' = ssl /\ split' = split /\ sent' = sent /\ granted' = granted /\ taken' = taken
      /\ arrived' \in Seq(Piece) /\ coming' \in Seq(Piece)
  BY DEF Reads, settings, serverVars
<1>3. Stream[n].code = "250"
  BY <1>2, AcceptedCodes
<1>4. /\ step' \in {"idle", "closed"} /\ phase' = phase /\ mail' = mail /\ rcpt' = rcpt
      /\ ret' = [ret EXCEPT ![mail] = "1"] /\ told' = [told EXCEPT ![mail] = "250"]
  BY <1>3 DEF Finish, Answer
<1>5. Len(Stream) \in Nat /\ n \in 1..Len(Stream) /\ Len(Stream') = Len(Stream) - n
      /\ \A i \in 1..Len(Stream') : Stream'[i] = Stream[i + n]
  BY <1>1, <1>2, StreamType DEF Shrinks
<1>6. BodyAnswered /\ granted # {}
  <2>1. ~BodySent
    BY <1>3, <1>5 DEF BodySent, Only354
  <2> QED BY <1>1, <1>2, <2>1 DEF DataMarks
<1>7. PICK c \in {"250", "error"} :
        /\ c = "250" => taken[mail] = granted
        /\ \A i \in 1..Len(Stream) :
             /\ Stream[i].code \in {"354", c}
             /\ Stream[i].code = c => \A k \in i..Len(Stream) : Stream[k].code = c
  BY <1>6 DEF BodyAnswered
<1>8. c = "250"
  BY <1>3, <1>5, <1>7
<1>9. sent = <<>> /\ taken[mail] = granted
  BY <1>6, <1>7, <1>8 DEF BodyAnswered
<1>10. \A k \in n..Len(Stream) : Stream[k].code = "250"
  BY <1>3, <1>5, <1>7, <1>8
<1>11. OneByOne => granted = 1..Rcpts
  <2>1. NoError
    BY <1>7, <1>8 DEF NoError
  <2>2. ASSUME OneByOne, NEW i \in 1..Rcpts
        PROVE  i \in granted
    <3>1. Pending(i) \/ Granted(i)
      BY <1>1, <2>1, <2>2 DEF RcptsKept, Written
    <3>2. ~Pending(i)
      BY <1>9 DEF Pending
    <3> QED BY <3>1, <3>2 DEF Granted
  <2> QED BY <1>1, <2>2 DEF Types
<1>12. Types'
  BY <1>1, <1>2, <1>4 DEF Types, Codes
<1>13. Results'
  <2>1. ASSUME NEW m \in Mails, m > mail
        PROVE  ret'[m] = "none"
    <3>1. ret[m] = "none" /\ m # mail
      BY <1>1, <2>1 DEF Results, Types, Mails
    <3> QED BY <1>1, <1>4, <3>1 DEF Types
  <2>2. ASSUME NEW m \in Mails, ~split, told'[m] = "250"
        PROVE  ret'[m] = "1"
    <3>1. CASE m = mail
      BY <1>1, <1>4, <3>1 DEF Types
    <3>2. CASE m # mail
      BY <1>1, <1>4, <2>2, <3>2 DEF Types, Results
    <3> QED BY <3>1, <3>2
  <2> QED BY <1>2, <1>4, <2>1, <2>2 DEF Results, SetUp, Dialogue
<1>14. BodyTaken'
  BY <1>2, <1>9 DEF BodyTaken
<1>15. DataMarks'
  <2>1. \A i \in 1..Len(Stream') : Stream'[i].code # "354"
    <3>1. ASSUME NEW i \in 1..Len(Stream')
          PROVE  Stream'[i].code # "354"
      <4>1. i + n \in n..Len(Stream) /\ Stream'[i] = Stream[i + n]
        BY <1>5
      <4> QED BY <1>10, <4>1
    <3> QED BY <3>1
  <2>2. BeforeData'
    BY <1>2, <1>9, <2>1 DEF BeforeData
  <2> QED BY <1>4, <2>2 DEF DataMarks
<1>16. RcptsKept'
  BY <1>4 DEF RcptsKept, Written
<1>17. InStep'
  <2>1. ~split => sent = <<>> /\ Stream' = <<>>
    BY <1>1, ReadAll
  <2> QED BY <1>2, <1>4, <2>1 DEF InStep, Commands, SetUp, Dialogue
<1>18. SentIsWhole'
  <2>1. ASSUME NEW m \in Mails, ret'[m] = "1"
        PROVE  taken[m] # {} /\ (OneByOne => taken[m] = 1..Rcpts)
    <3>1. CASE m = mail
      BY <1>6, <1>9, <1>11, <3>1
    <3>2. CASE m # mail
      <4>1. ret[m] = "1"
        BY <1>1, <1>4, <2>1, <3>2 DEF Types
      <4> QED BY <1>1, <4>1 DEF SentIsWhole
    <3> QED BY <3>1, <3>2
  <2> QED BY <1>2, <2>1 DEF SentIsWhole, OneByOne
<1> QED BY <1>12, <1>13, <1>14, <1>15, <1>16, <1>17, <1>18 DEF IInv

\* The last step of a NOOP.
LEMMA FinishNoopKeeps ==
  ASSUME IInv, NEW n, Reads(n), step = "NOOP", Finish(Stream[n].code)
  PROVE  IInv'
<1>1. /\ Types /\ Results /\ BodyTaken /\ DataMarks /\ RcptsKept /\ InStep /\ SentIsWhole
  BY DEF IInv
<1>2. /\ phase = "expect" /\ step \in Commands /\ Shrinks(n)
      /\ ssl' = ssl /\ split' = split /\ sent' = sent /\ granted' = granted /\ taken' = taken
      /\ arrived' \in Seq(Piece) /\ coming' \in Seq(Piece)
  BY DEF Reads, settings, serverVars
<1>3. /\ step' \in {"idle", "closed"} /\ phase' = phase /\ mail' = mail /\ rcpt' = rcpt
      /\ ret' = ret /\ told' = told
  BY DEF Finish
<1>4. Len(Stream) \in Nat /\ n \in 1..Len(Stream) /\ Len(Stream') = Len(Stream) - n
      /\ \A i \in 1..Len(Stream') : Stream'[i] = Stream[i + n]
  BY <1>1, <1>2, StreamType DEF Shrinks
<1>5. Types'
  BY <1>1, <1>2, <1>3 DEF Types
<1>6. Results' /\ BodyTaken' /\ SentIsWhole'
  BY <1>1, <1>2, <1>3 DEF Results, BodyTaken, SentIsWhole, OneByOne, SetUp, Dialogue
<1>7. DataMarks'
  <2>1. BeforeData
    BY <1>1 DEF DataMarks
  <2>2. \A i \in 1..Len(Stream') : Stream'[i].code # "354"
    BY <1>4, <2>1 DEF BeforeData
  <2>3. BeforeData'
    BY <1>2, <2>1, <2>2 DEF BeforeData
  <2> QED BY <1>3, <2>3 DEF DataMarks
<1>8. RcptsKept'
  BY <1>3 DEF RcptsKept, Written
<1>9. InStep'
  <2>1. ~split => sent = <<>> /\ Stream' = <<>>
    BY <1>1, ReadAll
  <2> QED BY <1>2, <1>3, <2>1 DEF InStep, Commands, SetUp, Dialogue
<1> QED BY <1>5, <1>6, <1>7, <1>8, <1>9 DEF IInv

-----------------------------------------------------------------------------
(***************************************************************************)
(* The actions of the proxy.                                               *)
(***************************************************************************)

LEMMA WriteStep ==
  ASSUME IInv, SmtpWrite
  PROVE  IInv'
<1>1. /\ Types /\ phase = "write" /\ step \in Commands
      /\ UNCHANGED <<settings, arrived, coming, serverVars>>
  BY DEF IInv, SmtpWrite
<1>2. CASE /\ sent' = Append(sent, [cmd |-> step, rcpt |-> rcpt, mail |-> mail])
           /\ phase' = "expect"
           /\ UNCHANGED <<step, rcpt, mail, noops, ret, told>>
  <2>1. sent' \in Seq(Sendable) /\ CommandSent
    BY <1>1, <1>2, SentCommand
  <2> QED BY <1>1, <1>2, <2>1, WriteKeeps
<1>3. CASE Fail("error") /\ UNCHANGED sent
  <2>1. UNCHANGED <<ssl, split, sent, granted, taken>>
    BY <1>1, <1>3 DEF settings, serverVars
  <2>2. arrived' \in Seq(Piece) /\ coming' \in Seq(Piece) /\ "error" \in Codes
    BY <1>1 DEF Types, Codes
  <2> QED BY <1>1, <1>3, <2>1, <2>2, FailKeeps
<1> QED BY <1>2, <1>3 DEF SmtpWrite

LEMMA NoReplyStep ==
  ASSUME IInv, SmtpNoReply
  PROVE  IInv'
<1>1. /\ Types /\ step \in Commands /\ Fail("error")
      /\ UNCHANGED <<settings, sent, arrived, coming, serverVars>>
  BY DEF IInv, SmtpNoReply
<1>2. UNCHANGED <<ssl, split, sent, granted, taken>>
  BY <1>1 DEF settings, serverVars
<1>3. arrived' \in Seq(Piece) /\ coming' \in Seq(Piece) /\ "error" \in Codes
  BY <1>1 DEF Types, Codes
<1> QED BY <1>1, <1>2, <1>3, FailKeeps

LEMMA ExpectStep ==
  ASSUME IInv, SmtpExpect
  PROVE  IInv'
<1> DEFINE n == IF Encrypted THEN 1 ELSE Len(arrived)
           last == arrived[n]
<1>1. /\ Types /\ InStep /\ phase = "expect" /\ step \in Commands /\ arrived # <<>>
      /\ arrived' = SubSeq(arrived, n + 1, Len(arrived))
      /\ UNCHANGED <<settings, sent, coming, serverVars>>
  BY DEF IInv, SmtpExpect
<1>2. \/ last.ends /\ Accepts(last.code) /\ step \in {"BODY", "NOOP"} /\ Finish(last.code)
      \/ last.ends /\ Accepts(last.code) /\ step \notin {"BODY", "NOOP"} /\ Advance
      \/ last.ends /\ Accepts(last.code) /\ step = "STARTTLS" /\ Fail("error")
      \/ last.ends /\ ~Accepts(last.code) /\ Fail(last.code)
      \/ ~last.ends /\ Fail("error")
  BY DEF SmtpExpect
<1>3. n \in 1..Len(arrived) /\ (Encrypted => n = 1)
  BY <1>1 DEF Types
<1> HIDE DEF n
<1>4. arrived' \in Seq(Piece) /\ Shrinks(n) /\ Stream[n] = last
  BY <1>1, <1>3, ReadStream
<1>5. coming' \in Seq(Piece)
  BY <1>1 DEF Types
<1>6. Reads(n)
  BY <1>1, <1>3, <1>4, <1>5 DEF Reads
<1>7. last \in Piece /\ "error" \in Codes
  BY <1>1, <1>3 DEF Types, Codes
<1>8. UNCHANGED <<ssl, split, sent, granted, taken>>
  BY <1>1 DEF settings, serverVars
<1>9. ASSUME Fail("error")
      PROVE  IInv'
  BY <1>1, <1>4, <1>5, <1>7, <1>8, <1>9, FailKeeps
<1>10. CASE Accepts(last.code) /\ step \in {"BODY", "NOOP"} /\ Finish(last.code)
  BY <1>4, <1>6, <1>10, FinishMailKeeps, FinishNoopKeeps
<1>11. CASE Accepts(last.code) /\ step \notin {"BODY", "NOOP"} /\ Advance
  BY <1>4, <1>6, <1>11, AdvanceKeeps
<1>12. CASE ~Accepts(last.code) /\ Fail(last.code)
  <2>1. last.code \in Codes
    BY <1>7 DEF Piece
  <2>2. ~split => last.code # "250"
    BY <1>1, <1>4, <1>6, <1>12, ReadAll, RefusedCodes
  <2> QED BY <1>1, <1>4, <1>5, <1>8, <1>12, <2>1, <2>2, FailKeeps
<1> QED BY <1>2, <1>9, <1>10, <1>11, <1>12

\* The next mail, or a NOOP: what is left in the stream is no 354.
LEMMA RequestStep ==
  ASSUME IInv, NextMail \/ Noop
  PROVE  IInv'
<1>1. /\ Types /\ Results /\ BodyTaken /\ DataMarks /\ RcptsKept /\ InStep /\ SentIsWhole
      /\ step = "idle" /\ BeforeData
  BY DEF IInv, NextMail, Noop, DataMarks
<1>2. /\ ssl' = ssl /\ split' = split /\ sent' = sent /\ granted' = granted /\ taken' = taken
      /\ arrived' = arrived /\ coming' = coming /\ rcpt' = rcpt /\ ret' = ret /\ told' = told
      /\ Stream' = Stream /\ phase' = "write"
      /\ \/ step' = "RSET" /\ mail < MaxMails /\ mail' = mail + 1
         \/ step' = "NOOP" /\ mail' = mail
  BY DEF NextMail, Noop, settings, serverVars, Stream
<1>3. mail \in 1..MaxMails /\ MaxMails \in Nat
  BY <1>1, SessionAssumption DEF Types, Mails
<1>4. Types'
  <2>1. mail' \in Mails /\ step' \in Commands
    BY <1>2, <1>3 DEF Mails, Commands, Dialogue
  <2> QED BY <1>1, <1>2, <2>1 DEF Types
<1>5. Results'
  <2>1. step' = "RSET" => ret'[mail'] = "none"
    BY <1>1, <1>2, <1>3 DEF Results, Mails
  <2>2. \A m \in Mails : m > mail' => ret'[m] = "none"
    BY <1>1, <1>2, <1>3 DEF Results, Mails
  <2> QED BY <1>1, <1>2, <2>1, <2>2 DEF Results, SetUp, Dialogue
<1>6. BodyTaken' /\ SentIsWhole'
  BY <1>1, <1>2 DEF BodyTaken, SentIsWhole, OneByOne
<1>7. DataMarks'
  BY <1>1, <1>2 DEF DataMarks, BeforeData, SetUp
<1>8. RcptsKept'
  BY <1>2 DEF RcptsKept, Written
<1>9. InStep'
  BY <1>1, <1>2 DEF InStep
<1> QED BY <1>4, <1>5, <1>6, <1>7, <1>8, <1>9 DEF IInv

-----------------------------------------------------------------------------
(***************************************************************************)
(* The invariant, and the theorems.                                        *)
(***************************************************************************)

LEMMA IInvInit == Init => IInv
<1> SUFFICES ASSUME Init
             PROVE  IInv
  OBVIOUS
<1>1. /\ ssl \in {"plain", "SSL", "TLS"} /\ step = "GREET" /\ phase = "expect" /\ rcpt = 1 /\ mail = 1
      /\ Rcpts \in Nat /\ 1 \in 1..Rcpts /\ MaxMails \in Nat /\ 1 \in Mails
  BY SessionAssumption DEF Init, Mails
<1>2. /\ ret = [m \in Mails |-> "none"] /\ told = [m \in Mails |-> "none"]
      /\ sent = <<[cmd |-> "GREET", rcpt |-> 1, mail |-> 1]>>
      /\ arrived = <<>> /\ coming = <<>>
      /\ granted = {} /\ taken = [m \in Mails |-> {}]
  BY DEF Init
<1>3. sent \in Seq(Sendable) /\ Len(sent) = 1 /\ sent[1].cmd = "GREET"
  BY <1>1, <1>2 DEF Sendable, Commands, SetUp
<1>4. Stream = <<>> /\ Len(Stream) = 0
  BY <1>2 DEF Stream
<1>5. Types
  BY <1>1, <1>2, <1>3 DEF Types, Commands, SetUp
<1>6. Results /\ BodyTaken /\ SentIsWhole
  BY <1>1, <1>2, <1>3 DEF Results, BodyTaken, SentIsWhole
<1>7. DataMarks
  <2>1. \A i \in 1..Len(Stream) : Stream[i].code # "354"
    BY <1>4
  <2>2. \A j \in 1..Len(sent) : sent[j].cmd \notin {"DATA", "BODY"}
    BY <1>3
  <2> QED BY <1>1, <2>1, <2>2 DEF DataMarks, BeforeData
<1>8. RcptsKept
  BY <1>1 DEF RcptsKept, Written
<1>9. InStep
  BY <1>1, <1>3, <1>4 DEF InStep
<1> QED BY <1>5, <1>6, <1>7, <1>8, <1>9 DEF IInv

LEMMA IInvNext == IInv /\ [Next]_vars => IInv'
<1> SUFFICES ASSUME IInv, [Next]_vars
             PROVE  IInv'
  OBVIOUS
<1>1. Types
  BY DEF IInv
<1>2. CASE Serve
  BY <1>2, ServeKeeps
<1>3. CASE Arrive
  <2>1. Stream' = Stream /\ arrived' \in Seq(Piece) /\ coming' \in Seq(Piece)
    BY <1>1, <1>3, ArriveStream
  <2>2. UNCHANGED <<settings, proxyVars, sent, granted, taken>>
    BY <1>3 DEF Arrive, serverVars
  <2> QED BY <2>1, <2>2, QuietKeeps
<1>4. CASE HangUp \/ Over \/ UNCHANGED vars
  <2>1. UNCHANGED <<settings, proxyVars, sent, granted, taken, arrived, coming>>
    BY <1>4 DEF HangUp, Over, vars, serverVars
  <2>2. Stream' = Stream /\ arrived' \in Seq(Piece) /\ coming' \in Seq(Piece)
    BY <1>1, <2>1 DEF Stream, Types
  <2> QED BY <2>1, <2>2, QuietKeeps
<1>5. CASE ProxyStep
  BY <1>5, WriteStep, ExpectStep, NoReplyStep DEF ProxyStep
<1>6. CASE NextMail \/ Noop
  BY <1>6, RequestStep
<1> QED BY <1>2, <1>3, <1>4, <1>5, <1>6 DEF Next

\* The invariant of the dialogue, for any number of recipients, mails and NOOPs
\* and any way the replies that smtpExpect reads are cut into pieces.
THEOREM Invariance == Spec => []IInv
<1> QED BY IInvInit, IInvNext, PTL DEF Spec

\* A mail for which tpSendMail returns 1 was taken by the server, whatever was
\* left in the socket by the step or by the mail before.
THEOREM SentMailsAreTaken == Spec => []SentIsTaken
<1>1. IInv => SentIsTaken
  BY DEF IInv, SentIsWhole, SentIsTaken
<1> QED BY <1>1, Invariance, PTL

\* Replies in one piece leave nothing in the socket for what smtpWrite sends next.
THEOREM RepliesStayInStep == Spec => []NothingLeftUnread
<1>1. IInv => NothingLeftUnread
  <2> SUFFICES ASSUME IInv, ~split, step = "idle" \/ (step \in Commands /\ phase = "write")
               PROVE  sent = <<>> /\ coming = <<>> /\ arrived = <<>>
    BY DEF NothingLeftUnread
  <2>1. sent = <<>> /\ Stream = <<>>
    BY DEF IInv, InStep
  <2>2. Types
    BY DEF IInv
  <2>3. arrived \in Seq(Piece) /\ coming \in Seq(Piece)
    BY <2>2 DEF Types
  <2>4. Len(arrived) = 0 /\ Len(coming) = 0
    BY <2>1, <2>2, StreamType
  <2> QED BY <2>1, <2>3, <2>4
<1> QED BY <1>1, Invariance, PTL

\* Replies in one piece: an answer of 250 to the application means that the
\* server took the mail for every recipient tpSendMail was given.
THEOREM SuccessIsWhole == Spec => []SuccessIsTrue
<1>1. IInv => SuccessIsTrue
  BY DEF IInv, Results, SentIsWhole, OneByOne, SuccessIsTrue, Success
<1> QED BY <1>1, Invariance, PTL

\* With SSL or TLS no refused recipient is lost in a mail for which tpSendMail
\* returns 1: a read of smtpExpect is one record.
THEOREM RecordsLoseNothing == Spec => []RecordsKeepRejections
<1>1. IInv => RecordsKeepRejections
  BY DEF IInv, SentIsWhole, OneByOne, RecordsKeepRejections, RejectionLost
<1> QED BY <1>1, Invariance, PTL

=============================================================================
