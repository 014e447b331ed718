-------------------------- MODULE MailRequestProofs --------------------------
(***************************************************************************)
(* Proofs about MailRequest: however TCP cuts the mails up, nothing is     *)
(* lost, an application that waits gets the answer to its own mail, and    *)
(* the server takes from a request the text that was meant, for mails and  *)
(* blocks of any length.                                                   *)
(***************************************************************************)
EXTENDS MailRequest, WellFoundedInduction, SequenceTheorems, FiniteSetTheorems, TLAPS

-----------------------------------------------------------------------------
(***************************************************************************)
(* The inductive invariant.                                                *)
(***************************************************************************)

Texts == Seq(Tokens)

\* What the thread has of a mail, and what it has handed over.
Held == SubSeq(l.buf, 1, l.msglen)
Request(k) == SubSeq(handed[k].buf, 1, handed[k].len)

\* Nothing but NULs behind the first n tokens of buf.
NulsBehind(buf, n) == \A i \in (n + 1)..Len(buf) : buf[i] = "nul"

Types ==
  /\ asked \in Seq(Mails)
  /\ got \in Seq(Nat) /\ Len(got) = Len(asked)
  /\ late \subseteq 1..Len(asked)
  /\ app \in {"ready", "waiting", "closed"}
  /\ app = "waiting" => asked # <<>> /\ Len(asked) \notin late
  /\ wire \in Texts
  /\ back \in Seq(Nat)
  /\ thread \in {"read", "send", "ended"}
  /\ l \in [buf : Texts, ptr : Nat, buflen : Nat, ptrlen : Nat, msglen : Nat]
  /\ handed \in Seq([buf : Texts, len : Nat])

\* The buffer of the thread, and those that sendMail got: a NUL is behind the mail.
Buffers ==
  /\ l.msglen <= Len(l.buf) /\ NulsBehind(l.buf, l.msglen)
  /\ l.buflen > 0
  /\ BufferBounds
  /\ \A k \in 1..Len(handed) : handed[k].len < Len(handed[k].buf)
                               /\ NulsBehind(handed[k].buf, handed[k].len)

\* The mails up to the k-th have not left anything behind.
Told(k) == InStep(k) /\ ~Splits(asked[k])

\* The n-th request is the k-th mail.
Whole(n, k) == n \in 1..Len(handed) /\ Request(n) = Composed(asked[k])

\* The last mail of an application that waits, all before it in step: on its way,
\* answered, or given up by the thread.
Turn ==
  LET N == Len(asked)
  IN  app = "waiting" /\ Told(N) =>
        \/ /\ thread \in {"read", "send"} /\ back = <<>> /\ Len(handed) = N - 1
           /\ Held \o wire = Composed(asked[N])
           /\ thread = "send" => wire = <<>>
        \/ /\ thread \in {"read", "ended"} /\ back = <<N>> /\ Len(handed) = N
           /\ l.msglen = 0 /\ wire = <<>> /\ Whole(N, N)
        \/ thread = "ended" /\ back = <<>> /\ Len(handed) < N

\* An application that does not wait, all its mails in step.
Quiet ==
  app # "waiting" /\ InStep(Len(asked) + 1) =>
    /\ back = <<>> /\ Len(handed) <= Len(asked)
    /\ \/ thread = "ended"
       \/ thread = "read" /\ l.msglen = 0 /\ wire = <<>> /\ Len(handed) = Len(asked)

\* A mail in step that the application has left was handed over, unless the
\* thread has ended.
Served ==
  \A k \in 1..Len(asked) :
    InStep(k + 1) /\ (k < Len(asked) \/ app # "waiting") => k <= Len(handed) \/ thread = "ended"

\* Of the requests, those of mails in step are these mails; of the answers too.
RequestsAreMails ==
  \A k \in 1..Len(handed) : k <= Len(asked) /\ InStep(k + 1) => Whole(k, k)
AnswersAreOwn ==
  \A k \in 1..Len(asked) : Told(k) /\ got[k] # 0 => Whole(got[k], k)

Order == Turn /\ Quiet /\ Served /\ RequestsAreMails /\ AnswersAreOwn

IInv == Types /\ Buffers /\ NothingLost /\ Order

-----------------------------------------------------------------------------
(***************************************************************************)
(* Induction over the numbers, as a set, and what FlattenSeq does with it. *)
(***************************************************************************)

\* A set with 0 that has the successors of its numbers has them all.
LEMMA Induction ==
  ASSUME NEW S, 0 \in S, \A n \in Nat : n \in S => n + 1 \in S
  PROVE  Nat \subseteq S
<1> SUFFICES ASSUME Nat \ S # {} PROVE FALSE
  OBVIOUS
<1>1. PICK x \in Nat \ S : \A y \in Nat \ S : ~ (<<y, x>> \in OpToRel(<, Nat))
  <2> DEFINE R == OpToRel(<, Nat)
  <2>1. IsWellFoundedOn(R, Nat)
    BY NatLessThanWellFounded, Zenon
  <2> HIDE DEF R
  <2>2. \E x \in Nat \ S : \A y \in Nat \ S : ~ (<<y, x>> \in R)
    BY <2>1, WFMin
  <2> QED BY <2>2, Zenon DEF R
<1>2. x # 0 /\ x - 1 \in Nat /\ x - 1 < x
  OBVIOUS
<1>3. x - 1 \in Nat \ S
  BY <1>2
<1>4. <<x - 1, x>> \in OpToRel(<, Nat)
  BY <1>2, Zenon DEF OpToRel
<1> QED BY <1>1, <1>3, <1>4, Zenon

\* f flattens the first n of seqs.
Flattens(f, seqs, n) ==
  \A i \in 1..n : f[i] = IF i = 1 THEN seqs[i] ELSE f[i - 1] \o seqs[i]

\* There is a way to flatten.
LEMMA FlatteningExists ==
  ASSUME NEW T, NEW seqs \in Seq(Seq(T))
  PROVE  \E f \in [1..Len(seqs) -> Seq(T)] : Flattens(f, seqs, Len(seqs))
<1> DEFINE F == [1..Len(seqs) -> Seq(T)]
           G == {n \in Nat : n <= Len(seqs) => \E f \in F : Flattens(f, seqs, n)}
<1>0. Len(seqs) \in Nat /\ \A i \in 1..Len(seqs) : seqs[i] \in Seq(T)
  OBVIOUS
<1>1. 0 \in G
  <2>1. [i \in 1..Len(seqs) |-> <<>>] \in F
    OBVIOUS
  <2>2. Flattens([i \in 1..Len(seqs) |-> <<>>], seqs, 0)
    BY DEF Flattens
  <2> QED BY <2>1, <2>2
<1>2. ASSUME NEW n \in Nat, n \in G PROVE n + 1 \in G
  <2> SUFFICES ASSUME n + 1 <= Len(seqs)
               PROVE  \E f \in F : Flattens(f, seqs, n + 1)
    OBVIOUS
  <2>1. PICK f \in F : Flattens(f, seqs, n)
    BY <1>2, <1>0
  <2> DEFINE x == IF n = 0 THEN seqs[1] ELSE f[n] \o seqs[n + 1]
             g == [f EXCEPT ![n + 1] = x]
  <2>2. n + 1 \in 1..Len(seqs)
    BY <1>0
  <2>3. x \in Seq(T)
    <3>1. CASE n = 0
      BY <3>1, <2>2, <1>0
    <3>2. CASE n # 0
      <4>1. n \in 1..Len(seqs)
        BY <3>2, <2>2, <1>0
      <4>2. f[n] \in Seq(T) /\ seqs[n + 1] \in Seq(T)
        BY <4>1, <2>1, <2>2, <1>0
      <4> QED BY <3>2, <4>2
    <3> QED BY <3>1, <3>2
  <2>4. g \in F /\ g[n + 1] = x /\ \A i \in 1..Len(seqs) : i # n + 1 => g[i] = f[i]
    BY <2>1, <2>2, <2>3
  <2> HIDE DEF g
  <2>5. Flattens(g, seqs, n + 1)
    <3> SUFFICES ASSUME NEW i \in 1..(n + 1)
                 PROVE  g[i] = IF i = 1 THEN seqs[i] ELSE g[i - 1] \o seqs[i]
      BY DEF Flattens
    <3>1. CASE i = n + 1
      <4>1. n # 0 => n \in 1..Len(seqs) /\ n # n + 1
        BY <2>2, <1>0
      <4> QED BY <4>1, <3>1, <2>4
    <3>2. CASE i # n + 1
      <4>1. i \in 1..n /\ i \in 1..Len(seqs) /\ (i # 1 => i - 1 \in 1..Len(seqs) /\ i - 1 # n + 1)
        BY <3>2, <2>2, <1>0
      <4>2. f[i] = IF i = 1 THEN seqs[i] ELSE f[i - 1] \o seqs[i]
        BY <4>1, <2>1 DEF Flattens
      <4> QED BY <4>1, <4>2, <3>2, <2>4
    <3> QED BY <3>1, <3>2
  <2> QED BY <2>4, <2>5
<1>3. Len(seqs) \in G
  <2> HIDE DEF G
  <2> QED BY <1>0, <1>1, <1>2, Induction
<1> QED BY <1>3, <1>0

\* There is one way to flatten.
LEMMA FlatteningIsUnique ==
  ASSUME NEW seqs, NEW m \in Nat, NEW n \in 0..m, NEW f, NEW g,
         Flattens(f, seqs, n), Flattens(g, seqs, m)
  PROVE  \A i \in 1..n : f[i] = g[i]
<1> DEFINE G == {k \in Nat : k \in 1..n => f[k] = g[k]}
<1>1. 0 \in G
  OBVIOUS
<1>2. ASSUME NEW k \in Nat, k \in G PROVE k + 1 \in G
  <2> SUFFICES ASSUME k + 1 \in 1..n
               PROVE  f[k + 1] = g[k + 1]
    OBVIOUS
  <2>1. k + 1 \in 1..m /\ (k + 1) - 1 = k /\ (k + 1 # 1 => k \in 1..n)
    OBVIOUS
  <2>2. f[k + 1] = IF k + 1 = 1 THEN seqs[k + 1] ELSE f[k] \o seqs[k + 1]
    BY <2>1 DEF Flattens
  <2>3. g[k + 1] = IF k + 1 = 1 THEN seqs[k + 1] ELSE g[k] \o seqs[k + 1]
    BY <2>1 DEF Flattens
  <2>4. k + 1 # 1 => f[k] = g[k]
    BY <1>2, <2>1
  <2> QED BY <2>2, <2>3, <2>4
<1>3. Nat \subseteq G
  <2> HIDE DEF G
  <2> QED BY <1>1, <1>2, Induction
<1> QED BY <1>3

\* FlattenSeq is the end of such an f.
LEMMA FlattenUnfolds ==
  ASSUME NEW T, NEW seqs \in Seq(Seq(T)), Len(seqs) > 0
  PROVE  \E f \in [1..Len(seqs) -> Seq(T)] :
            Flattens(f, seqs, Len(seqs)) /\ FlattenSeq(seqs) = f[Len(seqs)]
<1> DEFINE D == 1..Len(seqs)
           fl == CHOOSE f : f = [i \in D |-> IF i = 1 THEN seqs[i] ELSE f[i - 1] \o seqs[i]]
<1>1. PICK h \in [D -> Seq(T)] : Flattens(h, seqs, Len(seqs))
    BY FlatteningExists
<1>2. \E f : f = [i \in D |-> IF i = 1 THEN seqs[i] ELSE f[i - 1] \o seqs[i]]
  <2>1. h = [i \in D |-> IF i = 1 THEN seqs[i] ELSE h[i - 1] \o seqs[i]]
    BY <1>1 DEF Flattens
  <2> QED BY <2>1, Zenon
<1>3. fl = [i \in D |-> IF i = 1 THEN seqs[i] ELSE fl[i - 1] \o seqs[i]]
  BY <1>2, Zenon
<1>4. FlattenSeq(seqs) = fl[Len(seqs)]
  <2>1. Len(seqs) # 0
    OBVIOUS
  <2> QED BY <2>1 DEF FlattenSeq
<1> HIDE DEF fl
<1>5. Flattens(fl, seqs, Len(seqs))
  <2> SUFFICES ASSUME NEW i \in D
               PROVE  fl[i] = IF i = 1 THEN seqs[i] ELSE fl[i - 1] \o seqs[i]
    BY DEF Flattens
  <2> QED BY <1>3
<1>6. Len(seqs) \in D
  OBVIOUS
<1>7. fl[Len(seqs)] = h[Len(seqs)]
  BY <1>1, <1>5, <1>6, FlatteningIsUnique
<1> QED BY <1>1, <1>4, <1>7

\* Nothing is flattened to nothing, and what is put behind comes behind.
LEMMA FlattenEmpty == FlattenSeq(<<>>) = <<>>
BY DEF FlattenSeq

LEMMA FlattenLonger ==
  ASSUME NEW T, NEW seqs \in Seq(Seq(T)), NEW more \in Seq(Seq(T)),
         Len(more) = Len(seqs) + 1,
         \A i \in 1..Len(seqs) : more[i] = seqs[i]
  PROVE  /\ FlattenSeq(seqs) \in Seq(T)
         /\ FlattenSeq(more) \in Seq(T)
         /\ FlattenSeq(more) = FlattenSeq(seqs) \o more[Len(more)]
<1>1. /\ Len(seqs) \in Nat /\ Len(more) \in Nat /\ Len(more) > 0
      /\ Len(more) \in 1..Len(more)
      /\ \A i \in 1..Len(more) : more[i] \in Seq(T)
  OBVIOUS
<1>2. PICK g \in [1..Len(more) -> Seq(T)] :
         Flattens(g, more, Len(more)) /\ FlattenSeq(more) = g[Len(more)]
  BY <1>1, FlattenUnfolds
<1>3. CASE Len(seqs) = 0
  <2>1. seqs = <<>> /\ FlattenSeq(seqs) = <<>>
    BY <1>3, FlattenEmpty
  <2>2. Len(more) = 1
    BY <1>3
  <2>3. g[1] = more[1]
    BY <2>2, <1>2 DEF Flattens
  <2>4. more[1] \in Seq(T) /\ <<>> \o more[1] = more[1]
    BY <2>2, <1>1
  <2>5. FlattenSeq(more) = more[1]
    BY <2>2, <2>3, <1>2
  <2>6. <<>> \in Seq(T)
    OBVIOUS
  <2> QED BY ONLY <2>1, <2>2, <2>4, <2>5, <2>6
<1>4. CASE Len(seqs) > 0
  <2>1. PICK f \in [1..Len(seqs) -> Seq(T)] :
           Flattens(f, seqs, Len(seqs)) /\ FlattenSeq(seqs) = f[Len(seqs)]
    BY <1>4, FlattenUnfolds
  <2>2. Flattens(f, more, Len(seqs))
    BY <2>1, <1>1 DEF Flattens
  <2>3. Len(seqs) \in 1..Len(seqs) /\ Len(seqs) \in 0..Len(more)
    BY <1>1, <1>4
  <2>4. f[Len(seqs)] = g[Len(seqs)]
    BY <2>2, <2>3, <1>1, <1>2, FlatteningIsUnique
  <2>5. g[Len(more)] = g[Len(seqs)] \o more[Len(more)]
    <3>1. Len(more) - 1 = Len(seqs) /\ Len(more) # 1
      BY <1>1, <1>4
    <3> QED BY <3>1, <1>1, <1>2 DEF Flattens
  <2>6. f[Len(seqs)] \in Seq(T) /\ more[Len(more)] \in Seq(T)
    BY <2>3, <1>1
  <2>7. f[Len(seqs)] \o more[Len(more)] \in Seq(T)
    BY <2>6
  <2> QED BY <2>1, <2>4, <2>5, <2>6, <2>7, <1>2
<1> QED BY <1>1, <1>3, <1>4

\* What is flattened is of the same stuff.
LEMMA FlattenType ==
  ASSUME NEW T, NEW seqs \in Seq(Seq(T))
  PROVE  FlattenSeq(seqs) \in Seq(T)
<1>1. /\ Append(seqs, <<>>) \in Seq(Seq(T)) /\ Len(Append(seqs, <<>>)) = Len(seqs) + 1
      /\ \A i \in 1..Len(seqs) : Append(seqs, <<>>)[i] = seqs[i]
  OBVIOUS
<1> QED BY <1>1, FlattenLonger

-----------------------------------------------------------------------------
(***************************************************************************)
(* Texts.                                                                  *)
(***************************************************************************)

\* The first and the last of a set of positions.
LEMMA MinIsFirst ==
  ASSUME NEW S \in SUBSET Nat, S # {}
  PROVE  Min(S) \in S /\ \A y \in S : Min(S) <= y
<1>1. \E x \in S : \A y \in S : x <= y
  <2> SUFFICES ASSUME ~ \E x \in S : \A y \in S : x <= y
               PROVE  FALSE
    OBVIOUS
  <2> DEFINE G == {n \in Nat : \A y \in S : n <= y}
  <2>1. 0 \in G
    OBVIOUS
  <2>2. ASSUME NEW n \in Nat, n \in G PROVE n + 1 \in G
    <3>1. n \notin S
      BY <2>2
    <3>2. \A y \in S : n <= y /\ n # y /\ y \in Nat
      BY <3>1, <2>2
    <3> QED BY <3>2
  <2>3. Nat \subseteq G
    <3> HIDE DEF G
    <3> QED BY <2>1, <2>2, Induction
  <2>4. PICK y \in S : y \in Nat
    OBVIOUS
  <2>5. y + 1 \in G
    BY <2>3, <2>4
  <2> QED BY <2>4, <2>5
<1> QED BY <1>1 DEF Min

LEMMA MaxIsLast ==
  ASSUME NEW n \in Nat, NEW S \in SUBSET (0..n), S # {}
  PROVE  Max(S) \in S /\ \A y \in S : Max(S) >= y
<1>1. \E x \in S : \A y \in S : x >= y
  <2> DEFINE D == {k \in Nat : n - k \in S}
  <2>1. PICK y \in S : TRUE
    OBVIOUS
  <2>2. n - y \in D
    BY <2>1
  <2>3. Min(D) \in D /\ \A k \in D : Min(D) <= k
    <3> HIDE DEF D
    <3>1. D \in SUBSET Nat
      BY DEF D
    <3> QED BY <3>1, <2>2, MinIsFirst
  <2> DEFINE m == Min(D)
  <2>4. m \in Nat /\ n - m \in S
    BY <2>3
  <2>5. ASSUME NEW z \in S PROVE n - m >= z
    <3>1. n - z \in D /\ z \in Nat
      OBVIOUS
    <3>2. m <= n - z
      BY <3>1, <2>3
    <3> HIDE DEF m
    <3> QED BY <3>1, <3>2, <2>4
  <2> QED BY <2>4, <2>5
<1> QED BY <1>1 DEF Max

LEMMA TrimmedType ==
  ASSUME NEW T, NEW s \in Seq(T)
  PROVE  Trimmed(s) \in Seq(T)
<1> DEFINE text == {i \in 1..Len(s) : s[i] \notin {"eol", "nul"}}
<1>1. CASE text = {}
  BY <1>1 DEF Trimmed
<1>2. CASE text # {}
  <2>1. Len(s) \in Nat /\ text \in SUBSET Nat /\ text \in SUBSET (0..Len(s))
    OBVIOUS
  <2>2. Min(text) \in text
    <3> HIDE DEF text
    <3> QED BY <1>2, <2>1, MinIsFirst
  <2>3. Max(text) \in text
    <3> HIDE DEF text
    <3> QED BY <1>2, <2>1, MaxIsLast
  <2>4. Min(text) \in 1..Len(s) /\ Max(text) \in 1..Len(s)
    BY <2>2, <2>3
  <2>5. Trimmed(s) = SubSeq(s, Min(text), Max(text))
    BY <1>2 DEF Trimmed
  <2> HIDE DEF text
  <2>6. SubSeq(s, Min(text), Max(text)) \in Seq(T)
    BY <2>4, SubSeqProperties
  <2> QED BY <2>5, <2>6
<1> QED BY <1>1, <1>2

LEMMA EscapedType ==
  ASSUME NEW s \in Texts
  PROVE  Escaped(s) \in Texts
<1> DEFINE p == [i \in 1..Len(s) |->
                   IF i > 1 /\ s[i] = "dot" /\ s[i - 1] = "eol" THEN <<"dot", "dot">> ELSE <<s[i]>>]
<1>1. "dot" \in Tokens
  BY RequestAssumption
<1>2. \A i \in 1..Len(s) : <<s[i]>> \in Seq(Tokens) /\ <<"dot", "dot">> \in Seq(Tokens)
  BY <1>1 DEF Texts
<1>3. p \in Seq(Seq(Tokens))
  <2>1. Len(s) \in Nat
    BY DEF Texts
  <2>2. \A i \in 1..Len(s) : p[i] \in Seq(Tokens)
    BY <1>2
  <2> QED BY <2>1, <2>2
<1>4. Escaped(s) = FlattenSeq(p)
  BY DEF Escaped
<1> QED BY <1>3, <1>4, FlattenType DEF Texts

LEMMA MarkIsBehind ==
  ASSUME NEW s \in Texts
  PROVE  /\ s \o Mark \in Texts /\ Len(s \o Mark) = Len(s) + 3
         /\ SubSeq(s \o Mark, Len(s \o Mark) - 2, Len(s \o Mark)) = Mark
<1>1. Mark \in Texts
  BY RequestAssumption DEF Mark, Texts
<1>2. Len(Mark) = 3
  BY DEF Mark
<1>3. s \o Mark \in Texts /\ Len(s \o Mark) = Len(s) + Len(Mark) /\ Len(s) \in Nat
  BY <1>1, ConcatProperties DEF Texts
<1>4. Len(s \o Mark) = Len(s) + 3
  BY <1>2, <1>3
<1>5. SubSeq(s \o Mark, Len(s) + 1, Len(s) + Len(Mark)) = Mark
  <2> DEFINE m == Mark
  <2>1. m \in Texts /\ Len(m) \in Nat \ {0}
    BY <1>1, <1>2
  <2> HIDE DEF m
  <2>2. Len(s) + 1 \in Len(s) + 1..Len(s) + Len(m) /\ Len(s) + Len(m) \in Len(s) + 1..Len(s) + Len(m)
    BY <2>1, <1>3
  <2>3. SubSeq(s \o m, Len(s) + 1, Len(s) + Len(m)) = SubSeq(m, (Len(s) + 1) - Len(s), (Len(s) + Len(m)) - Len(s))
    BY <2>1, <2>2, SubSeqOfConcat2 DEF Texts
  <2>4. (Len(s) + 1) - Len(s) = 1 /\ (Len(s) + Len(m)) - Len(s) = Len(m)
    BY <2>1, <1>3
  <2>5. SubSeq(m, 1, Len(m)) = m
    BY <2>1, SubSeqFull DEF Texts
  <2> QED BY <2>3, <2>4, <2>5 DEF m
<1>6. Len(s) + 1 = Len(s \o Mark) - 2 /\ Len(s) + Len(Mark) = Len(s \o Mark)
  BY <1>2, <1>3
<1> QED BY <1>3, <1>4, <1>5, <1>6

\* A mail as it is written: what is before its mark, and the mark.
LEMMA ComposedEnds ==
  ASSUME NEW mail \in Mails
  PROVE  /\ Composed(mail) \in Texts
         /\ Len(Composed(mail)) > 5
         /\ SubSeq(Composed(mail), Len(Composed(mail)) - 2, Len(Composed(mail))) = Mark
<1> DEFINE tos == [i \in 1..Len(mail.to) |-> mail.to[i] \o <<"eol">>]
<1>1. /\ mail.from \in Seq(Tokens) /\ mail.header \in Seq(Tokens) /\ mail.body \in Seq(Tokens)
      /\ mail.to \in Seq(Seq(Tokens))
      /\ <<"eol">> \in Seq(Tokens) /\ <<"data", "eol">> \in Seq(Tokens)
      /\ <<"eol", "eol">> \in Seq(Tokens) /\ Mark \in Seq(Tokens)
  BY RequestAssumption DEF Mark
<1>2. tos \in Seq(Seq(Tokens))
  <2>1. Len(mail.to) \in Nat /\ \A i \in 1..Len(mail.to) : mail.to[i] \in Seq(Tokens)
    BY <1>1
  <2>2. \A i \in 1..Len(mail.to) : mail.to[i] \o <<"eol">> \in Seq(Tokens)
    BY <1>1, <2>1
  <2>3. tos \in [1..Len(mail.to) -> Seq(Tokens)]
    BY <2>2
  <2> QED BY <2>1, <2>3
<1>3. FlattenSeq(tos) \in Seq(Tokens)
  BY <1>2, FlattenType
<1>4. Trimmed(mail.header) \in Seq(Tokens) /\ Escaped(Trimmed(mail.body)) \in Seq(Tokens)
  BY <1>1, TrimmedType, EscapedType DEF Texts
<1> DEFINE a == mail.from \o <<"eol">>
           b == a \o FlattenSeq(tos)
           c == b \o <<"data", "eol">>
           d == c \o Trimmed(mail.header)
           e == d \o <<"eol", "eol">>
           f == e \o Escaped(Trimmed(mail.body))
<1>5. Composed(mail) = f \o Mark
  BY DEF Composed
<1> HIDE DEF tos
<1>6. a \in Seq(Tokens) /\ Len(a) > 0
  BY <1>1
<1>7. b \in Seq(Tokens) /\ Len(b) > 0
  <2> HIDE DEF a
  <2> QED BY <1>6, <1>3
<1>8. c \in Seq(Tokens) /\ Len(c) > 2
  <2> HIDE DEF b
  <2> QED BY <1>7, <1>1
<1>9. d \in Seq(Tokens) /\ Len(d) > 2
  <2> HIDE DEF c
  <2> QED BY <1>8, <1>4
<1>10. e \in Seq(Tokens) /\ Len(e) > 4
  <2> HIDE DEF d
  <2> QED BY <1>9, <1>1
<1>11. f \in Seq(Tokens) /\ Len(f) > 4
  <2> HIDE DEF e
  <2> QED BY <1>10, <1>4
<1> HIDE DEF f
<1> QED BY <1>5, <1>11, MarkIsBehind DEF Texts

-----------------------------------------------------------------------------
(***************************************************************************)
(* The buffer.                                                             *)
(***************************************************************************)

LEMMA SamePrefix ==
  ASSUME NEW T, NEW s \in Seq(T), NEW t \in Seq(T), NEW n \in Nat,
         n <= Len(s), n <= Len(t), \A i \in 1..n : s[i] = t[i]
  PROVE  /\ SubSeq(s, 1, n) \in Seq(T) /\ Len(SubSeq(s, 1, n)) = n
         /\ SubSeq(s, 1, n) = SubSeq(t, 1, n)
OBVIOUS

LEMMA FunctionIsText ==
  ASSUME NEW T, NEW n \in Nat, NEW f \in [1..n -> T]
  PROVE  f \in Seq(T) /\ Len(f) = n
OBVIOUS

LEMMA Joined ==
  ASSUME NEW T, NEW s \in Seq(T), NEW t \in Seq(T)
  PROVE  /\ s \o t \in Seq(T) /\ Len(s \o t) = Len(s) + Len(t)
         /\ \A i \in 1..Len(s) : (s \o t)[i] = s[i]
         /\ \A i \in (Len(s) + 1)..(Len(s) + Len(t)) : (s \o t)[i] = t[i - Len(s)]
OBVIOUS

Locals == [buf : Texts, ptr : Nat, buflen : Nat, ptrlen : Nat, msglen : Nat]

\* What the thread has of a mail, in the locals x, and that nothing is behind it.
HeldIn(x) == SubSeq(x.buf, 1, x.msglen)
Sound(x) == x \in Locals /\ x.msglen <= Len(x.buf) /\ NulsBehind(x.buf, x.msglen)

LEMMA ZerosType ==
  ASSUME NEW n \in Nat
  PROVE  Zeros(n) \in Texts /\ Len(Zeros(n)) = n /\ \A i \in 1..n : Zeros(n)[i] = "nul"
BY RequestAssumption DEF Zeros, Texts

\* A read appends what it reads.
LEMMA FilledHolds ==
  ASSUME NEW x, Sound(x), NEW piece \in Texts,
         x.ptr = x.msglen, x.ptr + Len(piece) <= Len(x.buf),
         NEW y, y = Filled(x, piece)
  PROVE  /\ Sound(y)
         /\ HeldIn(y) = HeldIn(x) \o piece
         /\ y.msglen = x.msglen + Len(piece) /\ Len(y.buf) = Len(x.buf)
         /\ y.ptr = x.ptr /\ y.buflen = x.buflen /\ y.ptrlen = x.ptrlen
<1>1. /\ x.buf \in Texts /\ Len(x.buf) \in Nat /\ Len(piece) \in Nat
      /\ x.ptr \in Nat /\ x.msglen \in Nat /\ x.buflen \in Nat /\ x.ptrlen \in Nat
  BY DEF Sound, Locals, Texts
<1> DEFINE b == [i \in DOMAIN x.buf |->
                   IF i \in (x.ptr + 1)..(x.ptr + Len(piece)) THEN piece[i - x.ptr] ELSE x.buf[i]]
<1>2. DOMAIN x.buf = 1..Len(x.buf)
  BY <1>1 DEF Texts
<1>3. /\ y = [x EXCEPT !.buf = b, !.msglen = x.msglen + Len(piece)]
  BY DEF Filled
<1>4. \A i \in 1..Len(x.buf) :
        b[i] = IF i \in (x.ptr + 1)..(x.ptr + Len(piece)) THEN piece[i - x.ptr] ELSE x.buf[i]
  BY <1>2
<1>5. b \in Texts /\ Len(b) = Len(x.buf)
  <2>1. ASSUME NEW i \in 1..Len(x.buf) PROVE b[i] \in Tokens
    <3>1. CASE i \in (x.ptr + 1)..(x.ptr + Len(piece))
      <4>1. i - x.ptr \in 1..Len(piece)
        BY <3>1, <1>1
      <4>2. piece[i - x.ptr] \in Tokens
        BY <4>1 DEF Texts
      <4> QED BY <3>1, <4>2, <1>4
    <3>2. CASE i \notin (x.ptr + 1)..(x.ptr + Len(piece))
      <4>1. x.buf[i] \in Tokens
        BY <1>1 DEF Texts
      <4> QED BY <3>2, <4>1, <1>4
    <3> QED BY <3>1, <3>2
  <2>2. b \in [1..Len(x.buf) -> Tokens]
    BY <2>1, <1>2
  <2> HIDE DEF b
  <2> QED BY <2>2, <1>1, FunctionIsText DEF Texts
<1> HIDE DEF b
<1>9. x \in Locals /\ x.msglen + Len(piece) \in Nat
  BY <1>1 DEF Sound
<1>6. y \in Locals /\ y.buf = b /\ y.msglen = x.msglen + Len(piece)
      /\ y.ptr = x.ptr /\ y.buflen = x.buflen /\ y.ptrlen = x.ptrlen
  BY <1>3, <1>5, <1>9 DEF Locals
<1>7. NulsBehind(b, x.msglen + Len(piece))
  BY <1>1, <1>4, <1>5 DEF NulsBehind, Sound
<1>8. HeldIn(y) = HeldIn(x) \o piece
  <2> DEFINE p == SubSeq(b, 1, x.msglen + Len(piece))
             q == SubSeq(x.buf, 1, x.msglen)
  <2>1. p \in Texts /\ Len(p) = x.msglen + Len(piece) /\ \A i \in 1..(x.msglen + Len(piece)) : p[i] = b[i]
    BY <1>1, <1>5 DEF Texts
  <2>2. q \in Texts /\ Len(q) = x.msglen /\ \A i \in 1..x.msglen : q[i] = x.buf[i]
    BY <1>1 DEF Texts, Sound
  <2> HIDE DEF p, q
  <2>3. /\ q \o piece \in Texts /\ Len(q \o piece) = Len(q) + Len(piece)
        /\ \A i \in 1..Len(q) : (q \o piece)[i] = q[i]
        /\ \A i \in (Len(q) + 1)..(Len(q) + Len(piece)) : (q \o piece)[i] = piece[i - Len(q)]
    <3>1. q \in Texts
      BY <2>2
    <3> QED BY <3>1, Joined DEF Texts
  <2>4. \A i \in 1..(x.msglen + Len(piece)) : p[i] = (q \o piece)[i]
    <3> SUFFICES ASSUME NEW i \in 1..(x.msglen + Len(piece))
                 PROVE  p[i] = (q \o piece)[i]
      OBVIOUS
    <3>1. i \in 1..Len(x.buf) /\ p[i] = b[i]
      BY <1>1, <2>1
    <3>2. CASE i <= x.msglen
      <4>1. i \in 1..x.msglen /\ i \notin (x.ptr + 1)..(x.ptr + Len(piece))
        BY <3>1, <3>2, <1>1
      <4>2. b[i] = x.buf[i]
        BY <4>1, <3>1, <1>4
      <4>3. (q \o piece)[i] = x.buf[i]
        BY <4>1, <2>2, <2>3
      <4> QED BY <4>2, <4>3, <3>1
    <3>3. CASE i > x.msglen
      <4>1. i \in (x.ptr + 1)..(x.ptr + Len(piece)) /\ i \in (x.msglen + 1)..(x.msglen + Len(piece))
        BY <3>1, <3>3, <1>1
      <4>2. b[i] = piece[i - x.msglen]
        BY <4>1, <3>1, <1>4
      <4>3. (q \o piece)[i] = piece[i - x.msglen]
        BY <4>1, <2>2, <2>3
      <4> QED BY <4>2, <4>3, <3>1
    <3>4. i <= x.msglen \/ i > x.msglen
      BY <1>1
    <3> QED BY <3>2, <3>3, <3>4, Zenon
  <2>5. p = q \o piece
    BY <2>1, <2>2, <2>3, <2>4, SeqEqual DEF Texts
  <2> QED BY <2>5, <1>6 DEF HeldIn, p, q
<1> QED BY <1>1, <1>5, <1>6, <1>7, <1>8 DEF Sound

\* A byte for the NUL behind a mail that fills the buffer.
LEMMA TerminatedHolds ==
  ASSUME NEW x, Sound(x), x.buflen = Len(x.buf), NEW y, y = Terminated(x)
  PROVE  Sound(y) /\ HeldIn(y) = HeldIn(x) /\ y.msglen = x.msglen /\ Len(y.buf) > y.msglen
         /\ y.buflen = x.buflen
<1>1. x.buf \in Texts /\ x.msglen \in Nat /\ Len(x.buf) \in Nat /\ "nul" \in Tokens
  BY RequestAssumption DEF Sound, Locals, Texts
<1>2. CASE x.buflen # x.msglen
  BY <1>1, <1>2 DEF Terminated, Sound
<1>3. CASE x.buflen = x.msglen
  <2>1. /\ Append(x.buf, "nul") \in Texts /\ Len(Append(x.buf, "nul")) = Len(x.buf) + 1
        /\ \A i \in 1..Len(x.buf) : Append(x.buf, "nul")[i] = x.buf[i]
        /\ Append(x.buf, "nul")[Len(x.buf) + 1] = "nul"
    BY <1>1 DEF Texts
  <2>2. y = [x EXCEPT !.buf = Append(x.buf, "nul")]
    BY <1>3 DEF Terminated
  <2>3. y \in Locals /\ y.buf = Append(x.buf, "nul") /\ y.msglen = x.msglen /\ y.buflen = x.buflen
    BY <2>1, <2>2 DEF Sound, Locals
  <2>4. HeldIn(y) = HeldIn(x)
    BY <2>1, <2>3, <1>1, SamePrefix DEF HeldIn, Sound, Texts
  <2>5. NulsBehind(y.buf, y.msglen)
    BY <2>1, <2>3, <1>1, <1>3 DEF NulsBehind
  <2> QED BY <2>1, <2>3, <2>4, <2>5, <1>1 DEF Sound
<1> QED BY <1>2, <1>3

\* Another block for a buffer that is full.
LEMMA GrownHolds ==
  ASSUME NEW x, Sound(x), x.buflen = Len(x.buf), x.buflen > 0, Full(x), NEW n, NEW y, y = Grown(x, n)
  PROVE  /\ Sound(y) /\ HeldIn(y) = HeldIn(x) /\ y.msglen = x.msglen
         /\ y.ptr = y.msglen /\ y.ptr + y.ptrlen = y.buflen /\ y.buflen = Len(y.buf)
         /\ y.ptrlen > 0 /\ y.buflen > 0
<1>1. /\ x.buf \in Texts /\ x.msglen \in Nat /\ Len(x.buf) \in Nat /\ blksize \in Nat \ {0}
      /\ Zeros(blksize) \in Texts /\ Len(Zeros(blksize)) = blksize
      /\ \A i \in 1..blksize : Zeros(blksize)[i] = "nul"
  BY RequestAssumption, ZerosType DEF Sound, Locals, Texts
<1>2. x.msglen = Len(x.buf)
  BY <1>1 DEF Full, Sound, NulsBehind
<1> DEFINE z == Zeros(blksize)
           b == x.buf \o z
<1>3. /\ b \in Texts /\ Len(b) = Len(x.buf) + blksize
      /\ \A i \in 1..Len(x.buf) : b[i] = x.buf[i]
      /\ \A i \in (Len(x.buf) + 1)..(Len(x.buf) + blksize) : b[i] = z[i - Len(x.buf)]
  <2>1. z \in Texts
    BY <1>1
  <2>2. Len(z) = blksize
    BY <1>1
  <2> HIDE DEF z
  <2>3. /\ b \in Texts /\ Len(b) = Len(x.buf) + Len(z)
        /\ \A i \in 1..Len(x.buf) : b[i] = x.buf[i]
        /\ \A i \in (Len(x.buf) + 1)..(Len(x.buf) + Len(z)) : b[i] = z[i - Len(x.buf)]
    BY <2>1, <1>1, Joined DEF Texts
  <2> QED BY <2>2, <2>3
<1>4. y = [x EXCEPT !.buf = b, !.ptr = x.buflen, !.buflen = x.buflen + blksize, !.ptrlen = blksize]
  BY DEF Grown
<1>5. NulsBehind(b, x.msglen)
  <2> SUFFICES ASSUME NEW i \in (x.msglen + 1)..Len(b)
               PROVE  b[i] = "nul"
    BY DEF NulsBehind
  <2>1. i \in (Len(x.buf) + 1)..(Len(x.buf) + blksize) /\ i - Len(x.buf) \in 1..blksize
    BY <1>1, <1>2, <1>3
  <2> QED BY <2>1, <1>1, <1>3
<1> HIDE DEF b
<1>6. /\ y \in Locals /\ y.buf = b /\ y.msglen = x.msglen /\ y.ptr = x.buflen
      /\ y.buflen = x.buflen + blksize /\ y.ptrlen = blksize
  <2>1. x \in Locals /\ x.buflen \in Nat /\ x.buflen + blksize \in Nat
    BY <1>1 DEF Sound, Locals
  <2> QED BY <2>1, <1>1, <1>3, <1>4 DEF Locals
<1>7. HeldIn(y) = HeldIn(x)
  BY <1>1, <1>2, <1>3, <1>6, SamePrefix DEF HeldIn, Texts
<1> QED BY <1>1, <1>2, <1>3, <1>5, <1>6, <1>7 DEF Sound

\* The next read goes on behind.
LEMMA ContinuedHolds ==
  ASSUME NEW x, Sound(x), x.buflen = Len(x.buf), ~Full(x),
         NEW n \in Nat, n <= x.ptrlen, x.ptr + n = x.msglen, x.ptr + x.ptrlen = x.buflen,
         NEW y, y = Continued(x, n)
  PROVE  /\ Sound(y) /\ HeldIn(y) = HeldIn(x) /\ y.msglen = x.msglen
         /\ y.ptr = y.msglen /\ y.ptr + y.ptrlen = y.buflen /\ y.buflen = Len(y.buf)
         /\ y.buf[y.buflen] = "nul" /\ y.buflen = x.buflen
<1>1. y = [x EXCEPT !.ptr = x.ptr + n, !.ptrlen = x.ptrlen - n]
  BY DEF Continued
<1>2. x.ptr \in Nat /\ x.ptrlen \in Nat /\ x.ptrlen - n \in Nat /\ x.ptr + n \in Nat /\ x.buflen \in Nat
  BY DEF Sound, Locals
<1>3. /\ y \in Locals /\ y.buf = x.buf /\ y.msglen = x.msglen /\ y.ptr = x.ptr + n
      /\ y.ptrlen = x.ptrlen - n /\ y.buflen = x.buflen
  BY <1>1, <1>2 DEF Sound, Locals
<1> QED BY <1>2, <1>3 DEF Sound, HeldIn, Full

\* A new buffer.
LEMMA FreshHolds ==
  /\ Sound(FreshBuf) /\ HeldIn(FreshBuf) = <<>> /\ FreshBuf.msglen = 0
  /\ FreshBuf.ptr = 0 /\ FreshBuf.ptrlen = FreshBuf.buflen /\ FreshBuf.buflen = Len(FreshBuf.buf)
  /\ FreshBuf.buflen > 0
<1>1. /\ blksize \in Nat \ {0} /\ Zeros(blksize) \in Texts /\ Len(Zeros(blksize)) = blksize
      /\ \A i \in 1..blksize : Zeros(blksize)[i] = "nul"
  BY RequestAssumption, ZerosType
<1> QED BY <1>1 DEF Sound, HeldIn, FreshBuf, Locals, NulsBehind

-----------------------------------------------------------------------------
(***************************************************************************)
(* A read.                                                                 *)
(***************************************************************************)

LEMMA PlacesAreFinite ==
  ASSUME NEW w \in Texts, NEW s \in Texts
  PROVE  /\ IsFiniteSet(Places(w, s)) /\ Places(w, s) \in SUBSET Nat
         /\ \A i, j \in Places(w, s) : i # j => Cardinality(Places(w, s)) > 1
<1>1. Len(s) \in Nat /\ Len(w) \in Nat /\ Len(s) - Len(w) + 1 \in Int
  BY DEF Texts
<1>2. Places(w, s) \subseteq 1..(Len(s) - Len(w) + 1)
  BY DEF Places
<1>3. IsFiniteSet(Places(w, s)) /\ Cardinality(Places(w, s)) \in Nat
  <2>1. IsFiniteSet(1..(Len(s) - Len(w) + 1))
    BY <1>1, FS_Interval
  <2>2. IsFiniteSet(Places(w, s))
    BY <1>2, <2>1, FS_Subset
  <2> QED BY <2>2, FS_CardinalityType
<1>4. ASSUME NEW i \in Places(w, s), NEW j \in Places(w, s), i # j
      PROVE  Cardinality(Places(w, s)) > 1
  <2>1. IsFiniteSet({i}) /\ Cardinality({i}) = 1
    BY FS_Singleton
  <2>2. {i} \subseteq Places(w, s) /\ {i} # Places(w, s)
    BY <1>4
  <2>3. /\ Cardinality({i}) <= Cardinality(Places(w, s))
        /\ Cardinality({i}) # Cardinality(Places(w, s))
    BY <1>3, <2>2, FS_Subset
  <2> QED BY <2>1, <2>3, <1>3
<1> QED BY <1>1, <1>2, <1>3, <1>4

\* What ends with the only mark of a mail is the mail.
LEMMA MarkEnds ==
  ASSUME NEW mail \in Mails, ~Splits(mail),
         NEW s \in Texts, NEW t \in Texts, s \o t = Composed(mail),
         Len(s) > 3, SubSeq(s, Len(s) - 2, Len(s)) = Mark
  PROVE  t = <<>>
<1> DEFINE c == Composed(mail)
<1>1. c \in Texts /\ Len(c) > 5 /\ SubSeq(c, Len(c) - 2, Len(c)) = Mark
  BY ComposedEnds
<1>2. Mark \in Texts
  BY RequestAssumption DEF Mark, Texts
<1>3. Len(Mark) = 3
  BY DEF Mark
<1>4. Len(c) = Len(s) + Len(t) /\ Len(s) \in Nat /\ Len(t) \in Nat /\ Len(c) \in Nat
  BY Joined DEF Texts
<1>5. SubSeq(c, Len(s) - 2, Len(s)) = Mark
  <2>1. Len(s) - 2 \in 1..Len(s) /\ Len(s) \in 1..Len(s)
    BY <1>4
  <2>2. SubSeq(s \o t, Len(s) - 2, Len(s)) = SubSeq(s, Len(s) - 2, Len(s))
    BY <2>1, SubSeqOfConcat1 DEF Texts
  <2> QED BY <2>2
<1> HIDE DEF c
<1>6. Len(s) - 2 \in Places(Mark, c)
  <2>1. Len(s) - 2 \in 1..(Len(c) - Len(Mark) + 1) /\ (Len(s) - 2) + Len(Mark) - 1 = Len(s)
    BY <1>3, <1>4
  <2> QED BY <2>1, <1>5 DEF Places
<1>7. Len(c) - 2 \in Places(Mark, c)
  <2>1. Len(c) - 2 \in 1..(Len(c) - Len(Mark) + 1) /\ (Len(c) - 2) + Len(Mark) - 1 = Len(c)
    BY <1>1, <1>3, <1>4
  <2> QED BY <2>1, <1>1 DEF Places
<1>8. ~(Cardinality(Places(Mark, c)) > 1)
  BY DEF Splits, c
<1>9. Len(s) - 2 = Len(c) - 2
  BY <1>1, <1>2, <1>6, <1>7, <1>8, PlacesAreFinite
<1>10. Len(t) = 0
  BY <1>4, <1>9
<1> QED BY <1>10 DEF Texts

LEMMA EndOfPrefix ==
  ASSUME NEW T, NEW s \in Seq(T), NEW m \in 1..Len(s), NEW a \in 1..m
  PROVE  SubSeq(SubSeq(s, 1, m), a, m) = SubSeq(s, a, m)
OBVIOUS

LEMMA LocalsAreSound ==
  ASSUME Types, Buffers
  PROVE  Sound(l) /\ Held = HeldIn(l) /\ Held \in Texts /\ Len(Held) = l.msglen
BY SamePrefix DEF Types, Buffers, Sound, Locals, Held, HeldIn, Texts

\* A read moves what it reads from the wire to the buffer.
LEMMA ReadMoves ==
  ASSUME Types, Buffers, NEW n \in 1..blksize, Read(n)
  PROVE  /\ Sound(l') /\ wire' \in Texts /\ l'.buflen > 0
         /\ HeldIn(l') \in Texts /\ HeldIn(l') \o wire' = Held \o wire
         /\ thread = "read" /\ wire # <<>> /\ thread' \in {"read", "send"}
         /\ BufferBounds'
         /\ thread' = "send" =>
              /\ Len(HeldIn(l')) > 3
              /\ SubSeq(HeldIn(l'), Len(HeldIn(l')) - 2, Len(HeldIn(l'))) = Mark
<1> DEFINE piece == SubSeq(wire, 1, n)
           x == Filled(l, piece)
<1>1. /\ thread = "read" /\ n \in 1..l.ptrlen /\ n <= Len(wire)
      /\ wire' = SubSeq(wire, n + 1, Len(wire))
      /\ thread' = IF EndsMail(x, n) THEN "send" ELSE "read"
      /\ l' = CASE EndsMail(x, n) -> Terminated(x)
                [] ~EndsMail(x, n) /\ Full(x) -> Grown(x, n)
                [] ~EndsMail(x, n) /\ ~Full(x) -> Continued(x, n)
  BY DEF Read
<1>2. wire \in Texts /\ Len(wire) \in Nat /\ n \in Nat \ {0} /\ blksize \in Nat
  <2>1. wire \in Texts
    BY DEF Types
  <2>2. Len(wire) \in Nat
    BY ONLY <2>1 DEF Texts
  <2>3. blksize \in Nat
    BY RequestAssumption, Zenon
  <2> QED BY <2>1, <2>2, <2>3
<1>3. /\ piece \in Texts /\ Len(piece) = n /\ wire' \in Texts /\ piece \o wire' = wire
  <2>1. piece \in Texts /\ Len(piece) = n
    BY <1>1, <1>2 DEF Texts
  <2>2. wire' \in Texts
    BY <1>1, <1>2 DEF Texts
  <2>3. piece \o wire' = SubSeq(wire, 1, Len(wire))
    <3>1. 1 \in 1..Len(wire) + 1 /\ n \in 1 - 1..Len(wire) /\ Len(wire) \in n..Len(wire)
      BY <1>1, <1>2
    <3>2. SubSeq(wire, 1, n) \o SubSeq(wire, n + 1, Len(wire)) = SubSeq(wire, 1, Len(wire))
      BY <3>1, <1>2, ConcatAdjacentSubSeq DEF Texts
    <3> QED BY <3>2, <1>1, Zenon
  <2>4. SubSeq(wire, 1, Len(wire)) = wire
    BY <1>2, SubSeqFull DEF Texts
  <2> QED BY <2>1, <2>2, <2>3, <2>4, Zenon
<1>4. /\ Sound(l) /\ Held = HeldIn(l) /\ Held \in Texts /\ l.buflen > 0
      /\ l.ptr = l.msglen /\ l.ptr + l.ptrlen = l.buflen /\ l.buflen = Len(l.buf)
      /\ l.ptr \in Nat /\ l.ptrlen \in Nat /\ l.buflen \in Nat
  BY <1>1, LocalsAreSound DEF Types, Buffers, BufferBounds, LengthsAgree
<1> HIDE DEF piece
<1>5. /\ Sound(x) /\ HeldIn(x) = HeldIn(l) \o piece
      /\ x.msglen = l.msglen + n /\ Len(x.buf) = Len(l.buf)
      /\ x.ptr = l.ptr /\ x.buflen = l.buflen /\ x.ptrlen = l.ptrlen
  <2>1. l.ptr + Len(piece) <= Len(l.buf)
    BY <1>1, <1>2, <1>3, <1>4
  <2>2. x = Filled(l, piece)
    OBVIOUS
  <2> HIDE DEF x
  <2>3. /\ Sound(x) /\ HeldIn(x) = HeldIn(l) \o piece
        /\ x.msglen = l.msglen + Len(piece) /\ Len(x.buf) = Len(l.buf)
        /\ x.ptr = l.ptr /\ x.buflen = l.buflen /\ x.ptrlen = l.ptrlen
    <3>1. Sound(l) /\ piece \in Texts /\ l.ptr = l.msglen
      BY <1>3, <1>4
    <3> QED BY <3>1, <2>1, <2>2, FilledHolds, Zenon
  <2> QED BY <2>3, <1>3
<1> HIDE DEF x
<1>6. HeldIn(x) \o wire' = Held \o wire
  <2>1. Held \in Seq(Tokens) /\ piece \in Seq(Tokens) /\ wire' \in Seq(Tokens)
    BY <1>3, <1>4 DEF Texts
  <2>2. (Held \o piece) \o wire' = Held \o (piece \o wire')
    BY <2>1, ConcatAssociative
  <2> QED BY <2>2, <1>3, <1>4, <1>5
<1>7. HeldIn(x) \in Texts /\ Len(HeldIn(x)) = x.msglen
  <2>1. x.buf \in Seq(Tokens) /\ x.msglen \in Nat /\ x.msglen <= Len(x.buf)
    BY <1>5 DEF Sound, Locals, Texts
  <2> QED BY <2>1, SamePrefix DEF HeldIn, Texts
<1>8. /\ x.msglen \in Nat /\ x.ptr + n = x.msglen /\ x.ptr + n - 2 = x.msglen - 2
      /\ x.buflen = Len(x.buf) /\ x.buflen > 0 /\ n <= x.ptrlen /\ x.ptr + x.ptrlen = x.buflen
  BY <1>1, <1>2, <1>4, <1>5 DEF Sound, Locals
<1> DEFINE Marked == /\ x.msglen > 3
                     /\ SubSeq(HeldIn(x), x.msglen - 2, x.msglen) = Mark
<1>9. /\ Sound(l') /\ HeldIn(l') = HeldIn(x) /\ l'.buflen > 0 /\ BufferBounds'
      /\ thread' \in {"read", "send"} /\ (thread' = "send" => Marked)
  <2>1. CASE EndsMail(x, n)
    <3>1. l' = Terminated(x) /\ thread' = "send"
      BY <1>1, <2>1
    <3>2. Sound(l') /\ HeldIn(l') = HeldIn(x) /\ l'.msglen = x.msglen /\ Len(l'.buf) > l'.msglen
          /\ l'.buflen = x.buflen
      BY <3>1, <1>5, <1>8, TerminatedHolds
    <3>3. BufferBounds'
      BY <3>1, <3>2 DEF BufferBounds, Sound, NulsBehind
    <3>4. Marked
      <4>1. x.msglen > Len(Mark) /\ SubSeq(x.buf, x.ptr + n - 2, x.ptr + n) = Mark
        BY <2>1 DEF EndsMail
      <4>2. Len(Mark) = 3
        BY DEF Mark
      <4>3. x.msglen \in 1..Len(x.buf) /\ x.msglen - 2 \in 1..x.msglen /\ x.buf \in Seq(Tokens)
        <5>1. x.buf \in Seq(Tokens) /\ Len(x.buf) \in Nat /\ x.msglen <= Len(x.buf)
          BY <1>5 DEF Sound, Locals, Texts
        <5>2. x.msglen > 3
          BY <4>1, <4>2
        <5> QED BY <5>1, <5>2, <1>8
      <4>4. SubSeq(HeldIn(x), x.msglen - 2, x.msglen) = SubSeq(x.buf, x.msglen - 2, x.msglen)
        BY <4>3, EndOfPrefix DEF HeldIn
      <4> QED BY <4>1, <4>2, <4>4, <1>8
    <3> HIDE DEF Marked
    <3> QED BY <3>1, <3>2, <3>3, <3>4, <1>8
  <2>2. CASE ~EndsMail(x, n) /\ Full(x)
    <3>1. l' = Grown(x, n) /\ thread' = "read"
      BY <1>1, <2>2
    <3>2. /\ Sound(l') /\ HeldIn(l') = HeldIn(x)
          /\ l'.ptr = l'.msglen /\ l'.ptr + l'.ptrlen = l'.buflen /\ l'.buflen = Len(l'.buf)
          /\ l'.ptrlen > 0 /\ l'.buflen > 0
      <4>1. Sound(x) /\ x.buflen = Len(x.buf) /\ x.buflen > 0 /\ Full(x)
        BY <1>5, <1>8, <2>2
      <4> QED BY ONLY <3>1, <4>1, GrownHolds
    <3>3. BufferBounds'
      BY <3>1, <3>2 DEF BufferBounds, LengthsAgree
    <3> QED BY <3>1, <3>2, <3>3
  <2>3. CASE ~EndsMail(x, n) /\ ~Full(x)
    <3>1. l' = Continued(x, n) /\ thread' = "read"
      BY <1>1, <2>3
    <3>2. /\ Sound(l') /\ HeldIn(l') = HeldIn(x)
          /\ l'.ptr = l'.msglen /\ l'.ptr + l'.ptrlen = l'.buflen /\ l'.buflen = Len(l'.buf)
          /\ l'.buf[l'.buflen] = "nul" /\ l'.buflen = x.buflen
      <4>1. /\ Sound(x) /\ x.buflen = Len(x.buf) /\ ~Full(x) /\ n \in Nat
            /\ n <= x.ptrlen /\ x.ptr + n = x.msglen /\ x.ptr + x.ptrlen = x.buflen
        BY <1>2, <1>5, <1>8, <2>3
      <4> QED BY ONLY <3>1, <4>1, ContinuedHolds
    <3>3. BufferBounds'
      BY <3>1, <3>2 DEF BufferBounds, LengthsAgree
    <3> QED BY <3>1, <3>2, <3>3, <1>8
  <2> QED BY <2>1, <2>2, <2>3
<1>10. wire # <<>>
  BY <1>1, <1>2
<1> QED BY <1>1, <1>3, <1>6, <1>7, <1>9, <1>10

-----------------------------------------------------------------------------
(***************************************************************************)
(* The steps: types, the buffers and the text.                             *)
(***************************************************************************)

\* What SendMail does, whether its answer gets through or not.
LEMMA SendMailDoes ==
  ASSUME Types, Buffers, SendMail
  PROVE  /\ thread = "send" /\ UNCHANGED <<appVars, wire>>
         /\ l' = FreshBuf /\ thread' \in {"read", "ended"} /\ back' \in Seq(Nat)
         /\ handed' \in Seq([buf : Texts, len : Nat]) /\ Len(handed') = Len(handed) + 1
         /\ \A k \in 1..Len(handed) : handed'[k] = handed[k]
         /\ handed'[Len(handed) + 1] = [buf |-> l.buf, len |-> l.msglen]
         /\ app # "closed" => thread' = "read" /\ back' = Append(back, Len(handed) + 1)
<1>1. handed \in Seq([buf : Texts, len : Nat]) /\ [buf |-> l.buf, len |-> l.msglen] \in [buf : Texts, len : Nat]
  BY DEF Types
<1>2. handed' = Append(handed, [buf |-> l.buf, len |-> l.msglen])
  BY DEF SendMail
<1>3. /\ handed' \in Seq([buf : Texts, len : Nat]) /\ Len(handed') = Len(handed) + 1 /\ Len(handed') \in Nat
      /\ \A k \in 1..Len(handed) : handed'[k] = handed[k]
      /\ handed'[Len(handed) + 1] = [buf |-> l.buf, len |-> l.msglen]
  <2> DEFINE r == [buf |-> l.buf, len |-> l.msglen]
             R == [buf : Texts, len : Nat]
  <2>1. handed \in Seq(R) /\ r \in R
    BY <1>1
  <2> HIDE DEF r, R
  <2>2. /\ Append(handed, r) \in Seq(R) /\ Len(Append(handed, r)) = Len(handed) + 1
        /\ Len(Append(handed, r)) \in Nat
        /\ \A k \in 1..Len(handed) : Append(handed, r)[k] = handed[k]
        /\ Append(handed, r)[Len(handed) + 1] = r
    BY <2>1
  <2> QED BY <2>2, <1>2 DEF r, R
<1>4. back' \in Seq(Nat) /\ (app # "closed" => thread' = "read" /\ back' = Append(back, Len(handed) + 1))
  <2>1. back \in Seq(Nat)
    BY DEF Types
  <2>2. \/ back' = Append(back, Len(handed')) /\ thread' = "read"
        \/ app = "closed" /\ back' = back
    BY DEF SendMail
  <2>3. Append(back, Len(handed')) \in Seq(Nat)
    BY <2>1, <1>3
  <2> QED BY <2>1, <2>2, <2>3, <1>3
<1>5. thread = "send" /\ UNCHANGED <<appVars, wire>> /\ l' = FreshBuf /\ thread' \in {"read", "ended"}
  BY DEF SendMail
<1> QED BY <1>3, <1>4, <1>5

\* What Write does.
LEMMA WriteDoes ==
  ASSUME Types, NEW mail \in Mails, Write(mail)
  PROVE  /\ app = "ready" /\ app' = "waiting" /\ UNCHANGED <<late, back, thread, l, handed>>
         /\ asked' \in Seq(Mails) /\ Len(asked') = Len(asked) + 1
         /\ \A k \in 1..Len(asked) : asked'[k] = asked[k]
         /\ asked'[Len(asked) + 1] = mail
         /\ got' \in Seq(Nat) /\ Len(got') = Len(got) + 1
         /\ \A k \in 1..Len(got) : got'[k] = got[k]
         /\ got'[Len(got) + 1] = 0
         /\ wire' \in Texts /\ wire' = wire \o Composed(mail)
<1>1. /\ app = "ready" /\ app' = "waiting" /\ UNCHANGED <<late, back, thread, l, handed>>
      /\ asked' = Append(asked, mail) /\ got' = Append(got, 0)
      /\ wire' = wire \o Composed(mail)
  BY DEF Write
<1>2. asked \in Seq(Mails) /\ got \in Seq(Nat) /\ wire \in Texts
  BY DEF Types
<1>3. wire \o Composed(mail) \in Texts
  BY <1>2, ComposedEnds, Joined DEF Texts
<1>4. /\ asked' \in Seq(Mails) /\ Len(asked') = Len(asked) + 1
      /\ \A k \in 1..Len(asked) : asked'[k] = asked[k]
      /\ asked'[Len(asked) + 1] = mail
  BY <1>1, <1>2
<1>5. /\ got' \in Seq(Nat) /\ Len(got') = Len(got) + 1
      /\ \A k \in 1..Len(got) : got'[k] = got[k]
      /\ got'[Len(got) + 1] = 0
  BY <1>1, <1>2
<1> QED BY <1>1, <1>3, <1>4, <1>5

\* What ReadAnswer does.
LEMMA ReadAnswerDoes ==
  ASSUME Types, ReadAnswer
  PROVE  /\ app = "waiting" /\ app' = "ready" /\ back # <<>> /\ back' = Tail(back) /\ back' \in Seq(Nat)
         /\ UNCHANGED <<asked, late, wire, thread, l, handed>>
         /\ got' \in Seq(Nat) /\ Len(got') = Len(got) /\ Len(got) \in 1..Len(got)
         /\ got'[Len(got)] = Head(back) /\ \A k \in 1..(Len(got) - 1) : got'[k] = got[k]
<1>1. /\ app = "waiting" /\ app' = "ready" /\ back # <<>> /\ back' = Tail(back)
      /\ UNCHANGED <<asked, late, wire, thread, l, handed>>
      /\ got' = [got EXCEPT ![Len(got)] = Head(back)]
  BY DEF ReadAnswer
<1>2. back \in Seq(Nat) /\ got \in Seq(Nat) /\ asked \in Seq(Mails) /\ asked # <<>> /\ Len(got) = Len(asked)
  BY <1>1 DEF Types
<1>3. Head(back) \in Nat /\ Tail(back) \in Seq(Nat) /\ Len(got) \in 1..Len(got)
  BY <1>1, <1>2
<1> QED BY <1>1, <1>2, <1>3

LEMMA TypesKept ==
  ASSUME Types, Buffers, [Next]_vars
  PROVE  Types'
<1> USE DEF Types
<1>1. ASSUME NEW mail \in Mails, Write(mail) PROVE Types'
  <2>1. /\ app' = "waiting" /\ UNCHANGED <<late, back, thread, l, handed>>
        /\ asked' \in Seq(Mails) /\ Len(asked') = Len(asked) + 1
        /\ got' \in Seq(Nat) /\ Len(got') = Len(got) + 1 /\ wire' \in Texts
    BY <1>1, WriteDoes
  <2>2. Len(asked) \in Nat
    OBVIOUS
  <2>3. late' \subseteq 1..Len(asked') /\ asked' # <<>> /\ Len(asked') \notin late'
    BY <2>1, <2>2
  <2>4. got' \in Seq(Nat) /\ Len(got') = Len(asked')
    BY <2>1
  <2> QED BY <2>1, <2>3, <2>4
<1>2. CASE ReadAnswer
  BY <1>2, ReadAnswerDoes
<1>3. CASE ReadNothing \/ TimeOut \/ Close
  <2>1. Len(asked) \in Nat /\ (asked # <<>> => Len(asked) \in 1..Len(asked))
    OBVIOUS
  <2> QED BY <2>1, <1>3 DEF ReadNothing, TimeOut, Close
<1>4. ASSUME NEW n \in 1..blksize, Read(n) PROVE Types'
  <2>1. Sound(l') /\ wire' \in Texts /\ thread' \in {"read", "send"}
    BY <1>4, ReadMoves
  <2>2. UNCHANGED <<asked, got, late, app, back, handed>>
    BY <1>4 DEF Read, appVars
  <2> QED BY <2>1, <2>2 DEF Sound, Locals
<1>5. CASE ReadEnd \/ PollEnd
  BY <1>5 DEF ReadEnd, PollEnd, appVars
<1>6. CASE SendMail
  <2>1. FreshBuf \in Locals
    BY FreshHolds DEF Sound
  <2> QED BY <2>1, <1>6, SendMailDoes DEF Locals, appVars
<1>7. CASE UNCHANGED vars
  BY <1>7 DEF vars, appVars
<1> QED BY <1>1, <1>2, <1>3, <1>4, <1>5, <1>6, <1>7 DEF Next, AppStep, ThreadStep

LEMMA BuffersKept ==
  ASSUME Types, Buffers, [Next]_vars
  PROVE  Buffers'
<1>1. ASSUME UNCHANGED <<l, handed>>, thread' \in {thread, "ended"} PROVE Buffers'
  BY <1>1 DEF Buffers, BufferBounds, LengthsAgree, NulsBehind
<1>2. ASSUME NEW mail \in Mails, Write(mail) PROVE Buffers'
  BY <1>1, <1>2 DEF Write
<1>3. CASE ReadAnswer \/ ReadNothing \/ TimeOut \/ Close \/ ReadEnd \/ PollEnd \/ UNCHANGED vars
  BY <1>1, <1>3 DEF ReadAnswer, ReadNothing, TimeOut, Close, ReadEnd, PollEnd, vars, appVars
<1>4. ASSUME NEW n \in 1..blksize, Read(n) PROVE Buffers'
  <2>1. Sound(l') /\ l'.buflen > 0 /\ BufferBounds'
    BY <1>4, ReadMoves
  <2>2. UNCHANGED handed
    BY <1>4 DEF Read
  <2> QED BY <2>1, <2>2 DEF Buffers, Sound, NulsBehind
<1>5. CASE SendMail
  <2>1. /\ Sound(FreshBuf) /\ FreshBuf.msglen = 0 /\ FreshBuf.ptr = 0
        /\ FreshBuf.ptrlen = FreshBuf.buflen /\ FreshBuf.buflen = Len(FreshBuf.buf) /\ FreshBuf.buflen > 0
    BY FreshHolds
  <2>2. /\ thread = "send" /\ l' = FreshBuf /\ thread' \in {"read", "ended"}
        /\ Len(handed') = Len(handed) + 1
        /\ \A k \in 1..Len(handed) : handed'[k] = handed[k]
        /\ handed'[Len(handed) + 1] = [buf |-> l.buf, len |-> l.msglen]
    BY <1>5, SendMailDoes
  <2>3. BufferBounds'
    <3>1. FreshBuf.buflen \in Nat /\ FreshBuf.ptr + FreshBuf.ptrlen = FreshBuf.buflen
      BY <2>1 DEF Sound, Locals
    <3>2. (thread = "read" => LengthsAgree /\ (l.ptrlen = 0 => l.buf[l.buflen] = "nul"))'
      BY <2>1, <2>2, <3>1 DEF LengthsAgree
    <3>3. thread' # "send"
      BY <2>2
    <3> QED BY <3>2, <3>3 DEF BufferBounds
  <2>4. ASSUME NEW k \in 1..Len(handed')
        PROVE  handed'[k].len < Len(handed'[k].buf) /\ NulsBehind(handed'[k].buf, handed'[k].len)
    <3>1. Len(handed) \in Nat
      BY DEF Types
    <3>2. CASE k \in 1..Len(handed)
      <4>1. handed[k].len < Len(handed[k].buf) /\ NulsBehind(handed[k].buf, handed[k].len)
        BY <3>2 DEF Buffers
      <4> QED BY <4>1, <3>2, <2>2
    <3>3. CASE k = Len(handed) + 1
      <4>1. handed'[k].buf = l.buf /\ handed'[k].len = l.msglen
        BY <3>3, <2>2
      <4>2. l.buf \in Texts /\ l.msglen \in Nat /\ Len(l.buf) \in Nat
        BY DEF Types, Texts
      <4>3. Len(l.buf) > l.msglen /\ NulsBehind(l.buf, l.msglen)
        BY <2>2 DEF Buffers, BufferBounds
      <4> QED BY <4>1, <4>2, <4>3
    <3> QED BY <3>1, <3>2, <3>3, <2>2
  <2>5. l'.msglen <= Len(l'.buf) /\ NulsBehind(l'.buf, l'.msglen) /\ l'.buflen > 0
    BY <2>1, <2>2 DEF Sound
  <2> QED BY <2>3, <2>4, <2>5 DEF Buffers
<1> QED BY <1>2, <1>3, <1>4, <1>5 DEF Next, AppStep, ThreadStep, vars

\* The requests h, and the mails a as they are written.
RequestsOf(h) == [i \in 1..Len(h) |-> SubSeq(h[i].buf, 1, h[i].len)]
WrittenOf(a) == [i \in 1..Len(a) |-> Composed(a[i])]

LEMMA RequestsType ==
  ASSUME NEW R, R = [buf : Texts, len : Nat], NEW h \in Seq(R),
         \A k \in 1..Len(h) : h[k].len < Len(h[k].buf)
  PROVE  RequestsOf(h) \in Seq(Texts) /\ Len(RequestsOf(h)) = Len(h)
<1>1. Len(h) \in Nat /\ \A i \in 1..Len(h) : h[i] \in R
  BY LenProperties, ElementOfSeq, Zenon
<1>2. ASSUME NEW i \in 1..Len(h) PROVE SubSeq(h[i].buf, 1, h[i].len) \in Texts
  <2>1. h[i] \in [buf : Texts, len : Nat]
    BY <1>1
  <2>2. h[i].buf \in Texts /\ h[i].len \in Nat
    BY <2>1
  <2>3. h[i].len < Len(h[i].buf)
    OBVIOUS
  <2> QED BY <2>2, <2>3, SamePrefix DEF Texts
<1>3. RequestsOf(h) \in [1..Len(h) -> Texts]
  BY <1>2 DEF RequestsOf
<1> QED BY <1>1, <1>3, FunctionIsText

LEMMA WrittenType ==
  ASSUME NEW a \in Seq(Mails)
  PROVE  WrittenOf(a) \in Seq(Texts) /\ Len(WrittenOf(a)) = Len(a)
<1>1. Len(a) \in Nat /\ \A i \in 1..Len(a) : a[i] \in Mails
  OBVIOUS
<1>2. WrittenOf(a) \in [1..Len(a) -> Texts]
  BY <1>1, ComposedEnds DEF WrittenOf
<1> QED BY <1>1, <1>2, FunctionIsText

LEMMA Associated ==
  ASSUME NEW T, NEW s \in Seq(T), NEW t \in Seq(T), NEW u \in Seq(T)
  PROVE  (s \o t) \o u = s \o (t \o u)
BY ConcatAssociative

LEMMA Regrouped == \A r, s, t \in Seq(Tokens) : (r \o s) \o t = r \o (s \o t)
BY Associated

LEMMA NothingIsLost ==
  ASSUME Types, Buffers, NothingLost, [Next]_vars
  PROVE  NothingLost'
<1> DEFINE R == FlattenSeq(RequestsOf(handed))
           W == FlattenSeq(WrittenOf(asked))
<1>1. NothingLost <=> (R \o Held) \o wire = W
  BY DEF NothingLost, RequestsOf, WrittenOf, Held
<1>2. NothingLost' <=> (R' \o Held') \o wire' = W'
  BY DEF NothingLost, RequestsOf, WrittenOf, Held
<1>3. /\ RequestsOf(handed) \in Seq(Texts) /\ Len(RequestsOf(handed)) = Len(handed)
      /\ WrittenOf(asked) \in Seq(Texts) /\ Len(WrittenOf(asked)) = Len(asked)
      /\ Len(asked) \in Nat /\ Len(handed) \in Nat
  <2>1. /\ handed \in Seq([buf : Texts, len : Nat]) /\ asked \in Seq(Mails)
        /\ \A k \in 1..Len(handed) : handed[k].len < Len(handed[k].buf)
    BY DEF Types, Buffers
  <2> QED BY <2>1, RequestsType, WrittenType, LenProperties, Zenon
<1>4. Types' /\ Buffers'
  BY TypesKept, BuffersKept
<1>5. /\ RequestsOf(handed') \in Seq(Texts) /\ Len(RequestsOf(handed')) = Len(handed')
      /\ WrittenOf(asked') \in Seq(Texts) /\ Len(WrittenOf(asked')) = Len(asked')
  <2>1. /\ handed' \in Seq([buf : Texts, len : Nat]) /\ asked' \in Seq(Mails)
        /\ \A k \in 1..Len(handed') : handed'[k].len < Len(handed'[k].buf)
    BY <1>4 DEF Types, Buffers
  <2> QED BY <2>1, RequestsType, WrittenType, Zenon
<1>6. /\ R \in Texts /\ W \in Texts /\ wire \in Texts /\ Held \in Texts /\ Held = HeldIn(l)
  BY <1>3, FlattenType, LocalsAreSound DEF Texts, Types
<1>7. (R \o Held) \o wire = W
  BY <1>1
<1>8. ASSUME UNCHANGED <<asked, handed, l, wire>> PROVE NothingLost'
  BY <1>8 DEF NothingLost
<1>9. ASSUME NEW mail \in Mails, Write(mail) PROVE NothingLost'
  <2>1. /\ UNCHANGED <<l, handed>> /\ asked' \in Seq(Mails) /\ Len(asked') = Len(asked) + 1
        /\ \A k \in 1..Len(asked) : asked'[k] = asked[k]
        /\ asked'[Len(asked) + 1] = mail /\ wire' = wire \o Composed(mail)
    BY <1>9, WriteDoes
  <2>2. R' = R /\ Held' = Held
    BY <2>1 DEF Held, RequestsOf
  <2>3. W' = W \o Composed(mail)
    <3>1. \A i \in 1..Len(asked) : WrittenOf(asked')[i] = WrittenOf(asked)[i]
      BY <2>1, <1>3 DEF WrittenOf
    <3>2. WrittenOf(asked')[Len(asked) + 1] = Composed(mail)
      BY <2>1, <1>3 DEF WrittenOf
    <3> DEFINE v == WrittenOf(asked)
               w == WrittenOf(asked')
    <3>3. /\ v \in Seq(Seq(Tokens)) /\ w \in Seq(Seq(Tokens)) /\ Len(w) = Len(v) + 1
          /\ (\A i \in 1..Len(v) : w[i] = v[i]) /\ w[Len(w)] = Composed(mail)
      BY <3>1, <3>2, <2>1, <1>3, <1>5 DEF Texts
    <3> HIDE DEF v, w
    <3>4. FlattenSeq(w) = FlattenSeq(v) \o w[Len(w)]
      BY <3>3, FlattenLonger
    <3> QED BY <3>3, <3>4 DEF v, w
  <2>4. Composed(mail) \in Texts
    BY ComposedEnds
  <2> HIDE DEF R, W
  <2>5. R \o Held \in Seq(Tokens) /\ wire \in Seq(Tokens) /\ Composed(mail) \in Seq(Tokens)
    BY <2>4, <1>6 DEF Texts
  <2>6. (R \o Held) \o (wire \o Composed(mail)) = ((R \o Held) \o wire) \o Composed(mail)
    BY ONLY <2>5, Regrouped
  <2> QED BY <2>1, <2>2, <2>3, <2>6, <1>2, <1>7
<1>10. ASSUME NEW n \in 1..blksize, Read(n) PROVE NothingLost'
  <2>1. HeldIn(l') \in Texts /\ wire' \in Texts /\ HeldIn(l') \o wire' = Held \o wire
    BY <1>10, ReadMoves
  <2>2. UNCHANGED <<asked, handed>>
    BY <1>10 DEF Read, appVars
  <2>3. R' = R /\ W' = W
    BY <2>2 DEF RequestsOf, WrittenOf
  <2>4. Held' = HeldIn(l')
    BY DEF Held, HeldIn
  <2> HIDE DEF R, W
  <2> DEFINE h == HeldIn(l')
             w == wire'
  <2>5. h \in Seq(Tokens) /\ w \in Seq(Tokens)
    BY <2>1 DEF Texts
  <2>6. h \o w = Held \o wire
    BY <2>1
  <2>7. R \in Seq(Tokens) /\ Held \in Seq(Tokens) /\ wire \in Seq(Tokens)
    BY <1>6 DEF Texts
  <2>8. (R' \o Held') \o wire' = (R \o h) \o w
    BY <2>3, <2>4
  <2> HIDE DEF h, w
  <2>9. (R \o h) \o w = R \o (h \o w)
    <3>1. R \in Seq(Tokens) /\ h \in Seq(Tokens) /\ w \in Seq(Tokens)
      BY <2>5, <2>7
    <3> QED BY ONLY <3>1, Regrouped
  <2>10. (R \o Held) \o wire = R \o (Held \o wire)
    BY ONLY <2>7, Regrouped
  <2> QED BY <2>3, <2>6, <2>8, <2>9, <2>10, <1>2, <1>7
<1>11. CASE SendMail
  <2>1. /\ UNCHANGED <<asked, wire>> /\ l' = FreshBuf /\ Len(handed') = Len(handed) + 1
        /\ \A k \in 1..Len(handed) : handed'[k] = handed[k]
        /\ handed'[Len(handed) + 1] = [buf |-> l.buf, len |-> l.msglen]
    BY <1>11, SendMailDoes DEF appVars
  <2>2. W' = W
    BY <2>1 DEF WrittenOf
  <2>3. Held' = <<>>
    BY <2>1, FreshHolds DEF Held, HeldIn
  <2>4. R' = R \o Held
    <3>1. ASSUME NEW i \in 1..Len(handed) PROVE RequestsOf(handed')[i] = RequestsOf(handed)[i]
      <4>1. i \in 1..Len(handed') /\ handed'[i] = handed[i]
        BY <2>1, <1>3
      <4> QED BY <4>1 DEF RequestsOf
    <3>2. RequestsOf(handed')[Len(handed) + 1] = Held
      <4>1. Len(handed) + 1 \in 1..Len(handed')
        BY <2>1, <1>3
      <4>2. handed'[Len(handed) + 1].buf = l.buf /\ handed'[Len(handed) + 1].len = l.msglen
        BY <2>1
      <4> QED BY <4>1, <4>2 DEF RequestsOf, Held
    <3> DEFINE v == RequestsOf(handed)
               w == RequestsOf(handed')
    <3>3. /\ v \in Seq(Seq(Tokens)) /\ w \in Seq(Seq(Tokens)) /\ Len(w) = Len(v) + 1
          /\ (\A i \in 1..Len(v) : w[i] = v[i]) /\ w[Len(w)] = Held
      BY <3>1, <3>2, <2>1, <1>3, <1>5 DEF Texts
    <3> HIDE DEF v, w
    <3>4. FlattenSeq(w) = FlattenSeq(v) \o w[Len(w)]
      BY <3>3, FlattenLonger
    <3> QED BY <3>3, <3>4 DEF v, w
  <2> HIDE DEF R, W
  <2>5. R \o Held \in Seq(Tokens)
    BY <1>6 DEF Texts
  <2>6. (R \o Held) \o <<>> = R \o Held
    BY <2>5, ConcatEmptySeq
  <2> QED BY <2>1, <2>2, <2>3, <2>4, <2>6, <1>2, <1>7
<1> QED BY <1>8, <1>9, <1>10, <1>11
        DEF Next, AppStep, ThreadStep, ReadAnswer, ReadNothing, TimeOut, Close, ReadEnd, PollEnd, vars, appVars

-----------------------------------------------------------------------------
(***************************************************************************)
(* The steps: whose mail is answered.                                      *)
(***************************************************************************)

LEMMA InStepNext ==
  ASSUME NEW k \in Nat \ {0}
  PROVE  /\ InStep(k + 1) <=> Told(k) /\ k \notin late
         /\ \A j \in 1..k : InStep(k + 1) => InStep(j + 1) /\ InStep(j) /\ Told(j) /\ j \notin late
BY DEF InStep, Told

\* No step takes back what was written, handed over or left behind.
LEMMA OnlyMore ==
  ASSUME Types, Buffers, [Next]_vars
  PROVE  /\ Len(asked) \in Nat /\ Len(asked') \in Nat /\ Len(asked') >= Len(asked)
         /\ \A k \in 1..Len(asked) : asked'[k] = asked[k]
         /\ Len(handed) \in Nat /\ Len(handed') \in Nat /\ Len(handed') >= Len(handed)
         /\ \A k \in 1..Len(handed) : handed'[k] = handed[k]
         /\ late \subseteq late'
<1>1. Len(asked) \in Nat /\ Len(handed) \in Nat /\ Len(asked') \in Nat /\ Len(handed') \in Nat
  <2>1. Types'
    BY TypesKept
  <2> QED BY <2>1, LenProperties DEF Types
<1>2. ASSUME UNCHANGED <<asked, handed>>, late \subseteq late'
      PROVE  /\ Len(asked') >= Len(asked) /\ Len(handed') >= Len(handed) /\ late \subseteq late'
             /\ \A k \in 1..Len(asked) : asked'[k] = asked[k]
             /\ \A k \in 1..Len(handed) : handed'[k] = handed[k]
  BY <1>1, <1>2
<1>3. ASSUME NEW mail \in Mails, Write(mail)
      PROVE  /\ Len(asked') >= Len(asked) /\ Len(handed') >= Len(handed) /\ late \subseteq late'
             /\ \A k \in 1..Len(asked) : asked'[k] = asked[k]
             /\ \A k \in 1..Len(handed) : handed'[k] = handed[k]
  BY <1>1, <1>3, WriteDoes
<1>4. CASE SendMail
  <2>1. UNCHANGED <<asked, late>> /\ Len(handed') = Len(handed) + 1
        /\ \A k \in 1..Len(handed) : handed'[k] = handed[k]
    BY <1>4, SendMailDoes DEF appVars
  <2> QED BY <2>1, <1>1
<1>5. CASE \/ ReadAnswer \/ ReadNothing \/ TimeOut \/ Close \/ ReadEnd \/ PollEnd
           \/ UNCHANGED vars \/ \E n \in 1..blksize : Read(n)
  <2>1. UNCHANGED <<asked, handed>> /\ late \subseteq late'
    BY <1>5 DEF ReadAnswer, ReadNothing, TimeOut, Close, ReadEnd, PollEnd, Read, vars, appVars
  <2> QED BY <2>1, <1>1, <1>2
<1> QED BY <1>1, <1>3, <1>4, <1>5 DEF Next, AppStep, ThreadStep

\* What is in step was in step before, and a mail handed over stays so.
LEMMA OrderStays ==
  ASSUME Types, Buffers, [Next]_vars
  PROVE  /\ \A k \in 1..(Len(asked) + 1) : InStep(k)' => InStep(k)
         /\ \A k \in 1..Len(asked) : Told(k)' => Told(k)
         /\ \A n, k \in Nat : k \in 1..Len(asked) /\ Whole(n, k) => Whole(n, k)'
<1>1. /\ Len(asked) \in Nat /\ Len(asked') \in Nat /\ Len(asked') >= Len(asked)
      /\ \A k \in 1..Len(asked) : asked'[k] = asked[k]
      /\ Len(handed) \in Nat /\ Len(handed') \in Nat /\ Len(handed') >= Len(handed)
      /\ \A k \in 1..Len(handed) : handed'[k] = handed[k]
      /\ late \subseteq late'
  BY OnlyMore
<1>2. ASSUME NEW k \in 1..(Len(asked) + 1), InStep(k)' PROVE InStep(k)
  <2> SUFFICES ASSUME NEW j \in 1..(k - 1) PROVE j \notin late /\ ~Splits(asked[j])
    BY DEF InStep
  <2>1. j \in 1..Len(asked) /\ asked'[j] = asked[j]
    BY <1>1
  <2>2. j \notin late' /\ ~Splits(asked'[j])
    BY <1>2 DEF InStep, Splits
  <2> QED BY <2>1, <2>2, <1>1
<1>3. ASSUME NEW k \in 1..Len(asked), Told(k)' PROVE Told(k)
  <2>1. k \in 1..(Len(asked) + 1) /\ InStep(k)' /\ ~Splits(asked'[k])
    BY <1>1, <1>3 DEF Told, Splits
  <2> QED BY <2>1, <1>1, <1>2 DEF Told
<1>4. ASSUME NEW n \in Nat, NEW k \in Nat, k \in 1..Len(asked), Whole(n, k) PROVE Whole(n, k)'
  <2>1. n \in 1..Len(handed) /\ Request(n) = Composed(asked[k])
    BY <1>4 DEF Whole
  <2>2. handed'[n] = handed[n] /\ asked'[k] = asked[k] /\ n \in 1..Len(handed')
    BY <2>1, <1>1, <1>4
  <2> QED BY <2>1, <2>2 DEF Whole, Request
<1> QED BY <1>2, <1>3, <1>4

LEMMA OrderAfterWrite ==
  ASSUME Types, Buffers, Order, NEW mail \in Mails, Write(mail)
  PROVE  Order'
<1>0. PICK N \in Nat : N = Len(asked)
  BY LenProperties DEF Types
<1>1. /\ app = "ready" /\ app' = "waiting" /\ UNCHANGED <<late, back, thread, l, handed>>
      /\ Len(asked') = N + 1 /\ asked'[N + 1] = mail /\ \A k \in 1..N : asked'[k] = asked[k]
      /\ wire' = wire \o Composed(mail)
      /\ got'[N + 1] = 0 /\ \A k \in 1..N : got'[k] = got[k]
  BY <1>0, WriteDoes DEF Types
<1>2. /\ N \in Nat /\ Len(handed) \in Nat
      /\ \A k \in 1..(N + 1) : InStep(k)' => InStep(k)
      /\ \A k \in 1..N : Told(k)' => Told(k)
      /\ \A n, k \in Nat : k \in 1..N /\ Whole(n, k) => Whole(n, k)'
      /\ got \in Seq(Nat) /\ Len(got) = N
  <2>1. [Next]_vars
    BY DEF Next
  <2>2. got \in Seq(Nat) /\ Len(got) = N
    BY <1>0 DEF Types
  <2> QED BY <1>0, <2>1, <2>2, OnlyMore, OrderStays
<1>3. InStep(N + 1) => /\ back = <<>> /\ Len(handed) <= N
                       /\ \/ thread = "ended"
                          \/ thread = "read" /\ l.msglen = 0 /\ wire = <<>> /\ Len(handed) = N
  BY <1>0, <1>1 DEF Order, Quiet
<1>4. Turn'
  <2> SUFFICES ASSUME Told(N + 1)'
               PROVE  \/ /\ thread' \in {"read", "send"} /\ back' = <<>> /\ Len(handed') = (N + 1) - 1
                         /\ Held' \o wire' = Composed(asked'[N + 1])
                         /\ thread' = "send" => wire' = <<>>
                      \/ thread' = "ended" /\ back' = <<>> /\ Len(handed') < N + 1
    BY <1>0, <1>1 DEF Turn
  <2>1. InStep(N + 1)
    <3>1. InStep(N + 1)' /\ N + 1 \in 1..(N + 1)
      BY <1>2 DEF Told
    <3> QED BY <3>1, <1>2
  <2>2. CASE thread = "ended"
    BY <2>1, <2>2, <1>1, <1>2, <1>3
  <2>3. CASE thread = "read" /\ l.msglen = 0 /\ wire = <<>> /\ Len(handed) = N
    <3>1. Held' = <<>>
      BY <2>3, <1>1 DEF Held
    <3>2. Composed(mail) \in Seq(Tokens) /\ wire' = Composed(mail)
      <4>1. Composed(mail) \in Seq(Tokens)
        BY ComposedEnds DEF Texts
      <4> QED BY ONLY <4>1, <1>1, <2>3, ConcatEmptySeq
    <3>3. Held' \o wire' = Composed(mail)
      BY ONLY <3>1, <3>2, ConcatEmptySeq
    <3> QED BY <2>1, <2>3, <3>3, <1>1, <1>2, <1>3
  <2> QED BY <2>1, <2>2, <2>3, <1>3
<1>5. Quiet'
  BY <1>1 DEF Quiet
<1>6. Served'
  <2> SUFFICES ASSUME NEW k \in 1..(N + 1), InStep(k + 1)', k < N + 1
               PROVE  k <= Len(handed) \/ thread = "ended"
    BY <1>0, <1>1 DEF Served
  <2>1. k \in 1..N /\ k + 1 \in 1..(N + 1)
    BY <1>2
  <2> QED BY <2>1, <1>1, <1>0, <1>2 DEF Order, Served
<1>7. RequestsAreMails'
  <2> SUFFICES ASSUME NEW k \in 1..Len(handed), k <= N + 1, InStep(k + 1)' PROVE Whole(k, k)'
    BY <1>0, <1>1 DEF RequestsAreMails
  <2>1. InStep(k)'
    BY <1>2 DEF InStep
  <2>2. k # N + 1
    BY <2>1, <1>2, <1>3
  <2>3. k \in 1..N /\ k + 1 \in 1..(N + 1) /\ k \in Nat
    BY <2>2, <1>2
  <2>4. Whole(k, k)
    BY <2>3, <1>0, <1>2 DEF Order, RequestsAreMails
  <2> QED BY <2>3, <2>4, <1>2
<1>8. AnswersAreOwn'
  <2> SUFFICES ASSUME NEW k \in 1..(N + 1), Told(k)', got'[k] # 0 PROVE Whole(got[k], k)'
    BY <1>0, <1>1 DEF AnswersAreOwn
  <2>1. k \in 1..N /\ k \in Nat /\ got'[k] = got[k]
    BY <1>1, <1>2
  <2>2. got[k] \in Nat /\ Whole(got[k], k)
    BY <2>1, <1>0, <1>2 DEF Order, AnswersAreOwn
  <2>3. Whole(got[k], k)'
    BY <2>1, <2>2, <1>2
  <2> QED BY <2>1, <2>3 DEF Whole, Request
<1> QED BY <1>4, <1>5, <1>6, <1>7, <1>8 DEF Order

\* A step that leaves the mails and the requests alone.
LEMMA RestStays ==
  ASSUME Types, Buffers, Order, [Next]_vars, UNCHANGED <<asked, handed>>
  PROVE  /\ RequestsAreMails'
         /\ \A k \in 1..Len(asked) : got'[k] = got[k] => (Told(k)' /\ got'[k] # 0 => Whole(got[k], k)')
<1>1. Len(asked) \in Nat /\ Len(handed) \in Nat /\ got \in Seq(Nat) /\ Len(got) = Len(asked)
  BY LenProperties DEF Types
<1>2. ASSUME NEW k \in 1..Len(handed), k <= Len(asked), InStep(k + 1)' PROVE Whole(k, k)'
  <2>1. k \in Nat /\ k \in 1..Len(asked) /\ k + 1 \in 1..(Len(asked) + 1)
    BY <1>1, <1>2
  <2>2. Whole(k, k)
    BY <1>2, <2>1, OrderStays DEF Order, RequestsAreMails
  <2> QED BY <2>1, <2>2, OrderStays
<1>3. ASSUME NEW k \in 1..Len(asked), got'[k] = got[k], Told(k)', got'[k] # 0 PROVE Whole(got[k], k)'
  <2>1. k \in Nat /\ got[k] \in Nat /\ got[k] # 0
    BY <1>1, <1>3
  <2>2. Whole(got[k], k)
    BY <1>3, <2>1, OrderStays DEF Order, AnswersAreOwn
  <2>3. \A n \in Nat : Whole(n, k) => Whole(n, k)'
    BY <2>1, <1>3, OrderStays
  <2>4. PICK n \in Nat : n = got[k]
    BY <2>1
  <2>5. Whole(n, k)'
    BY <2>2, <2>3, <2>4
  <2> QED BY <2>4, <2>5, <1>3 DEF Whole, Request
<1>4. RequestsAreMails'
  BY <1>2 DEF RequestsAreMails
<1> QED BY <1>3, <1>4

LEMMA OrderAfterRead ==
  ASSUME Types, Buffers, Order, NEW n \in 1..blksize, Read(n)
  PROVE  Order'
<1>0. PICK N \in Nat : N = Len(asked)
  BY LenProperties DEF Types
<1>1. UNCHANGED <<asked, got, late, app, back, handed>>
  BY DEF Read, appVars
<1>2. /\ thread = "read" /\ wire # <<>> /\ thread' \in {"read", "send"}
      /\ HeldIn(l') \in Texts /\ wire' \in Texts /\ HeldIn(l') \o wire' = Held \o wire
      /\ thread' = "send" => /\ Len(HeldIn(l')) > 3
                             /\ SubSeq(HeldIn(l'), Len(HeldIn(l')) - 2, Len(HeldIn(l'))) = Mark
  BY ReadMoves
<1>3. RequestsAreMails' /\ AnswersAreOwn'
  <2>1. [Next]_vars
    BY DEF Next, ThreadStep
  <2> QED BY <2>1, <1>1, RestStays DEF AnswersAreOwn
<1>4. Quiet' /\ Served'
  BY <1>1, <1>2 DEF Order, Quiet, Served, InStep
<1>5. Turn'
  <2> SUFFICES ASSUME app = "waiting", Told(N)'
               PROVE  /\ thread' \in {"read", "send"} /\ back' = <<>> /\ Len(handed') = N - 1
                      /\ Held' \o wire' = Composed(asked'[N])
                      /\ thread' = "send" => wire' = <<>>
    BY <1>0, <1>1 DEF Turn
  <2>1. Told(N) /\ N \in 1..Len(asked) /\ asked[N] \in Mails
    BY <1>0, <1>1 DEF Types, Told, InStep, Splits
  <2>2. back = <<>> /\ Len(handed) = N - 1 /\ Held \o wire = Composed(asked[N])
    BY <1>0, <1>2, <2>1 DEF Order, Turn
  <2>3. Held' = HeldIn(l')
    BY DEF Held, HeldIn
  <2>4. ASSUME thread' = "send" PROVE wire' = <<>>
    <3>1. PICK s \in Texts, t \in Texts : s = HeldIn(l') /\ t = wire'
      BY <1>2
    <3>2. ~Splits(asked[N])
      BY <2>1 DEF Told
    <3>3. s \o t = Composed(asked[N]) /\ Len(s) > 3 /\ SubSeq(s, Len(s) - 2, Len(s)) = Mark
      BY <1>2, <2>2, <2>4, <3>1
    <3>4. t = <<>>
      BY <2>1, <3>2, <3>3, MarkEnds
    <3> QED BY <3>1, <3>4
  <2> QED BY <1>1, <1>2, <2>2, <2>3, <2>4
<1> QED BY <1>3, <1>4, <1>5 DEF Order

LEMMA OrderAfterSendMail ==
  ASSUME Types, Buffers, Order, SendMail
  PROVE  Order'
<1>0. PICK N \in Nat : N = Len(asked)
  BY LenProperties DEF Types
<1>1. /\ thread = "send" /\ UNCHANGED <<asked, got, late, app, wire>>
      /\ l' = FreshBuf /\ thread' \in {"read", "ended"} /\ Len(handed') = Len(handed) + 1
      /\ handed'[Len(handed) + 1] = [buf |-> l.buf, len |-> l.msglen]
      /\ app # "closed" => thread' = "read" /\ back' = Append(back, Len(handed) + 1)
  BY SendMailDoes DEF appVars
<1>2. /\ Len(handed) \in Nat /\ got \in Seq(Nat) /\ Len(got) = N
      /\ \A k \in 1..N : Told(k)' => Told(k)
      /\ \A k \in 1..(N + 1) : InStep(k)' => InStep(k)
      /\ \A n, k \in Nat : k \in 1..N /\ Whole(n, k) => Whole(n, k)'
  <2>1. [Next]_vars
    BY DEF Next, ThreadStep
  <2>2. got \in Seq(Nat) /\ Len(got) = N /\ Len(handed) \in Nat
    BY <1>0, LenProperties DEF Types
  <2> QED BY <1>0, <2>1, <2>2, OrderStays
<1>3. ASSUME app = "waiting", Told(N)
      PROVE  /\ thread' = "read" /\ back' = <<N>> /\ Len(handed') = N
             /\ l'.msglen = 0 /\ wire' = <<>> /\ Whole(N, N)' /\ N > 0
  <2>1. back = <<>> /\ Len(handed) = N - 1 /\ Held \o wire = Composed(asked[N]) /\ wire = <<>>
    BY <1>0, <1>1, <1>3 DEF Order, Turn
  <2>2. back' = <<N>>
    BY <2>1, <1>1, <1>2, <1>3
  <2>3. Held = Composed(asked[N])
    <3>1. Held \in Seq(Tokens)
      BY LocalsAreSound DEF Texts
    <3> QED BY ONLY <2>1, <3>1, ConcatEmptySeq
  <2>4. Whole(N, N)'
    <3>1. handed'[N].buf = l.buf /\ handed'[N].len = l.msglen /\ N \in 1..Len(handed') /\ asked' = asked
      BY <1>1, <1>2, <2>1
    <3> QED BY <2>3, <3>1 DEF Whole, Request, Held
  <2> QED BY <1>1, <1>2, <1>3, <2>1, <2>2, <2>4, FreshHolds
<1>4. Turn'
  BY <1>0, <1>1, <1>2, <1>3 DEF Turn, Told, InStep, Splits
<1>5. Quiet'
  BY <1>1 DEF Order, Quiet, InStep, Splits
<1>6. Served'
  BY <1>0, <1>1, <1>2 DEF Order, Served, InStep, Splits
<1>7. RequestsAreMails'
  <2> SUFFICES ASSUME NEW k \in 1..(Len(handed) + 1), k <= N, InStep(k + 1)' PROVE Whole(k, k)'
    BY <1>0, <1>1 DEF RequestsAreMails
  <2>1. k \in 1..N /\ k \in Nat /\ InStep(k + 1)
    BY <1>2
  <2>2. CASE k <= Len(handed)
    <3>1. Whole(k, k)
      BY <1>0, <1>2, <2>1, <2>2 DEF Order, RequestsAreMails
    <3> QED BY <1>2, <2>1, <3>1
  <2>3. CASE k = Len(handed) + 1
    <3>1. k = N /\ app = "waiting"
      BY <1>0, <1>1, <1>2, <2>1, <2>3 DEF Order, Served
    <3>2. Told(k)
      BY <2>1, InStepNext
    <3> QED BY <1>3, <3>1, <3>2
  <2> QED BY <1>2, <2>2, <2>3
<1>8. AnswersAreOwn'
  <2> SUFFICES ASSUME NEW k \in 1..N, Told(k)', got[k] # 0 PROVE Whole(got[k], k)'
    BY <1>0, <1>1 DEF AnswersAreOwn
  <2>1. k \in Nat /\ got[k] \in Nat
    BY <1>2
  <2>2. Whole(got[k], k)
    BY <1>0, <1>2 DEF Order, AnswersAreOwn
  <2>3. PICK n \in Nat : n = got[k]
    BY <2>1
  <2>4. Whole(n, k)'
    BY <2>1, <2>2, <2>3, <1>2
  <2> QED BY <2>3, <2>4, <1>1 DEF Whole, Request
<1> QED BY <1>4, <1>5, <1>6, <1>7, <1>8 DEF Order

\* The application reads its answer, or goes on without one.
LEMMA OrderAfterWaiting ==
  ASSUME Types, Buffers, Order, ReadAnswer \/ ReadNothing \/ TimeOut
  PROVE  Order'
<1>0. PICK N \in Nat : N = Len(asked)
  BY LenProperties DEF Types
<1>1. /\ app = "waiting" /\ app' = "ready" /\ UNCHANGED <<asked, wire, thread, l, handed>>
      /\ [Next]_vars
  BY DEF ReadAnswer, ReadNothing, TimeOut, Next, AppStep
<1>2. /\ Len(handed) \in Nat /\ N > 0 /\ got \in Seq(Nat) /\ Len(got) = N
      /\ \A k \in 1..(N + 1) : InStep(k)' => InStep(k)
  BY <1>0, <1>1, OrderStays, LenProperties DEF Types
<1>3. RequestsAreMails' /\ Turn'
  BY <1>1, RestStays DEF Turn
<1>4. InStep(N + 1)' => Told(N)
  BY <1>2, InStepNext
<1>5. CASE ReadAnswer
  <2>1. /\ back # <<>> /\ back' = Tail(back) /\ late' = late
        /\ got'[N] = Head(back) /\ \A k \in 1..(N - 1) : got'[k] = got[k]
    BY <1>2, <1>5, ReadAnswerDoes
  <2>2. Told(N) => /\ thread \in {"read", "ended"} /\ back = <<N>> /\ Len(handed) = N
                   /\ l.msglen = 0 /\ wire = <<>> /\ Whole(N, N)
    BY <1>0, <1>1, <2>1 DEF Order, Turn
  <2>3. Told(N) => Tail(back) = <<>> /\ Head(back) = N
    <3>1. N \in Nat => Tail(<<N>>) = <<>> /\ Head(<<N>>) = N
      OBVIOUS
    <3> QED BY <3>1, <2>2, Zenon
  <2>4. Quiet'
    BY <1>0, <1>1, <1>4, <2>1, <2>2, <2>3 DEF Quiet
  <2>5. Served'
    <3> SUFFICES ASSUME NEW k \in 1..N, InStep(k + 1)' PROVE k <= Len(handed) \/ thread = "ended"
      BY <1>0, <1>1 DEF Served
    <3>1. CASE k = N
      BY <3>1, <1>2, <1>4, <2>2
    <3>2. CASE k # N
      <4>1. k < N /\ k + 1 \in 1..(N + 1)
        BY <3>2
      <4> QED BY <4>1, <1>0, <1>2 DEF Order, Served
    <3> QED BY <3>1, <3>2
  <2>6. AnswersAreOwn'
    <3> SUFFICES ASSUME NEW k \in 1..N, Told(k)', got'[k] # 0, NEW g, g = got'[k] PROVE Whole(g, k)'
      BY <1>0, <1>1 DEF AnswersAreOwn, Whole, Request
    <3>1. Told(k)
      BY <1>1, <2>1 DEF Told, InStep, Splits
    <3>2. CASE k = N
      <4>1. g = N /\ Whole(N, N)
        BY <2>1, <2>2, <2>3, <3>1, <3>2
      <4> QED BY <4>1, <3>2, <1>1 DEF Whole, Request
    <3>3. CASE k # N
      <4>1. got'[k] = got[k]
        BY <2>1, <3>3
      <4>2. Whole(g, k)
        BY <1>0, <4>1, <3>1 DEF Order, AnswersAreOwn
      <4> QED BY <4>2, <1>1 DEF Whole, Request
    <3> QED BY <3>2, <3>3
  <2> QED BY <1>3, <2>4, <2>5, <2>6 DEF Order
<1>6. CASE ReadNothing
  <2>1. back = <<>> /\ thread = "ended" /\ UNCHANGED <<got, late, back>>
    BY <1>6 DEF ReadNothing
  <2>2. AnswersAreOwn'
    BY <1>1, <2>1, RestStays DEF AnswersAreOwn
  <2>3. Told(N) => Len(handed) < N
    BY <1>0, <1>1, <2>1 DEF Order, Turn
  <2>4. Quiet' /\ Served'
    BY <1>0, <1>1, <1>2, <1>4, <2>1, <2>3 DEF Quiet, Served
  <2> QED BY <1>3, <2>2, <2>4 DEF Order
<1>7. CASE TimeOut
  <2>1. late' = late \cup {N} /\ UNCHANGED <<got, back>>
    BY <1>0, <1>7 DEF TimeOut
  <2>2. AnswersAreOwn'
    BY <1>1, <2>1, RestStays DEF AnswersAreOwn
  <2>3. ~InStep(N + 1)'
    BY <1>2, <2>1 DEF InStep
  <2>4. Quiet'
    BY <1>0, <1>1, <2>3 DEF Quiet
  <2>5. Served'
    <3> SUFFICES ASSUME NEW k \in 1..N, InStep(k + 1)' PROVE k <= Len(handed) \/ thread = "ended"
      BY <1>0, <1>1 DEF Served
    <3>1. k < N /\ k + 1 \in 1..(N + 1)
      <4>1. k # N
        BY <2>3
      <4> QED BY <4>1
    <3> QED BY <3>1, <1>0, <1>2 DEF Order, Served
  <2> QED BY <1>3, <2>2, <2>4, <2>5 DEF Order
<1> QED BY <1>5, <1>6, <1>7

\* The script ends, or the thread.
LEMMA OrderAfterEnd ==
  ASSUME Types, Buffers, Order, Close \/ ReadEnd \/ PollEnd \/ UNCHANGED vars
  PROVE  Order'
<1>0. PICK N \in Nat : N = Len(asked)
  BY LenProperties DEF Types
<1>1. UNCHANGED <<asked, got, late, wire, back, l, handed>> /\ [Next]_vars
  BY DEF Close, ReadEnd, PollEnd, vars, appVars, Next, ThreadStep
<1>2. RequestsAreMails' /\ AnswersAreOwn'
  BY <1>1, RestStays DEF AnswersAreOwn
<1>3. Len(handed) \in Nat /\ (app = "waiting" => N > 0)
  BY <1>0, LenProperties DEF Types
<1>4. (\A k \in Int : InStep(k)' <=> InStep(k)) /\ (Told(N)' <=> Told(N)) /\ (Whole(N, N)' <=> Whole(N, N))
  BY <1>1 DEF Told, InStep, Splits, Whole, Request
<1>5. CASE Close
  <2>1. app = "ready" /\ app' = "closed" /\ thread' = thread
    BY <1>5 DEF Close
  <2>2. Turn'
    BY <2>1 DEF Turn
  <2>3. Quiet'
    BY <1>0, <1>1, <1>4, <2>1 DEF Order, Quiet
  <2>4. Served'
    BY <1>0, <1>1, <1>4, <2>1 DEF Order, Served
  <2> QED BY <1>2, <2>2, <2>3, <2>4 DEF Order
<1>6. CASE ReadEnd \/ PollEnd
  <2>1. thread = "read" /\ thread' = "ended" /\ app' = app
    BY <1>6 DEF ReadEnd, PollEnd, appVars
  <2>2. Turn'
    <3> SUFFICES ASSUME app = "waiting", Told(N)
                 PROVE  \/ back = <<N>> /\ Len(handed) = N /\ l.msglen = 0 /\ wire = <<>> /\ Whole(N, N)
                        \/ back = <<>> /\ Len(handed) < N
      BY <1>0, <1>1, <1>4, <2>1 DEF Turn
    <3> QED BY <1>0, <1>3, <2>1 DEF Order, Turn
  <2>3. Quiet'
    BY <1>0, <1>1, <1>4, <2>1 DEF Order, Quiet
  <2>4. Served'
    BY <2>1 DEF Served
  <2> QED BY <1>2, <2>2, <2>3, <2>4 DEF Order
<1>7. CASE UNCHANGED vars
  <2>1. app' = app /\ thread' = thread /\ Held' = Held
    BY <1>7 DEF vars, appVars, Held
  <2>2. Turn'
    BY <1>0, <1>1, <1>4, <2>1 DEF Order, Turn
  <2>3. Quiet'
    BY <1>0, <1>1, <1>4, <2>1 DEF Order, Quiet
  <2>4. Served'
    BY <1>0, <1>1, <1>4, <2>1 DEF Order, Served
  <2> QED BY <1>2, <2>2, <2>3, <2>4 DEF Order
<1> QED BY <1>5, <1>6, <1>7

-----------------------------------------------------------------------------
(***************************************************************************)
(* The theorems.                                                           *)
(***************************************************************************)

LEMMA IInvInit == Init => IInv
<1> SUFFICES ASSUME Init PROVE IInv
  OBVIOUS
<1>1. /\ asked = <<>> /\ got = <<>> /\ late = {} /\ app = "ready" /\ wire = <<>> /\ back = <<>>
      /\ thread = "read" /\ l = FreshBuf /\ handed = <<>>
  BY DEF Init
<1>2. /\ FreshBuf \in Locals /\ FreshBuf.msglen <= Len(FreshBuf.buf)
      /\ NulsBehind(FreshBuf.buf, FreshBuf.msglen) /\ HeldIn(FreshBuf) = <<>>
      /\ FreshBuf.msglen = 0 /\ FreshBuf.ptr = 0 /\ FreshBuf.ptrlen = FreshBuf.buflen
      /\ FreshBuf.buflen = Len(FreshBuf.buf) /\ FreshBuf.buflen > 0
  BY FreshHolds DEF Sound
<1>3. Types
  BY <1>1, <1>2 DEF Types, Locals, Texts
<1>4. Buffers
  <2>1. FreshBuf.ptr + FreshBuf.ptrlen = FreshBuf.buflen
    BY <1>2 DEF Locals
  <2> QED BY <2>1, <1>1, <1>2 DEF Buffers, BufferBounds, LengthsAgree
<1>5. NothingLost
  <2>1. Held = <<>>
    BY <1>1, <1>2 DEF Held, HeldIn
  <2>2. RequestsOf(handed) = <<>> /\ WrittenOf(asked) = <<>>
    BY <1>1 DEF RequestsOf, WrittenOf
  <2>3. NothingLost <=> (FlattenSeq(RequestsOf(handed)) \o Held) \o wire = FlattenSeq(WrittenOf(asked))
    BY DEF NothingLost, RequestsOf, WrittenOf, Held
  <2>4. (<<>> \o <<>>) \o <<>> = <<>>
    OBVIOUS
  <2> QED BY <2>1, <2>2, <2>3, <2>4, <1>1, FlattenEmpty
<1>6. Order
  BY <1>1, <1>2 DEF Order, Turn, Quiet, Served, RequestsAreMails, AnswersAreOwn
<1> QED BY <1>3, <1>4, <1>5, <1>6 DEF IInv

LEMMA IInvNext == IInv /\ [Next]_vars => IInv'
<1> SUFFICES ASSUME IInv, [Next]_vars PROVE IInv'
  OBVIOUS
<1>1. Types /\ Buffers /\ NothingLost /\ Order
  BY DEF IInv
<1>2. Types' /\ Buffers' /\ NothingLost'
  BY <1>1, TypesKept, BuffersKept, NothingIsLost
<1>3. Order'
  BY <1>1, OrderAfterWrite, OrderAfterRead, OrderAfterSendMail, OrderAfterWaiting, OrderAfterEnd
     DEF Next, AppStep, ThreadStep
<1> QED BY <1>2, <1>3 DEF IInv

\* The inductive invariant holds in every state.
THEOREM Invariance == Spec => []IInv
BY IInvInit, IInvNext, PTL DEF Spec

\* handleClient always knows how much room its buffer has, and what sendMail gets
\* ends with a NUL, whatever the size of a block and of the mails.
THEOREM BufferBoundsHolds == Spec => []BufferBounds
<1>1. IInv => BufferBounds
  BY DEF IInv, Buffers
<1> QED BY <1>1, Invariance, PTL

\* However TCP cuts the mails up, the requests, the buffer and what is still to be
\* read are what was written, in order.
THEOREM NothingLostHolds == Spec => []NothingLost
<1>1. IInv => NothingLost
  BY DEF IInv
<1> QED BY <1>1, Invariance, PTL

\* An application gets the answer to its own mail, all of it and nothing else, if
\* neither that mail nor one before it splits at a dot on a line of its own, and it
\* has waited for the answers to the mails before: for any such mails, however
\* they are cut into reads.
THEOREM AnswersMatchHolds == Spec => []AnswersMatch
<1>1. IInv => AnswersMatch
  <2> SUFFICES ASSUME IInv, NEW k \in 1..Len(got), got[k] # 0, InStep(k), ~Splits(asked[k])
               PROVE  Request(got[k]) = Composed(asked[k])
    BY DEF AnswersMatch, Request
  <2>1. k \in 1..Len(asked) /\ Told(k)
    BY DEF IInv, Types, Told
  <2> QED BY <2>1 DEF IInv, Order, AnswersAreOwn, Whole
<1> QED BY <1>1, Invariance, PTL

-----------------------------------------------------------------------------
(***************************************************************************)
(* What sendMail and the server make of a mail.                            *)
(***************************************************************************)

\* The two parts of what is joined, and a longer start.
LEMMA PartsOfJoined ==
  ASSUME NEW T, NEW s \in Seq(T), NEW t \in Seq(T)
  PROVE  SubSeq(s \o t, 1, Len(s)) = s /\ SubSeq(s \o t, Len(s) + 1, Len(s) + Len(t)) = t
<1>1. s \o t \in Seq(T) /\ Len(s \o t) = Len(s) + Len(t) /\ Len(s) \in Nat /\ Len(t) \in Nat
  BY Joined
<1>2. \A i \in 1..Len(s) : (s \o t)[i] = s[i]
  BY Joined
<1>3. \A i \in 1..Len(t) : (s \o t)[Len(s) + i] = t[i]
  <2> SUFFICES ASSUME NEW i \in 1..Len(t) PROVE (s \o t)[Len(s) + i] = t[i]
    OBVIOUS
  <2>1. Len(s) + i \in (Len(s) + 1)..(Len(s) + Len(t)) /\ (Len(s) + i) - Len(s) = i
    BY <1>1
  <2> QED BY <2>1, Joined
<1> DEFINE u == s \o t
<1>4. u \in Seq(T) /\ Len(u) = Len(s) + Len(t) /\ (\A i \in 1..Len(s) : u[i] = s[i])
      /\ (\A i \in 1..Len(t) : u[Len(s) + i] = t[i])
  BY <1>1, <1>2, <1>3
<1> HIDE DEF u
<1>5. SubSeq(u, 1, Len(s)) = s
  BY <1>1, <1>4
<1>6. SubSeq(u, Len(s) + 1, Len(s) + Len(t)) = t
  BY <1>1, <1>4
<1> QED BY <1>5, <1>6 DEF u

LEMMA LongerStart ==
  ASSUME NEW T, NEW s \in Seq(T), NEW n \in Nat, n < Len(s)
  PROVE  /\ SubSeq(s, 1, n) \in Seq(T) /\ Len(SubSeq(s, 1, n)) = n
         /\ s[n + 1] \in T
         /\ SubSeq(s, 1, n + 1) = Append(SubSeq(s, 1, n), s[n + 1])
         /\ n > 0 => SubSeq(s, 1, n)[n] = s[n]
OBVIOUS

LEMMA Appended ==
  ASSUME NEW T, NEW s \in Seq(T), NEW x \in T
  PROVE  /\ Append(s, x) \in Seq(T) /\ Len(Append(s, x)) = Len(s) + 1
         /\ \A i \in 1..Len(s) : Append(s, x)[i] = s[i]
         /\ Append(s, x)[Len(s) + 1] = x
         /\ s \o <<x>> = Append(s, x)
         /\ s \o <<>> = s
OBVIOUS

\* Where a word of three tokens is.
LEMMA ThreePlaces ==
  ASSUME NEW s \in Texts, NEW a \in Tokens, NEW b \in Tokens, NEW c \in Tokens, NEW i \in Nat
  PROVE  i \in Places(<<a, b, c>>, s) <=>
           i >= 1 /\ i + 2 <= Len(s) /\ s[i] = a /\ s[i + 1] = b /\ s[i + 2] = c
<1> DEFINE w == <<a, b, c>>
<1>1. w \in Seq(Tokens) /\ Len(w) = 3 /\ w[1] = a /\ w[2] = b /\ w[3] = c
  OBVIOUS
<1> HIDE DEF w
<1>2. Len(s) \in Nat /\ s \in Seq(Tokens)
  BY DEF Texts
<1>3. i \in Places(w, s) <=> i \in 1..(Len(s) - 2) /\ SubSeq(s, i, i + 2) = w
  <2>1. i + Len(w) - 1 = i + 2
    BY <1>1
  <2>2. Len(s) - Len(w) + 1 = Len(s) - 2
    BY <1>1, <1>2
  <2>3. i \in Places(w, s) <=> i \in 1..(Len(s) - Len(w) + 1) /\ SubSeq(s, i, i + Len(w) - 1) = w
    BY DEF Places
  <2> QED BY ONLY <2>1, <2>2, <2>3, Zenon
<1>4. ASSUME i \in 1..(Len(s) - 2)
      PROVE  SubSeq(s, i, i + 2) = w <=> s[i] = a /\ s[i + 1] = b /\ s[i + 2] = c
  <2> DEFINE u == SubSeq(s, i, i + 2)
  <2>1. u \in Seq(Tokens) /\ Len(u) = 3 /\ u[1] = s[i] /\ u[2] = s[i + 1] /\ u[3] = s[i + 2]
    BY <1>2, <1>4
  <2> HIDE DEF u
  <2>2. u = w <=> u[1] = w[1] /\ u[2] = w[2] /\ u[3] = w[3]
    BY <1>1, <2>1
  <2> QED BY <2>1, <2>2, <1>1 DEF u
<1> QED BY <1>2, <1>3, <1>4 DEF w

LEMMA MarkPlaces ==
  ASSUME NEW s \in Texts, NEW i \in Nat
  PROVE  i \in Places(Mark, s) <=>
           i >= 1 /\ i + 2 <= Len(s) /\ s[i] = "eol" /\ s[i + 1] = "dot" /\ s[i + 2] = "eol"
BY RequestAssumption, ThreePlaces DEF Mark

\* The positions of the ends of lines.
EndsOf(s) == FlattenSeq([i \in 1..Len(s) |-> IF s[i] = "eol" THEN <<i>> ELSE <<>>])

LEMMA EndsLonger ==
  ASSUME NEW s \in Texts, NEW x \in Tokens
  PROVE  /\ EndsOf(s) \in Seq(Nat)
         /\ EndsOf(Append(s, x)) = IF x = "eol" THEN Append(EndsOf(s), Len(s) + 1) ELSE EndsOf(s)
<1> DEFINE v == [i \in 1..Len(s) |-> IF s[i] = "eol" THEN <<i>> ELSE <<>>]
           t == Append(s, x)
           w == [i \in 1..Len(t) |-> IF t[i] = "eol" THEN <<i>> ELSE <<>>]
           e == IF x = "eol" THEN <<Len(s) + 1>> ELSE <<>>
<1>1. Len(s) \in Nat /\ Len(t) = Len(s) + 1 /\ (\A i \in 1..Len(s) : t[i] = s[i]) /\ t[Len(s) + 1] = x
  BY Appended DEF Texts
<1> HIDE DEF t
<1>2. v \in Seq(Seq(Nat)) /\ Len(v) = Len(s)
  <2>1. \A i \in 1..Len(s) : <<i>> \in Seq(Nat) /\ <<>> \in Seq(Nat)
    OBVIOUS
  <2>2. v \in [1..Len(s) -> Seq(Nat)]
    BY <2>1
  <2> HIDE DEF v
  <2> QED BY <2>2, <1>1, FunctionIsText
<1>3. w \in Seq(Seq(Nat)) /\ Len(w) = Len(s) + 1
  <2>1. \A i \in 1..Len(t) : <<i>> \in Seq(Nat) /\ <<>> \in Seq(Nat)
    OBVIOUS
  <2>2. w \in [1..Len(t) -> Seq(Nat)] /\ Len(t) \in Nat
    BY <2>1, <1>1
  <2> HIDE DEF w
  <2> QED BY <2>2, <1>1, FunctionIsText
<1>4. (\A i \in 1..Len(s) : w[i] = v[i]) /\ w[Len(s) + 1] = e
  BY <1>1
<1>5. EndsOf(s) = FlattenSeq(v) /\ EndsOf(t) = FlattenSeq(w)
  BY DEF EndsOf
<1> HIDE DEF v, w
<1>6. FlattenSeq(v) \in Seq(Nat) /\ FlattenSeq(w) = FlattenSeq(v) \o e
  BY <1>2, <1>3, <1>4, FlattenLonger
<1>7. FlattenSeq(v) \o e = IF x = "eol" THEN Append(FlattenSeq(v), Len(s) + 1) ELSE FlattenSeq(v)
  <2>1. Len(s) + 1 \in Nat
    BY <1>1
  <2> QED BY <1>6, <2>1, Appended
<1> QED BY <1>5, <1>6, <1>7 DEF t

LEMMA EndsBound ==
  ASSUME NEW s \in Texts
  PROVE  EndsOf(s) \in Seq(1..Len(s))
<1> DEFINE v == [i \in 1..Len(s) |-> IF s[i] = "eol" THEN <<i>> ELSE <<>>]
<1>1. Len(s) \in Nat
  BY DEF Texts
<1>2. v \in Seq(Seq(1..Len(s)))
  <2>1. \A i \in 1..Len(s) : <<i>> \in Seq(1..Len(s)) /\ <<>> \in Seq(1..Len(s))
    OBVIOUS
  <2>2. v \in [1..Len(s) -> Seq(1..Len(s))]
    BY <2>1
  <2> HIDE DEF v
  <2> QED BY <2>2, <1>1, FunctionIsText
<1>3. EndsOf(s) = FlattenSeq(v)
  BY DEF EndsOf
<1> HIDE DEF v
<1> QED BY <1>2, <1>3, FlattenType

LEMMA AppendJoined ==
  ASSUME NEW T, NEW s \in Seq(T), NEW t \in Seq(T), NEW x \in T
  PROVE  s \o Append(t, x) = Append(s \o t, x)
<1>1. <<x>> \in Seq(T) /\ s \o t \in Seq(T)
  OBVIOUS
<1>2. (s \o t) \o <<x>> = s \o (t \o <<x>>)
  BY <1>1, Associated
<1>3. t \o <<x>> = Append(t, x) /\ (s \o t) \o <<x>> = Append(s \o t, x)
  BY <1>1, Appended
<1> QED BY <1>2, <1>3

\* A piece without an end of line adds no position.
LEMMA EndsWithout ==
  ASSUME NEW s \in Texts, NEW t \in Texts, \A i \in 1..Len(t) : t[i] # "eol"
  PROVE  EndsOf(s \o t) = EndsOf(s)
<1> DEFINE G == {n \in Nat : n <= Len(t) => EndsOf(s \o SubSeq(t, 1, n)) = EndsOf(s)}
<1>0. Len(t) \in Nat /\ s \in Seq(Tokens) /\ t \in Seq(Tokens)
  BY DEF Texts
<1>1. 0 \in G
  <2>1. SubSeq(t, 1, 0) = <<>> /\ s \o <<>> = s
    BY <1>0
  <2> QED BY <2>1
<1>2. ASSUME NEW n \in Nat, n \in G PROVE n + 1 \in G
  <2> SUFFICES ASSUME n + 1 <= Len(t) PROVE EndsOf(s \o SubSeq(t, 1, n + 1)) = EndsOf(s)
    OBVIOUS
  <2> DEFINE u == SubSeq(t, 1, n)
             x == t[n + 1]
  <2>1. u \in Seq(Tokens) /\ x \in Tokens /\ SubSeq(t, 1, n + 1) = Append(u, x) /\ x # "eol"
    BY <1>0, LongerStart
  <2>2. EndsOf(s \o u) = EndsOf(s)
    BY <1>0, <1>2
  <2> HIDE DEF u, x
  <2>3. s \o Append(u, x) = Append(s \o u, x) /\ s \o u \in Texts
    BY <1>0, <2>1, AppendJoined, Joined DEF Texts
  <2>4. EndsOf(Append(s \o u, x)) = EndsOf(s \o u)
    BY <2>1, <2>3, EndsLonger
  <2> QED BY <2>1, <2>2, <2>3, <2>4
<1>3. Nat \subseteq G
  <2> HIDE DEF G
  <2> QED BY <1>1, <1>2, Induction
<1>4. SubSeq(t, 1, Len(t)) = t
  BY <1>0, SubSeqFull
<1>5. EndsOf(s \o SubSeq(t, 1, Len(t))) = EndsOf(s)
  BY <1>0, <1>3
<1> QED BY <1>4, <1>5

\* The k-th line is between two such positions.
At(s, k) == IF k = 1 THEN 0 ELSE IF k <= Len(EndsOf(s)) + 1 THEN EndsOf(s)[k - 1] ELSE Len(s) + 1

LEMMA LinesAre ==
  ASSUME NEW s \in Texts
  PROVE  /\ Len(EndsOf(s)) \in Nat
         /\ \A k \in 1..(Len(EndsOf(s)) + 2) : At(s, k) \in 0..(Len(s) + 1)
         /\ Lines(s) = [k \in 1..(Len(EndsOf(s)) + 1) |-> SubSeq(s, At(s, k) + 1, At(s, k + 1) - 1)]
<1> DEFINE e == EndsOf(s)
           z == <<0>>
           a == z \o e
           y == <<Len(s) + 1>>
           at == a \o y
<1>1. Len(s) \in Nat /\ e \in Seq(1..Len(s)) /\ Len(e) \in Nat /\ \A k \in 1..Len(e) : e[k] \in 1..Len(s)
  <2>1. e \in Seq(1..Len(s))
    BY EndsBound
  <2> HIDE DEF e
  <2> QED BY <2>1 DEF Texts
<1>2. Lines(s) = [k \in 1..(Len(e) + 1) |-> SubSeq(s, at[k] + 1, at[k + 1] - 1)]
  BY DEF Lines, EndsOf
<1>3. z \in Seq(Nat) /\ y \in Seq(Nat) /\ Len(z) = 1 /\ Len(y) = 1 /\ z[1] = 0 /\ y[1] = Len(s) + 1
  BY <1>1
<1>4. e \in Seq(Nat)
  <2> HIDE DEF e
  <2> QED BY <1>1
<1> HIDE DEF e, z, y
<1>5. /\ a \in Seq(Nat) /\ Len(a) = Len(z) + Len(e)
      /\ \A i \in 1..Len(z) : a[i] = z[i]
      /\ \A i \in (Len(z) + 1)..(Len(z) + Len(e)) : a[i] = e[i - Len(z)]
  <2>1. z \in Seq(Nat) /\ e \in Seq(Nat)
    BY <1>3, <1>4
  <2> QED BY ONLY <2>1, Joined
<1> HIDE DEF a
<1>6. /\ at \in Seq(Nat) /\ Len(at) = Len(a) + Len(y)
      /\ \A i \in 1..Len(a) : at[i] = a[i]
      /\ \A i \in (Len(a) + 1)..(Len(a) + Len(y)) : at[i] = y[i - Len(a)]
  <2>1. a \in Seq(Nat) /\ y \in Seq(Nat)
    BY <1>3, <1>5
  <2> QED BY ONLY <2>1, Joined
<1> HIDE DEF at
<1>7. ASSUME NEW k \in 1..(Len(e) + 2) PROVE at[k] = At(s, k) /\ At(s, k) \in 0..(Len(s) + 1)
  <2>1. CASE k = 1
    <3>1. at[1] = 0
      BY <1>1, <1>3, <1>5, <1>6
    <3> QED BY <2>1, <3>1, <1>1 DEF At
  <2>2. CASE k # 1 /\ k <= Len(e) + 1
    <3>1. k \in (Len(z) + 1)..(Len(z) + Len(e)) /\ k \in 1..Len(a) /\ k - Len(z) = k - 1
      BY <2>2, <1>1, <1>3, <1>5
    <3>2. at[k] = e[k - 1]
      <4>1. a[k] = e[k - Len(z)] /\ at[k] = a[k]
        BY <3>1, <1>5, <1>6
      <4> QED BY <4>1, <3>1
    <3> QED BY <2>2, <3>2, <1>1 DEF At, e
  <2>3. CASE k = Len(e) + 2
    <3>1. k = Len(a) + 1 /\ k \in (Len(a) + 1)..(Len(a) + Len(y)) /\ k - Len(a) = 1
      BY <2>3, <1>1, <1>3, <1>5
    <3>2. at[k] = Len(s) + 1
      BY <3>1, <1>3, <1>6
    <3> QED BY <2>3, <3>2, <1>1 DEF At, e
  <2> QED BY <2>1, <2>2, <2>3, <1>1
<1>8. \A k \in 1..(Len(e) + 1) : at[k] = At(s, k) /\ at[k + 1] = At(s, k + 1)
  <2> SUFFICES ASSUME NEW k \in 1..(Len(e) + 1) PROVE at[k] = At(s, k) /\ at[k + 1] = At(s, k + 1)
    OBVIOUS
  <2>1. k \in 1..(Len(e) + 2) /\ k + 1 \in 1..(Len(e) + 2)
    BY <1>1
  <2> QED BY <2>1, <1>7
<1>9. Lines(s) = [k \in 1..(Len(e) + 1) |-> SubSeq(s, At(s, k) + 1, At(s, k + 1) - 1)]
  BY <1>2, <1>8, Zenon
<1> QED BY <1>1, <1>7, <1>9 DEF e

LEMMA OneLine ==
  ASSUME NEW s \in Texts, \A i \in 1..Len(s) : s[i] # "eol"
  PROVE  Lines(s) = <<s>>
<1>1. EndsOf(s) = <<>>
  <2>1. <<>> \in Texts /\ <<>> \o s = s
    BY DEF Texts
  <2>2. EndsOf(<<>> \o s) = EndsOf(<<>>)
    BY <2>1, EndsWithout
  <2>3. EndsOf(<<>>) = <<>>
    <3>1. [i \in 1..Len(<<>>) |-> IF <<>>[i] = "eol" THEN <<i>> ELSE <<>>] = <<>>
      OBVIOUS
    <3> QED BY <3>1, FlattenEmpty DEF EndsOf
  <2> QED BY <2>1, <2>2, <2>3
<1>2. Lines(s) = [k \in 1..1 |-> SubSeq(s, At(s, k) + 1, At(s, k + 1) - 1)]
  <2>1. Len(EndsOf(s)) + 1 = 1
    BY <1>1
  <2> QED BY <2>1, LinesAre
<1>3. At(s, 1) = 0 /\ At(s, 2) = Len(s) + 1
  BY <1>1 DEF At
<1>4. SubSeq(s, 1, Len(s)) = s /\ Len(s) \in Nat
  BY SubSeqFull DEF Texts
<1>5. Lines(s) = [k \in 1..1 |-> s]
  <2>1. \A k \in 1..1 : SubSeq(s, At(s, k) + 1, At(s, k + 1) - 1) = s
    BY <1>3, <1>4
  <2> QED BY <1>2, <2>1, Zenon
<1> QED BY <1>5

LEMMA SameMiddle ==
  ASSUME NEW T, NEW s \in Seq(T), NEW v \in Seq(T), NEW a \in Nat, NEW b \in Int,
         a >= 1, b <= Len(s), Len(s) <= Len(v), \A i \in 1..Len(s) : v[i] = s[i]
  PROVE  SubSeq(s, a, b) \in Seq(T) /\ SubSeq(v, a, b) = SubSeq(s, a, b)
<1>1. CASE a > b
  <2>1. SubSeq(s, a, b) = <<>> /\ SubSeq(v, a, b) = <<>>
    BY <1>1
  <2> QED BY <2>1
<1>2. CASE a <= b
  <2>1. a \in 1..Len(s) /\ b \in 1..Len(s) /\ a \in 1..Len(v) /\ b \in 1..Len(v)
    BY <1>2
  <2> DEFINE p == SubSeq(s, a, b)
             q == SubSeq(v, a, b)
  <2>2. p \in Seq(T) /\ Len(p) = b - a + 1 /\ \A i \in 1..(b - a + 1) : p[i] = s[a + i - 1]
    BY <2>1, <1>2, SubSeqProperties
  <2>3. q \in Seq(T) /\ Len(q) = b - a + 1 /\ \A i \in 1..(b - a + 1) : q[i] = v[a + i - 1]
    BY <2>1, <1>2, SubSeqProperties
  <2> HIDE DEF p, q
  <2>4. \A i \in 1..(b - a + 1) : p[i] = q[i]
    <3> SUFFICES ASSUME NEW i \in 1..(b - a + 1) PROVE p[i] = q[i]
      OBVIOUS
    <3>1. a + i - 1 \in 1..Len(s)
      BY <2>1
    <3> QED BY <3>1, <2>2, <2>3
  <2>5. p = q
    BY <2>2, <2>3, <2>4, SeqEqual
  <2> QED BY <2>2, <2>5 DEF p, q
<1> QED BY <1>1, <1>2

LEMMA TextIsFunction ==
  ASSUME NEW T, NEW s \in Seq(T), NEW n, n = Len(s)
  PROVE  s = [k \in 1..n |-> s[k]]
OBVIOUS

\* A line more.
LEMMA LinesLonger ==
  ASSUME NEW s \in Texts, NEW t \in Texts, \A i \in 1..Len(t) : t[i] # "eol"
  PROVE  Lines(Append(s, "eol") \o t) = Append(Lines(s), t)
<1> DEFINE u == Append(s, "eol")
           v == u \o t
           n == Len(EndsOf(s))
<1>1. /\ u \in Texts /\ Len(u) = Len(s) + 1 /\ Len(s) \in Nat /\ Len(t) \in Nat
      /\ \A i \in 1..Len(s) : u[i] = s[i]
  BY RequestAssumption, Appended DEF Texts
<1>2. /\ EndsOf(s) \in Seq(Nat) /\ n \in Nat
      /\ EndsOf(u) = Append(EndsOf(s), Len(s) + 1)
  BY RequestAssumption, EndsLonger
<1>3. EndsOf(v) = EndsOf(u)
  <2> HIDE DEF u
  <2> QED BY <1>1, EndsWithout
<1> HIDE DEF u
<1>4. /\ v \in Texts /\ Len(v) = Len(u) + Len(t)
      /\ \A i \in 1..Len(u) : v[i] = u[i]
      /\ \A i \in (Len(u) + 1)..(Len(u) + Len(t)) : v[i] = t[i - Len(u)]
  BY <1>1, Joined DEF Texts
<1> HIDE DEF v
<1>5. /\ Len(EndsOf(v)) = n + 1
      /\ \A k \in 1..n : EndsOf(v)[k] = EndsOf(s)[k]
      /\ EndsOf(v)[n + 1] = Len(s) + 1
  <2> DEFINE e == EndsOf(s)
             x == Len(s) + 1
  <2>1. e \in Seq(Nat) /\ x \in Nat
    BY <1>1, <1>2
  <2> HIDE DEF e, x
  <2>2. /\ Len(Append(e, x)) = Len(e) + 1 /\ \A k \in 1..Len(e) : Append(e, x)[k] = e[k]
        /\ Append(e, x)[Len(e) + 1] = x
    BY <2>1, Appended
  <2> QED BY <2>2, <1>2, <1>3 DEF e, x
<1>6. /\ \A k \in 1..(n + 2) : At(v, k) = At(s, k)
      /\ At(s, n + 2) = Len(s) + 1 /\ At(v, n + 3) = Len(v) + 1
  <2>1. ASSUME NEW k \in 1..(n + 2) PROVE At(v, k) = At(s, k)
    <3>1. CASE k = 1
      BY <3>1 DEF At
    <3>2. CASE k # 1 /\ k <= n + 1
      <4>1. k - 1 \in 1..n /\ k <= (n + 1) + 1
        BY <3>2, <1>2
      <4> QED BY <4>1, <3>2, <1>5 DEF At
    <3>3. CASE k = n + 2
      <4>1. k - 1 = n + 1 /\ k # 1 /\ k <= (n + 1) + 1 /\ ~(k <= n + 1)
        BY <3>3, <1>2
      <4> QED BY <4>1, <1>5 DEF At
    <3> QED BY <3>1, <3>2, <3>3, <1>2
  <2>2. At(s, n + 2) = Len(s) + 1
    BY <1>2 DEF At
  <2>3. At(v, n + 3) = Len(v) + 1
    BY <1>2, <1>5 DEF At
  <2> QED BY <2>1, <2>2, <2>3
<1> DEFINE line(k) == SubSeq(s, At(s, k) + 1, At(s, k + 1) - 1)
<1>7. Lines(s) = [k \in 1..(n + 1) |-> line(k)]
      /\ \A k \in 1..(n + 2) : At(s, k) \in 0..(Len(s) + 1)
  BY LinesAre
<1>8. Lines(v) = [k \in 1..(n + 2) |-> SubSeq(v, At(v, k) + 1, At(v, k + 1) - 1)]
  <2>1. Len(EndsOf(v)) + 1 = n + 2
    BY <1>2, <1>5
  <2> QED BY <2>1, <1>4, LinesAre
<1>9. ASSUME NEW k \in 1..(n + 1) PROVE line(k) \in Texts /\ SubSeq(v, At(v, k) + 1, At(v, k + 1) - 1) = line(k)
  <2>1. k \in 1..(n + 2) /\ k + 1 \in 1..(n + 2)
    BY <1>2
  <2>2. PICK a \in Nat, b \in Int : /\ a = At(s, k) + 1 /\ b = At(s, k + 1) - 1
                                    /\ a >= 1 /\ b <= Len(s)
    BY <2>1, <1>1, <1>7
  <2>3. SubSeq(v, At(v, k) + 1, At(v, k + 1) - 1) = SubSeq(v, a, b) /\ line(k) = SubSeq(s, a, b)
    BY <2>1, <2>2, <1>6
  <2>4. \A i \in 1..Len(s) : v[i] = s[i]
    BY <1>1, <1>4
  <2>5. SubSeq(s, a, b) \in Seq(Tokens) /\ SubSeq(v, a, b) = SubSeq(s, a, b)
    <3>1. s \in Seq(Tokens) /\ v \in Seq(Tokens) /\ Len(s) <= Len(v)
      BY <1>1, <1>4 DEF Texts
    <3>2. a \in Nat /\ b \in Int /\ a >= 1 /\ b <= Len(s)
      BY <2>2
    <3> QED BY ONLY <2>4, <3>1, <3>2, SameMiddle
  <2> QED BY <2>3, <2>5 DEF Texts
<1>10. SubSeq(v, At(v, n + 2) + 1, At(v, n + 3) - 1) = t
  <2>1. At(v, n + 2) + 1 = Len(u) + 1 /\ At(v, n + 3) - 1 = Len(u) + Len(t)
    BY <1>1, <1>2, <1>4, <1>6
  <2>2. SubSeq(u \o t, Len(u) + 1, Len(u) + Len(t)) = t
    BY <1>1, PartsOfJoined DEF Texts
  <2> QED BY <2>1, <2>2 DEF v
<1> HIDE DEF line
<1>11. Lines(s) \in Seq(Texts) /\ Len(Lines(s)) = n + 1 /\ \A k \in 1..(n + 1) : Lines(s)[k] = line(k)
  <2>1. Lines(s) \in [1..(n + 1) -> Texts] /\ n + 1 \in Nat
    BY <1>2, <1>7, <1>9
  <2> QED BY <2>1, <1>7, FunctionIsText
<1>12. Append(Lines(s), t) = [k \in 1..(n + 2) |-> IF k = n + 2 THEN t ELSE line(k)]
  <2> DEFINE L == Lines(s)
  <2>1. L \in Seq(Texts) /\ Len(L) = n + 1 /\ \A k \in 1..(n + 1) : L[k] = line(k)
    BY <1>11
  <2> HIDE DEF L
  <2>2. /\ Append(L, t) \in Seq(Texts) /\ Len(Append(L, t)) = n + 2
        /\ \A k \in 1..(n + 1) : Append(L, t)[k] = line(k)
        /\ Append(L, t)[n + 2] = t
    BY <2>1, <1>2, Appended
  <2>3. Append(L, t) = [k \in 1..(n + 2) |-> Append(L, t)[k]]
    BY <2>2, TextIsFunction
  <2>4. \A k \in 1..(n + 2) : Append(L, t)[k] = IF k = n + 2 THEN t ELSE line(k)
    BY <2>2, <1>2
  <2> QED BY <2>3, <2>4, Zenon DEF L
<1>13. \A k \in 1..(n + 2) : SubSeq(v, At(v, k) + 1, At(v, k + 1) - 1) = IF k = n + 2 THEN t ELSE line(k)
  <2> SUFFICES ASSUME NEW k \in 1..(n + 2)
               PROVE  SubSeq(v, At(v, k) + 1, At(v, k + 1) - 1) = IF k = n + 2 THEN t ELSE line(k)
    OBVIOUS
  <2>1. CASE k = n + 2
    <3>1. k + 1 = n + 3
      BY <2>1, <1>2
    <3> QED BY <2>1, <3>1, <1>10
  <2>2. CASE k # n + 2
    <3>1. k \in 1..(n + 1)
      BY <2>2, <1>2
    <3> QED BY <2>2, <3>1, <1>9
  <2> QED BY <2>1, <2>2
<1>14. Lines(v) = Append(Lines(s), t)
  BY ONLY <1>8, <1>12, <1>13, Zenon
<1> QED BY <1>14 DEF u, v

\* What MailsAssumption says of the tokens.
LEMMA AddressesAreLines ==
  ASSUME NEW mail \in Mails
  PROVE  /\ mail.from \in Texts /\ \A i \in 1..Len(mail.from) : mail.from[i] \notin {"eol", "nul"}
         /\ mail.to \in Seq(Texts) /\ Len(mail.to) \in Nat
         /\ \A k \in 1..Len(mail.to) :
              /\ mail.to[k] \in Texts /\ mail.to[k] # <<"data">>
              /\ \A i \in 1..Len(mail.to[k]) : mail.to[k][i] \notin {"eol", "nul"}
<1>1. mail.from \in Seq(Tokens) /\ mail.to \in Seq(Seq(Tokens))
  BY RequestAssumption
<1>2. /\ \A line \in {mail.from} \cup Range(mail.to) : {"eol", "nul"} \cap Range(line) = {}
      /\ <<"data">> \notin Range(mail.to)
  BY MailsAssumption
<1>3. ASSUME NEW t \in Seq(Tokens), {"eol", "nul"} \cap Range(t) = {}, NEW i \in 1..Len(t)
      PROVE  t[i] \notin {"eol", "nul"}
  <2>1. t[i] \in Range(t)
    BY DEF Range
  <2> QED BY <2>1, <1>3
<1>4. ASSUME NEW k \in 1..Len(mail.to) PROVE mail.to[k] \in Range(mail.to) /\ mail.to[k] \in Seq(Tokens)
  BY <1>1 DEF Range
<1>5. \A i \in 1..Len(mail.from) : mail.from[i] \notin {"eol", "nul"}
  BY <1>1, <1>2, <1>3
<1>6. ASSUME NEW k \in 1..Len(mail.to)
      PROVE  /\ mail.to[k] # <<"data">>
             /\ \A i \in 1..Len(mail.to[k]) : mail.to[k][i] \notin {"eol", "nul"}
  <2>1. mail.to[k] \in Range(mail.to) /\ mail.to[k] \in Seq(Tokens)
    BY <1>4
  <2>2. {"eol", "nul"} \cap Range(mail.to[k]) = {} /\ mail.to[k] # <<"data">>
    BY <1>2, <2>1
  <2> QED BY <1>3, <2>1, <2>2
<1> QED BY <1>1, <1>4, <1>5, <1>6, LenProperties DEF Texts

\* A text in which strstr does not find DATA on a line of its own, nor an end.
NoData(s) == \A i \in 1..(Len(s) - 2) : ~(s[i] = "eol" /\ s[i + 1] = "data" /\ s[i + 2] = "eol")
NoNul(s) == \A i \in 1..Len(s) : s[i] # "nul"

\* An address more before the DATA line.
LEMMA HeadLonger ==
  ASSUME NEW q \in Texts, NoData(Append(q, "eol")), NoNul(Append(q, "eol")),
         NEW t \in Texts, \A i \in 1..Len(t) : t[i] \notin {"eol", "nul"}, t # <<"data">>
  PROVE  LET p == Append(q, "eol") \o t
         IN  /\ p \in Texts
             /\ Append(q, "eol") \o (t \o <<"eol">>) = Append(p, "eol")
             /\ NoData(Append(p, "eol")) /\ NoNul(Append(p, "eol"))
             /\ Lines(p) = Append(Lines(q), t)
<1> DEFINE u == Append(q, "eol")
           p == u \o t
           v == Append(p, "eol")
<1>0. "eol" \in Tokens /\ q \in Seq(Tokens) /\ t \in Seq(Tokens) /\ Len(q) \in Nat /\ Len(t) \in Nat
  BY RequestAssumption DEF Texts
<1>1. u \in Seq(Tokens) /\ Len(u) = Len(q) + 1 /\ u[Len(u)] = "eol"
  BY <1>0, Appended
<1>2. Lines(p) = Append(Lines(q), t)
  BY LinesLonger
<1>3. NoData(u) /\ NoNul(u)
  OBVIOUS
<1> HIDE DEF u
<1>4. /\ p \in Seq(Tokens) /\ Len(p) = Len(u) + Len(t)
      /\ \A i \in 1..Len(u) : p[i] = u[i]
      /\ \A i \in (Len(u) + 1)..(Len(u) + Len(t)) : p[i] = t[i - Len(u)]
  <2>1. u \in Seq(Tokens) /\ t \in Seq(Tokens)
    BY <1>0, <1>1
  <2> QED BY ONLY <2>1, Joined DEF p
<1>5. u \o (t \o <<"eol">>) = Append(p, "eol")
  BY <1>0, <1>1, Appended, AppendJoined
<1> HIDE DEF p
<1>6. /\ v \in Seq(Tokens) /\ Len(v) = Len(p) + 1
      /\ \A i \in 1..Len(p) : v[i] = p[i]
      /\ v[Len(p) + 1] = "eol"
  BY <1>0, <1>4, Appended
<1> HIDE DEF v
<1>7. ASSUME NEW i \in 1..Len(u) PROVE v[i] = u[i]
  BY <1>0, <1>1, <1>4, <1>6
<1>8. ASSUME NEW i \in 1..Len(t) PROVE v[Len(u) + i] = t[i] /\ v[Len(u) + i] \notin {"eol", "nul"}
  <2>1. Len(u) + i \in (Len(u) + 1)..(Len(u) + Len(t)) /\ Len(u) + i \in 1..Len(p) /\ (Len(u) + i) - Len(u) = i
    BY <1>0, <1>1, <1>4
  <2> QED BY <2>1, <1>4, <1>6
<1>9. Len(v) = Len(u) + Len(t) + 1 /\ v[Len(v)] = "eol"
  BY <1>0, <1>1, <1>4, <1>6
<1>10. NoNul(v)
  <2> SUFFICES ASSUME NEW i \in 1..Len(v) PROVE v[i] # "nul"
    BY DEF NoNul
  <2>1. CASE i <= Len(u)
    BY <2>1, <1>1, <1>3, <1>7 DEF NoNul
  <2>2. CASE i > Len(u) /\ i < Len(v)
    <3>1. PICK j \in 1..Len(t) : i = Len(u) + j
      <4>1. i - Len(u) \in 1..Len(t) /\ i = Len(u) + (i - Len(u))
        BY <2>2, <1>0, <1>1, <1>9
      <4> QED BY <4>1
    <3> QED BY <3>1, <1>8
  <2>3. CASE i = Len(v)
    BY <2>3, <1>9
  <2> QED BY <2>1, <2>2, <2>3, <1>0, <1>1, <1>9
<1>11. NoData(v)
  <2> SUFFICES ASSUME NEW i \in 1..(Len(v) - 2), v[i] = "eol", v[i + 1] = "data", v[i + 2] = "eol"
               PROVE  FALSE
    BY DEF NoData
  <2>1. CASE i + 2 <= Len(u)
    <3>1. i \in 1..(Len(u) - 2) /\ i \in 1..Len(u) /\ i + 1 \in 1..Len(u) /\ i + 2 \in 1..Len(u)
      BY <2>1, <1>1
    <3>2. u[i] = "eol" /\ u[i + 1] = "data" /\ u[i + 2] = "eol"
      BY <3>1, <1>7
    <3> QED BY <3>1, <3>2, <1>3 DEF NoData
  <2>2. CASE i = Len(u) - 1
    <3>1. v[Len(u)] = "eol" /\ i + 1 = Len(u)
      BY <2>2, <1>0, <1>1, <1>7
    <3> QED BY <3>1
  <2>3. CASE i = Len(u)
    <3>1. CASE Len(t) = 0
      <4>1. i + 1 = Len(v)
        BY <2>3, <3>1, <1>0, <1>1, <1>9
      <4> QED BY <4>1, <1>9
    <3>2. CASE Len(t) = 1
      <4>1. v[i + 1] = t[1]
        BY <2>3, <3>2, <1>8
      <4>2. t = <<t[1]>>
        BY <3>2, <1>0
      <4> QED BY <4>1, <4>2
    <3>3. CASE Len(t) >= 2
      <4>1. v[i + 2] \notin {"eol", "nul"}
        BY <2>3, <3>3, <1>0, <1>8
      <4> QED BY <4>1
    <3>4. Len(t) = 0 \/ Len(t) = 1 \/ Len(t) >= 2
      <4>1. \A n \in Nat : n = 0 \/ n = 1 \/ n >= 2
        BY ONLY TRUE
      <4>2. Len(t) \in Nat
        BY <1>0
      <4> QED BY ONLY <4>1, <4>2
    <3> QED BY ONLY <3>1, <3>2, <3>3, <3>4, Zenon
  <2>4. CASE i > Len(u)
    <3>1. i - Len(u) \in 1..Len(t) /\ i = Len(u) + (i - Len(u))
      BY <2>4, <1>0, <1>1, <1>9
    <3>2. v[i] # "eol"
      BY <3>1, <1>8
    <3> QED BY <3>2
  <2> QED BY <2>1, <2>2, <2>3, <2>4, <1>0, <1>1, <1>9
<1> QED BY <1>2, <1>4, <1>5, <1>10, <1>11 DEF Texts, u, p, v

\* The lines of a mail before its DATA line.
HeadOf(mail, k) ==
  mail.from \o <<"eol">> \o FlattenSeq([i \in 1..k |-> mail.to[i] \o <<"eol">>])

LEMMA HeadsAreLines ==
  ASSUME NEW mail \in Mails, NEW n \in 0..Len(mail.to)
  PROVE  \E q \in Texts : /\ HeadOf(mail, n) = Append(q, "eol")
                          /\ NoData(Append(q, "eol")) /\ NoNul(Append(q, "eol"))
                          /\ Lines(q) = <<mail.from>> \o SubSeq(mail.to, 1, n)
<1> DEFINE Is(q, k) == /\ HeadOf(mail, k) = Append(q, "eol")
                       /\ NoData(Append(q, "eol")) /\ NoNul(Append(q, "eol"))
                       /\ Lines(q) = <<mail.from>> \o SubSeq(mail.to, 1, k)
           G == {k \in Nat : k <= Len(mail.to) => \E q \in Texts : Is(q, k)}
           F(k) == [i \in 1..k |-> mail.to[i] \o <<"eol">>]
<1>0. /\ mail.from \in Texts /\ mail.to \in Seq(Texts) /\ Len(mail.to) \in Nat
      /\ mail.from \in Seq(Tokens) /\ "eol" \in Tokens
      /\ \A i \in 1..Len(mail.from) : mail.from[i] \notin {"eol", "nul"}
      /\ \A k \in 1..Len(mail.to) :
           /\ mail.to[k] \in Texts /\ mail.to[k] # <<"data">>
           /\ \A i \in 1..Len(mail.to[k]) : mail.to[k][i] \notin {"eol", "nul"}
  BY RequestAssumption, AddressesAreLines DEF Texts
<1>1. 0 \in G
  <2> DEFINE q == mail.from
  <2>1. q \in Seq(Tokens) /\ Len(q) \in Nat /\ Lines(q) = <<q>> /\ \A i \in 1..Len(q) : q[i] \notin {"eol", "nul"}
    BY <1>0, OneLine
  <2>2. HeadOf(mail, 0) = Append(q, "eol")
    <3>1. F(0) = <<>>
      OBVIOUS
    <3>2. HeadOf(mail, 0) = (q \o <<"eol">>) \o <<>>
      BY <3>1, FlattenEmpty DEF HeadOf
    <3>3. q \o <<"eol">> = Append(q, "eol") /\ Append(q, "eol") \in Seq(Tokens)
      BY <1>0, <2>1, Appended
    <3>4. Append(q, "eol") \o <<>> = Append(q, "eol")
      BY <3>3, ConcatEmptySeq
    <3> QED BY <3>2, <3>3, <3>4
  <2>3. SubSeq(mail.to, 1, 0) = <<>>
    BY <1>0
  <2>4. <<q>> \o <<>> = <<q>>
    OBVIOUS
  <2> HIDE DEF q
  <2>5. /\ Append(q, "eol") \in Seq(Tokens) /\ Len(Append(q, "eol")) = Len(q) + 1
        /\ \A i \in 1..Len(q) : Append(q, "eol")[i] = q[i]
        /\ Append(q, "eol")[Len(q) + 1] = "eol"
    BY <1>0, <2>1, Appended
  <2>6. NoData(Append(q, "eol")) /\ NoNul(Append(q, "eol"))
    BY <2>1, <2>5 DEF NoData, NoNul
  <2>7. Is(q, 0)
    BY <2>1, <2>2, <2>3, <2>4, <2>6 DEF q
  <2> QED BY <2>7, <1>0 DEF q
<1>2. ASSUME NEW k \in Nat, k \in G PROVE k + 1 \in G
  <2> HIDE DEF Is
  <2> SUFFICES ASSUME k + 1 <= Len(mail.to) PROVE \E q \in Texts : Is(q, k + 1)
    OBVIOUS
  <2>1. PICK q \in Texts : Is(q, k)
    <3>1. k <= Len(mail.to)
      BY <1>0
    <3> QED BY <3>1, <1>2
  <2> USE DEF Is
  <2>2. PICK t \in Texts : t = mail.to[k + 1]
    BY <1>0
  <2>3. t # <<"data">> /\ \A i \in 1..Len(t) : t[i] \notin {"eol", "nul"}
    BY <1>0, <2>2
  <2> DEFINE p == Append(q, "eol") \o t
  <2>4. /\ p \in Texts
        /\ Append(q, "eol") \o (t \o <<"eol">>) = Append(p, "eol")
        /\ NoData(Append(p, "eol")) /\ NoNul(Append(p, "eol"))
        /\ Lines(p) = Append(Lines(q), t)
    BY <2>1, <2>3, HeadLonger
  <2> HIDE DEF p
  <2>5. HeadOf(mail, k + 1) = Append(p, "eol")
    <3> DEFINE f == F(k)
               g == F(k + 1)
    <3>1. \A i \in 1..Len(mail.to) : mail.to[i] \o <<"eol">> \in Seq(Tokens)
      <4> SUFFICES ASSUME NEW i \in 1..Len(mail.to) PROVE mail.to[i] \o <<"eol">> \in Seq(Tokens)
        OBVIOUS
      <4>1. mail.to[i] \in Seq(Tokens)
        BY <1>0 DEF Texts
      <4>2. <<"eol">> \in Seq(Tokens)
        BY <1>0
      <4> QED BY <4>1, <4>2, Joined
    <3>2. f \in [1..k -> Seq(Tokens)] /\ g \in [1..(k + 1) -> Seq(Tokens)]
      BY <3>1, <1>0
    <3>3. (\A i \in 1..k : g[i] = f[i]) /\ g[k + 1] = t \o <<"eol">>
      <4>1. k + 1 \in 1..(k + 1) /\ \A i \in 1..k : i \in 1..(k + 1)
        OBVIOUS
      <4>2. g[k + 1] = mail.to[k + 1] \o <<"eol">>
        BY <4>1, Zenon
      <4>3. \A i \in 1..k : g[i] = f[i]
        BY <4>1, Zenon
      <4> QED BY <4>2, <4>3, <2>2
    <3>4. HeadOf(mail, k) = (mail.from \o <<"eol">>) \o FlattenSeq(f)
          /\ HeadOf(mail, k + 1) = (mail.from \o <<"eol">>) \o FlattenSeq(g)
      BY DEF HeadOf
    <3> HIDE DEF f, g
    <3>5. f \in Seq(Seq(Tokens)) /\ Len(f) = k /\ g \in Seq(Seq(Tokens)) /\ Len(g) = k + 1
      BY <3>2, FunctionIsText
    <3>6. FlattenSeq(f) \in Seq(Tokens) /\ FlattenSeq(g) = FlattenSeq(f) \o (t \o <<"eol">>)
      BY <3>3, <3>5, FlattenLonger
    <3>7. mail.from \o <<"eol">> \in Seq(Tokens) /\ t \o <<"eol">> \in Seq(Tokens)
      <4>1. t \in Seq(Tokens) /\ <<"eol">> \in Seq(Tokens)
        BY <1>0 DEF Texts
      <4> QED BY <4>1, <1>0, Joined
    <3>8. HeadOf(mail, k + 1) = HeadOf(mail, k) \o (t \o <<"eol">>)
      <4>1. ((mail.from \o <<"eol">>) \o FlattenSeq(f)) \o (t \o <<"eol">>)
              = (mail.from \o <<"eol">>) \o (FlattenSeq(f) \o (t \o <<"eol">>))
        <5> DEFINE a == mail.from \o <<"eol">>
                   b == FlattenSeq(f)
                   c == t \o <<"eol">>
        <5>1. a \in Seq(Tokens) /\ b \in Seq(Tokens) /\ c \in Seq(Tokens)
          BY <3>6, <3>7
        <5> HIDE DEF a, b, c
        <5>2. (a \o b) \o c = a \o (b \o c)
          BY ONLY <5>1, Regrouped
        <5> QED BY <5>2 DEF a, b, c
      <4> QED BY <4>1, <3>4, <3>6
    <3>9. HeadOf(mail, k) = Append(q, "eol")
      BY <2>1
    <3> QED BY <3>8, <3>9, <2>4
  <2>6. Lines(p) = <<mail.from>> \o SubSeq(mail.to, 1, k + 1)
    <3> DEFINE m == mail.from
               a == mail.to
    <3>1. m \in Texts /\ a \in Seq(Texts) /\ k < Len(a) /\ a[k + 1] = t
      BY <1>0, <2>2
    <3>2. Lines(q) = <<m>> \o SubSeq(a, 1, k)
      BY <2>1
    <3> HIDE DEF m, a
    <3>3. SubSeq(a, 1, k) \in Seq(Texts) /\ SubSeq(a, 1, k + 1) = Append(SubSeq(a, 1, k), t)
      BY <3>1, LongerStart
    <3>4. <<m>> \in Seq(Texts)
      BY <3>1
    <3>5. <<m>> \o Append(SubSeq(a, 1, k), t) = Append(<<m>> \o SubSeq(a, 1, k), t)
      BY <3>3, <3>4, AppendJoined
    <3> QED BY <2>4, <3>2, <3>3, <3>5 DEF m, a
  <2>7. Is(p, k + 1)
    BY <2>4, <2>5, <2>6
  <2> HIDE DEF Is
  <2> QED BY <2>4, <2>7
<1>3. Nat \subseteq G
  <2> HIDE DEF G
  <2> QED BY <1>1, <1>2, Induction
<1>4. n \in Nat /\ n <= Len(mail.to)
  BY <1>0
<1> HIDE DEF Is
<1>5. \E q \in Texts : Is(q, n)
  BY <1>3, <1>4
<1> QED BY <1>5 DEF Is

\* What is behind the DATA line at f, and with the end of that line.
DataOf(msg, f) == SubSeq(msg, f + 3, Len(msg))
TextOf(msg, f) == <<"eol">> \o DataOf(msg, f)

\* prepareSendMail finds the DATA line of a mail, even if it is cut off after it.
LEMMA RequestIsTaken ==
  ASSUME NEW mail \in Mails, NEW p, p = HeadOf(mail, Len(mail.to)),
         NEW msg \in Texts, Len(msg) >= Len(p) + 2,
         \A i \in 1..Len(p) : msg[i] = p[i],
         msg[Len(p) + 1] = "data", msg[Len(p) + 2] = "eol"
  PROVE  /\ Len(p) \in Places(<<"eol", "data", "eol">>, msg)
         /\ mail.to = <<>> => PrepareSendMail(msg).ok = FALSE
         /\ mail.to # <<>> => PrepareSendMail(msg) =
              [ok |-> TRUE, from |-> mail.from, to |-> mail.to,
               data |-> DataOf(msg, Len(p))]
<1> DEFINE found == Places(<<"eol", "data", "eol">>, msg)
           f == Len(p)
<1>1. PICK q \in Texts : /\ p = Append(q, "eol") /\ NoData(p) /\ NoNul(p)
                         /\ Lines(q) = <<mail.from>> \o SubSeq(mail.to, 1, Len(mail.to))
  <2>1. Len(mail.to) \in 0..Len(mail.to)
    BY AddressesAreLines
  <2> QED BY <2>1, HeadsAreLines
<1>2. /\ mail.from \in Texts /\ mail.to \in Seq(Texts) /\ Len(mail.to) \in Nat
      /\ {"eol", "data"} \subseteq Tokens
  BY RequestAssumption, AddressesAreLines
<1>3. /\ q \in Seq(Tokens) /\ Len(q) \in Nat /\ p \in Seq(Tokens) /\ f = Len(q) + 1 /\ f \in Nat
      /\ \A i \in 1..Len(q) : p[i] = q[i]
      /\ p[f] = "eol"
  <2>1. q \in Seq(Tokens) /\ Len(q) \in Nat
    BY DEF Texts
  <2> QED BY <2>1, <1>1, <1>2, Appended
<1>4. Len(msg) \in Nat /\ msg \in Seq(Tokens)
  BY DEF Texts
<1>5. \A i \in Nat : i \in found <=>
        i >= 1 /\ i + 2 <= Len(msg) /\ msg[i] = "eol" /\ msg[i + 1] = "data" /\ msg[i + 2] = "eol"
  BY <1>2, ThreePlaces
<1>6. found \in SUBSET Nat
  <2>1. <<"eol", "data", "eol">> \in Texts
    BY <1>2 DEF Texts
  <2> QED BY <2>1, PlacesAreFinite
<1>7. f \in found
  <2>1. msg[f] = "eol" /\ f >= 1
    BY <1>3
  <2> QED BY <2>1, <1>3, <1>5
<1> HIDE DEF found
<1>8. ASSUME NEW i \in found, i < f PROVE FALSE
  <2>1. i \in Nat /\ i >= 1 /\ msg[i] = "eol" /\ msg[i + 1] = "data" /\ msg[i + 2] = "eol"
    BY <1>5, <1>6
  <2>2. CASE i + 2 <= f
    <3>1. i \in 1..(f - 2) /\ i \in 1..f /\ i + 1 \in 1..f /\ i + 2 \in 1..f
      BY <2>1, <2>2, <1>3
    <3>2. p[i] = "eol" /\ p[i + 1] = "data" /\ p[i + 2] = "eol"
      BY <2>1, <3>1
    <3> QED BY <3>1, <3>2, <1>1 DEF NoData
  <2>3. CASE i + 2 > f
    <3>1. i + 2 = f + 1
      BY <2>1, <2>3, <1>3, <1>8
    <3> QED BY <2>1, <3>1
  <2> QED BY <2>1, <2>2, <2>3, <1>3
<1>9. Min(found) = f
  <2>1. PICK x \in found : x = Min(found) /\ x <= f
    BY <1>6, <1>7, MinIsFirst
  <2>2. ~(x < f)
    BY <1>8
  <2>3. x \in Nat /\ f \in Nat
    BY <1>3, <1>6
  <2>4. x = f
    BY ONLY <2>1, <2>2, <2>3
  <2> QED BY <2>1, <2>4
<1>10. SubSeq(msg, 1, f - 1) = q
  <2>1. f - 1 = Len(q) /\ Len(q) <= Len(msg) /\ \A i \in 1..Len(q) : msg[i] = q[i]
    BY <1>3, <1>4
  <2>2. SubSeq(msg, 1, Len(q)) = SubSeq(q, 1, Len(q))
    BY <2>1, <1>3, <1>4, SamePrefix
  <2> QED BY <2>1, <2>2, <1>3, SubSeqFull
<1>11. Lines(q) = <<mail.from>> \o mail.to
  BY <1>1, <1>2, SubSeqFull
<1> DEFINE a == mail.to
           m == mail.from
           h == <<m>> \o a
<1>12. Len(h) = Len(a) + 1 /\ h[1] = m /\ Tail(h) = a
  <2>1. m \in Texts /\ a \in Seq(Texts)
    BY <1>2
  <2> HIDE DEF m, a
  <2> QED BY <2>1
<1>13. PrepareSendMail(msg) =
         IF found = {} \/ Len(h) < 2
         THEN [ok |-> FALSE, from |-> <<>>, to |-> <<>>, data |-> <<>>]
         ELSE [ok |-> TRUE, from |-> h[1], to |-> Tail(h), data |-> SubSeq(msg, f + 3, Len(msg))]
  <2>1. Lines(SubSeq(msg, 1, Min(found) - 1)) = h
    BY <1>9, <1>10, <1>11
  <2> HIDE DEF h
  <2>2. PrepareSendMail(msg) =
          IF found = {} \/ Len(Lines(SubSeq(msg, 1, Min(found) - 1))) < 2
          THEN [ok |-> FALSE, from |-> <<>>, to |-> <<>>, data |-> <<>>]
          ELSE [ok |-> TRUE, from |-> Lines(SubSeq(msg, 1, Min(found) - 1))[1],
                to |-> Tail(Lines(SubSeq(msg, 1, Min(found) - 1))), data |-> SubSeq(msg, Min(found) + 3, Len(msg))]
    BY DEF PrepareSendMail, found
  <2> QED BY <2>1, <2>2, <1>9
<1> HIDE DEF h
<1>14. (a = <<>> => Len(h) < 2) /\ (a # <<>> => ~(Len(h) < 2))
  <2>1. a = <<>> <=> Len(a) = 0
    BY <1>2
  <2> QED BY <2>1, <1>2, <1>12
<1>15. f \in Places(<<"eol", "data", "eol">>, msg)
  BY <1>7 DEF found
<1>16. a = <<>> => PrepareSendMail(msg).ok = FALSE
  BY <1>13, <1>14
<1>17. a # <<>> => PrepareSendMail(msg) = [ok |-> TRUE, from |-> m, to |-> a, data |-> DataOf(msg, f)]
  BY <1>7, <1>12, <1>13, <1>14 DEF DataOf
<1> QED BY <1>15, <1>16, <1>17

\* What the server gets begins at the end of the DATA line.
LEMMA ServerGets ==
  ASSUME NEW msg \in Texts, NEW f \in Places(<<"eol", "data", "eol">>, msg),
         NEW text, text = TextOf(msg, f)
  PROVE  /\ f \in Nat /\ f >= 1 /\ text \in Texts /\ Len(text) = Len(msg) - f - 1
         /\ \A i \in 1..Len(text) : text[i] = msg[f + 1 + i]
         /\ Places(Mark, text) \in SUBSET Nat
         /\ \A i \in Nat : i \in Places(Mark, text) <=> i >= 1 /\ f + 1 + i \in Places(Mark, msg)
<1>1. {"eol", "dot", "data"} \subseteq Tokens /\ Len(msg) \in Nat /\ msg \in Seq(Tokens)
  BY RequestAssumption DEF Texts
<1>2. f \in Nat
  <2>1. <<"eol", "data", "eol">> \in Texts
    BY <1>1 DEF Texts
  <2> QED BY <2>1, PlacesAreFinite
<1>3. f >= 1 /\ f + 2 <= Len(msg) /\ msg[f + 2] = "eol"
  BY <1>1, <1>2, ThreePlaces
<1> DEFINE d == SubSeq(msg, f + 3, Len(msg))
           e == <<"eol">>
<1>4. d \in Seq(Tokens) /\ Len(d) = Len(msg) - f - 2 /\ \A i \in 1..Len(d) : d[i] = msg[f + 2 + i]
  BY <1>1, <1>2, <1>3
<1>5. e \in Seq(Tokens) /\ Len(e) = 1 /\ e[1] = "eol"
  BY <1>1
<1>6. text = e \o d
  BY DEF TextOf, DataOf
<1> HIDE DEF d, e
<1>7. /\ text \in Seq(Tokens) /\ Len(text) = Len(e) + Len(d)
      /\ \A i \in 1..Len(e) : text[i] = e[i]
      /\ \A i \in (Len(e) + 1)..(Len(e) + Len(d)) : text[i] = d[i - Len(e)]
  <2>1. d \in Seq(Tokens) /\ e \in Seq(Tokens)
    BY <1>4, <1>5
  <2> QED BY ONLY <2>1, <1>6, Joined
<1>8. Len(text) = Len(msg) - f - 1 /\ Len(text) \in Nat
  BY <1>1, <1>2, <1>3, <1>4, <1>5, <1>7
<1>9. ASSUME NEW i \in 1..Len(text) PROVE text[i] = msg[f + 1 + i]
  <2>1. CASE i = 1
    BY <2>1, <1>2, <1>3, <1>5, <1>7
  <2>2. CASE i # 1
    <3>1. i \in (Len(e) + 1)..(Len(e) + Len(d)) /\ i - Len(e) \in 1..Len(d) /\ f + 2 + (i - Len(e)) = f + 1 + i
      BY <2>2, <1>1, <1>2, <1>3, <1>4, <1>5, <1>7, <1>8
    <3>2. text[i] = d[i - Len(e)] /\ d[i - Len(e)] = msg[f + 2 + (i - Len(e))]
      BY <3>1, <1>4, <1>7
    <3> QED BY <3>1, <3>2
  <2> QED BY <2>1, <2>2
<1>10. Places(Mark, text) \in SUBSET Nat
  <2>1. Mark \in Texts
    BY <1>1 DEF Mark, Texts
  <2> QED BY <2>1, <1>7, PlacesAreFinite DEF Texts
<1>11. ASSUME NEW i \in Nat PROVE i \in Places(Mark, text) <=> i >= 1 /\ f + 1 + i \in Places(Mark, msg)
  <2>1. i \in Places(Mark, text) <=> i >= 1 /\ i + 2 <= Len(text) /\ text[i] = "eol" /\ text[i + 1] = "dot" /\ text[i + 2] = "eol"
    <3>1. text \in Texts
      BY <1>7 DEF Texts
    <3> QED BY ONLY <3>1, i \in Nat, MarkPlaces
  <2> DEFINE j == f + 1 + i
  <2>2. j \in Nat /\ j >= 1
    BY <1>2
  <2> HIDE DEF j
  <2>3. j \in Places(Mark, msg) <=> j >= 1 /\ j + 2 <= Len(msg) /\ msg[j] = "eol" /\ msg[j + 1] = "dot" /\ msg[j + 2] = "eol"
    BY <2>2, MarkPlaces
  <2>4. i + 2 <= Len(text) <=> j + 2 <= Len(msg)
    BY <1>1, <1>2, <1>8 DEF j
  <2>5. ASSUME i >= 1, i + 2 <= Len(text)
        PROVE  text[i] = msg[j] /\ text[i + 1] = msg[j + 1] /\ text[i + 2] = msg[j + 2]
    <3>1. i \in 1..Len(text) /\ i + 1 \in 1..Len(text) /\ i + 2 \in 1..Len(text)
      <4>1. Len(text) \in Nat /\ i \in Nat
        BY <1>8
      <4> QED BY ONLY <4>1, <2>5
    <3>2. f + 1 + (i + 1) = j + 1 /\ f + 1 + (i + 2) = j + 2 /\ f + 1 + i = j
      BY <1>2 DEF j
    <3> QED BY <3>1, <3>2, <1>9
  <2>6. i \in Places(Mark, text) <=> i >= 1 /\ j \in Places(Mark, msg)
    BY <2>1, <2>2, <2>3, <2>4, <2>5
  <2> QED BY <2>6 DEF j
<1> QED BY <1>2, <1>3, <1>7, <1>8, <1>9, <1>10, <1>11 DEF Texts

\* Of a mail that is cut off no end arrives.
LEMMA CutOffWaits ==
  ASSUME NEW mail \in Mails, ~Splits(mail), NEW msg \in Texts,
         Len(msg) < Len(Composed(mail)),
         \A i \in 1..Len(msg) : msg[i] = Composed(mail)[i],
         NEW f \in Places(<<"eol", "data", "eol">>, msg)
  PROVE  ServerTakes(DataOf(msg, f)).complete = FALSE
<1> DEFINE text == TextOf(msg, f)
           c == Composed(mail)
<1>1. c \in Texts /\ Len(c) > 5 /\ SubSeq(c, Len(c) - 2, Len(c)) = Mark /\ Len(c) \in Nat /\ Len(msg) \in Nat
  BY ComposedEnds DEF Texts
<1>2. ~(Cardinality(Places(Mark, c)) > 1)
  BY DEF Splits
<1>3. {"eol", "dot"} \subseteq Tokens /\ Mark \in Texts
  BY RequestAssumption DEF Mark, Texts
<1> HIDE DEF c
<1>4. Len(c) - 2 \in Places(Mark, c)
  <2>1. Len(Mark) = 3
    BY DEF Mark
  <2>2. Len(c) - 2 \in 1..(Len(c) - Len(Mark) + 1) /\ (Len(c) - 2) + Len(Mark) - 1 = Len(c)
    BY <1>1, <2>1
  <2> QED BY <2>2, <1>1 DEF Places
<1>5. ASSUME NEW j \in Nat, j \in Places(Mark, msg) PROVE FALSE
  <2>1. j >= 1 /\ j + 2 <= Len(msg) /\ msg[j] = "eol" /\ msg[j + 1] = "dot" /\ msg[j + 2] = "eol"
    BY <1>5, MarkPlaces
  <2>2. j \in 1..Len(msg) /\ j + 1 \in 1..Len(msg) /\ j + 2 \in 1..Len(msg)
    BY <2>1, <1>1
  <2>3. c[j] = "eol" /\ c[j + 1] = "dot" /\ c[j + 2] = "eol"
    BY <2>1, <2>2 DEF c
  <2>4. j + 2 <= Len(c) /\ j # Len(c) - 2
    BY <2>1, <1>1 DEF c
  <2>5. j \in Places(Mark, c)
    BY <2>1, <2>3, <2>4, <1>1, MarkPlaces
  <2> QED BY <2>4, <2>5, <1>1, <1>2, <1>3, <1>4, PlacesAreFinite
<1>6. Places(Mark, text) = {}
  <2>1. f \in Nat /\ Places(Mark, text) \in SUBSET Nat
        /\ \A i \in Nat : i \in Places(Mark, text) => f + 1 + i \in Places(Mark, msg)
    <3>1. text = TextOf(msg, f)
      OBVIOUS
    <3> HIDE DEF text
    <3>2. f \in Nat /\ Places(Mark, text) \in SUBSET Nat
          /\ \A i \in Nat : i \in Places(Mark, text) <=> i >= 1 /\ f + 1 + i \in Places(Mark, msg)
      BY <3>1, ServerGets
    <3> QED BY <3>2
  <2> HIDE DEF text
  <2>2. \A i \in Nat : f + 1 + i \in Nat
    BY <2>1
  <2> QED BY <2>1, <2>2, <1>5
<1>7. ServerTakes(DataOf(msg, f)) = [mail |-> <<>>, commands |-> <<>>, complete |-> FALSE]
  BY <1>6 DEF ServerTakes, TextOf
<1> QED BY <1>7

\* None of the first k tokens is a NUL.
NoNulTo(s, k) == \A i \in 1..k : s[i] # "nul"

\* The string of strstr and strlen: the text, or less if there is a NUL in it.
LEMMA StringOfText ==
  ASSUME NEW buf \in Texts, NEW n \in Nat, n < Len(buf), NulsBehind(buf, n),
         NEW c, c = SubSeq(buf, 1, n), NEW k \in 0..n, NoNulTo(c, k)
  PROVE  /\ NoNul(c) => CString(buf) = c
         /\ ~NoNul(c) =>
              /\ CString(buf) \in Texts /\ Len(CString(buf)) \in k..(n - 1)
              /\ \A i \in 1..Len(CString(buf)) : CString(buf)[i] = c[i]
<1> DEFINE I == {i \in 1..Len(buf) : buf[i] = "nul"}
           m == Min(I)
<1>1. buf \in Seq(Tokens) /\ Len(buf) \in Nat /\ c \in Seq(Tokens) /\ Len(c) = n /\ \A i \in 1..n : c[i] = buf[i]
  BY DEF Texts
<1>2. n + 1 \in I
  BY <1>1 DEF NulsBehind
<1>3. m \in I /\ \A i \in I : m <= i
  <2> HIDE DEF I
  <2>1. I \in SUBSET Nat
    BY DEF I
  <2> QED BY <2>1, <1>2, MinIsFirst
<1>4. CString(buf) = SubSeq(buf, 1, m - 1)
  <2>1. I # {} /\ m # 0
    BY <1>2, <1>3
  <2>2. SelectInSeq(buf, LAMBDA t : t = "nul") = m
    BY <2>1 DEF SelectInSeq
  <2> HIDE DEF m, I
  <2> QED BY <2>1, <2>2 DEF CString
<1>5. m \in 1..(n + 1) /\ buf[m] = "nul" /\ \A i \in 1..(m - 1) : buf[i] # "nul"
  <2>1. m \in 1..Len(buf) /\ buf[m] = "nul" /\ m <= n + 1
    BY <1>2, <1>3
  <2>2. ASSUME NEW i \in 1..(m - 1), buf[i] = "nul" PROVE FALSE
    <3>1. m \in Nat
      BY <2>1
    <3>2. i \in 1..Len(buf) /\ i < m
      BY <2>1, <3>1, <1>1
    <3>3. i \in I
      BY <2>2, <3>2
    <3>4. m <= i
      BY <1>3, <3>3
    <3> HIDE DEF m
    <3> QED BY <3>1, <3>2, <3>4
  <2> QED BY <2>1, <2>2
<1> HIDE DEF m, I
<1>6. ASSUME NoNul(c) PROVE CString(buf) = c
  <2>1. m = n + 1
    <3>1. ~(m <= n)
      <4> SUFFICES ASSUME m <= n PROVE FALSE
        OBVIOUS
      <4>1. m \in 1..Len(c) /\ c[m] = "nul"
        BY <1>1, <1>5
      <4> QED BY <4>1, <1>6 DEF NoNul
    <3> QED BY <3>1, <1>5
  <2> QED BY <2>1, <1>4
<1>7. ASSUME ~NoNul(c)
      PROVE  /\ CString(buf) \in Texts /\ Len(CString(buf)) \in k..(n - 1)
             /\ \A i \in 1..Len(CString(buf)) : CString(buf)[i] = c[i]
  <2>1. PICK j \in 1..n : c[j] = "nul"
    BY <1>1, <1>7 DEF NoNul
  <2>2. m <= j
    <3>1. buf[j] = "nul" /\ j \in Nat
      BY <2>1, <1>1
    <3>2. ~(j \in 1..(m - 1))
      BY <3>1, <1>5
    <3> QED BY <3>1, <3>2, <1>5
  <2>3. m > k
    <3> SUFFICES ASSUME m <= k PROVE FALSE
      BY <1>5
    <3>1. m \in 1..k /\ m \in 1..n /\ c[m] = buf[m]
      BY <1>1, <1>5
    <3> QED BY <3>1, <1>5, <1>7 DEF NoNulTo
  <2>4. m - 1 \in Nat /\ m - 1 <= n - 1 /\ m - 1 >= k /\ m - 1 <= Len(buf)
    BY <2>2, <2>3, <1>1, <1>5
  <2>5. SubSeq(buf, 1, m - 1) \in Seq(Tokens) /\ Len(SubSeq(buf, 1, m - 1)) = m - 1
        /\ \A i \in 1..(m - 1) : SubSeq(buf, 1, m - 1)[i] = buf[i]
    BY <2>4, <1>1
  <2> DEFINE s == CString(buf)
  <2>6. s \in Seq(Tokens) /\ Len(s) = m - 1 /\ \A i \in 1..(m - 1) : s[i] = buf[i]
    BY <2>5, <1>4
  <2> HIDE DEF s
  <2>7. s \in Texts /\ Len(s) \in k..(n - 1) /\ \A i \in 1..Len(s) : s[i] = c[i]
    BY <2>4, <2>6, <1>1 DEF Texts
  <2> QED BY <2>7 DEF s
<1> QED BY <1>6, <1>7


-----------------------------------------------------------------------------
(***************************************************************************)
(* The dots: what Transport.php escapes and the server drops.              *)
(***************************************************************************)

EscapedAt(s, i) == IF i > 1 /\ s[i] = "dot" /\ s[i - 1] = "eol" THEN <<"dot", "dot">> ELSE <<s[i]>>
UnescapedAt(s, i) == IF s[i] = "dot" /\ (i = 1 \/ s[i - 1] = "eol") THEN <<>> ELSE <<s[i]>>

\* Of a token more.
LEMMA EscapedLonger ==
  ASSUME NEW s \in Texts, NEW x \in Tokens
  PROVE  Escaped(Append(s, x)) =
           Escaped(s) \o (IF x = "dot" /\ Len(s) > 0 /\ s[Len(s)] = "eol" THEN <<"dot", "dot">> ELSE <<x>>)
<1> DEFINE v == [i \in 1..Len(s) |-> EscapedAt(s, i)]
           t == Append(s, x)
           w == [i \in 1..Len(t) |-> EscapedAt(t, i)]
<1>1. Len(s) \in Nat /\ Len(t) = Len(s) + 1 /\ t \in Texts /\ (\A i \in 1..Len(s) : t[i] = s[i]) /\ t[Len(s) + 1] = x
  BY Appended DEF Texts
<1> HIDE DEF t
<1>2. ASSUME NEW u \in Texts
      PROVE  [i \in 1..Len(u) |-> EscapedAt(u, i)] \in Seq(Seq(Tokens))
             /\ Len([i \in 1..Len(u) |-> EscapedAt(u, i)]) = Len(u)
             /\ Escaped(u) = FlattenSeq([i \in 1..Len(u) |-> EscapedAt(u, i)])
  <2>1. Len(u) \in Nat /\ "dot" \in Tokens
    BY RequestAssumption DEF Texts
  <2>2. \A i \in 1..Len(u) : <<u[i]>> \in Seq(Tokens) /\ <<"dot", "dot">> \in Seq(Tokens)
    BY <2>1 DEF Texts
  <2>3. [i \in 1..Len(u) |-> EscapedAt(u, i)] \in [1..Len(u) -> Seq(Tokens)]
    BY <2>2 DEF EscapedAt
  <2> QED BY <2>1, <2>3, FunctionIsText DEF Escaped, EscapedAt
<1>3. (\A i \in 1..Len(s) : w[i] = v[i]) /\ w[Len(s) + 1] = EscapedAt(t, Len(s) + 1)
  <2>1. ASSUME NEW i \in 1..Len(s) PROVE EscapedAt(t, i) = EscapedAt(s, i) /\ i \in 1..Len(t)
    <3>1. i = 1 \/ i - 1 \in 1..Len(s)
      BY <1>1
    <3> QED BY <1>1, <3>1 DEF EscapedAt
  <2>2. Len(s) + 1 \in 1..Len(t)
    BY <1>1
  <2> QED BY <2>1, <2>2
<1>4. EscapedAt(t, Len(s) + 1) = IF x = "dot" /\ Len(s) > 0 /\ s[Len(s)] = "eol" THEN <<"dot", "dot">> ELSE <<x>>
  <2>1. Len(s) > 0 => t[Len(s)] = s[Len(s)]
    BY <1>1
  <2>2. (Len(s) + 1) - 1 = Len(s) /\ (Len(s) + 1 > 1 <=> Len(s) > 0)
    BY <1>1
  <2> QED BY <1>1, <2>1, <2>2 DEF EscapedAt
<1>5. /\ v \in Seq(Seq(Tokens)) /\ Len(v) = Len(s) /\ Escaped(s) = FlattenSeq(v)
      /\ w \in Seq(Seq(Tokens)) /\ Len(w) = Len(s) + 1 /\ Escaped(t) = FlattenSeq(w)
  BY <1>1, <1>2
<1> HIDE DEF v, w
<1>6. FlattenSeq(w) = FlattenSeq(v) \o w[Len(w)]
  BY <1>3, <1>5, FlattenLonger
<1> QED BY <1>3, <1>4, <1>5, <1>6 DEF t

LEMMA UnescapedLonger ==
  ASSUME NEW s \in Texts, NEW x \in Tokens
  PROVE  /\ Unescaped(s) \in Texts
         /\ Unescaped(Append(s, x)) =
              IF x = "dot" /\ (Len(s) = 0 \/ s[Len(s)] = "eol") THEN Unescaped(s) ELSE Append(Unescaped(s), x)
<1> DEFINE v == [i \in 1..Len(s) |-> UnescapedAt(s, i)]
           t == Append(s, x)
           w == [i \in 1..Len(t) |-> UnescapedAt(t, i)]
<1>1. Len(s) \in Nat /\ Len(t) = Len(s) + 1 /\ t \in Texts /\ (\A i \in 1..Len(s) : t[i] = s[i]) /\ t[Len(s) + 1] = x
  BY Appended DEF Texts
<1> HIDE DEF t
<1>2. ASSUME NEW u \in Texts
      PROVE  [i \in 1..Len(u) |-> UnescapedAt(u, i)] \in Seq(Seq(Tokens))
             /\ Len([i \in 1..Len(u) |-> UnescapedAt(u, i)]) = Len(u)
             /\ Unescaped(u) = FlattenSeq([i \in 1..Len(u) |-> UnescapedAt(u, i)])
  <2>1. Len(u) \in Nat
    BY DEF Texts
  <2>2. \A i \in 1..Len(u) : <<u[i]>> \in Seq(Tokens) /\ <<>> \in Seq(Tokens)
    BY <2>1 DEF Texts
  <2>3. [i \in 1..Len(u) |-> UnescapedAt(u, i)] \in [1..Len(u) -> Seq(Tokens)]
    BY <2>2 DEF UnescapedAt
  <2> QED BY <2>1, <2>3, FunctionIsText DEF Unescaped, UnescapedAt
<1>3. (\A i \in 1..Len(s) : w[i] = v[i]) /\ w[Len(s) + 1] = UnescapedAt(t, Len(s) + 1)
  <2>1. ASSUME NEW i \in 1..Len(s) PROVE UnescapedAt(t, i) = UnescapedAt(s, i) /\ i \in 1..Len(t)
    <3>1. i = 1 \/ i - 1 \in 1..Len(s)
      BY <1>1
    <3> QED BY <1>1, <3>1 DEF UnescapedAt
  <2>2. Len(s) + 1 \in 1..Len(t)
    BY <1>1
  <2> QED BY <2>1, <2>2
<1>4. UnescapedAt(t, Len(s) + 1) = IF x = "dot" /\ (Len(s) = 0 \/ s[Len(s)] = "eol") THEN <<>> ELSE <<x>>
  <2>1. Len(s) > 0 => t[Len(s)] = s[Len(s)]
    BY <1>1
  <2>2. (Len(s) + 1) - 1 = Len(s) /\ (Len(s) + 1 = 1 <=> Len(s) = 0) /\ (Len(s) = 0 \/ Len(s) > 0)
    BY <1>1
  <2> QED BY <1>1, <2>1, <2>2 DEF UnescapedAt
<1>5. /\ v \in Seq(Seq(Tokens)) /\ Len(v) = Len(s) /\ Unescaped(s) = FlattenSeq(v)
      /\ w \in Seq(Seq(Tokens)) /\ Len(w) = Len(s) + 1 /\ Unescaped(t) = FlattenSeq(w)
  BY <1>1, <1>2
<1> HIDE DEF v, w
<1>6. FlattenSeq(v) \in Seq(Tokens) /\ FlattenSeq(w) = FlattenSeq(v) \o w[Len(w)]
  BY <1>3, <1>5, FlattenLonger
<1>7. FlattenSeq(v) \o <<>> = FlattenSeq(v) /\ FlattenSeq(v) \o <<x>> = Append(FlattenSeq(v), x)
  BY <1>6, Appended
<1>8. Unescaped(t) = IF x = "dot" /\ (Len(s) = 0 \/ s[Len(s)] = "eol") THEN Unescaped(s) ELSE Append(Unescaped(s), x)
  BY <1>3, <1>4, <1>5, <1>6, <1>7
<1> QED BY <1>5, <1>6, <1>8 DEF t, Texts

\* A NUL stays one, and nothing becomes one.
LEMMA EscapedNul ==
  ASSUME NEW s \in Texts
  PROVE  NoNul(Escaped(s)) <=> NoNul(s)
<1> DEFINE G == {n \in Nat : n <= Len(s) => (NoNul(Escaped(SubSeq(s, 1, n))) <=> NoNul(SubSeq(s, 1, n)))}
<1>0. s \in Seq(Tokens) /\ Len(s) \in Nat /\ "dot" \in Tokens
  BY RequestAssumption DEF Texts
<1>1. 0 \in G
  <2>1. SubSeq(s, 1, 0) = <<>> /\ Escaped(<<>>) = <<>>
    BY <1>0, FlattenEmpty DEF Escaped
  <2> QED BY <2>1
<1>2. ASSUME NEW n \in Nat, n \in G PROVE n + 1 \in G
  <2> SUFFICES ASSUME n < Len(s)
               PROVE  NoNul(Escaped(SubSeq(s, 1, n + 1))) <=> NoNul(SubSeq(s, 1, n + 1))
    BY <1>0
  <2> DEFINE u == SubSeq(s, 1, n)
             x == s[n + 1]
             e == Escaped(u)
  <2>1. u \in Texts /\ x \in Tokens /\ SubSeq(s, 1, n + 1) = Append(u, x)
    BY <1>0, LongerStart DEF Texts
  <2>2. NoNul(e) <=> NoNul(u)
    BY <1>0, <1>2
  <2> HIDE DEF u, x
  <2>3. e \in Texts
    BY <2>1, EscapedType
  <2>4. Escaped(Append(u, x)) = e \o (IF x = "dot" /\ Len(u) > 0 /\ u[Len(u)] = "eol" THEN <<"dot", "dot">> ELSE <<x>>)
    BY <2>1, EscapedLonger
  <2> HIDE DEF e
  <2>5. ASSUME NEW t \in Texts, NEW y \in Tokens PROVE NoNul(Append(t, y)) <=> NoNul(t) /\ y # "nul"
    <3>1. t \in Seq(Tokens) /\ Len(t) \in Nat
      BY DEF Texts
    <3>2. /\ Len(Append(t, y)) = Len(t) + 1 /\ \A i \in 1..Len(t) : Append(t, y)[i] = t[i]
          /\ Append(t, y)[Len(t) + 1] = y
      BY <3>1, Appended
    <3>3. \A i \in 1..(Len(t) + 1) : i \in 1..Len(t) \/ i = Len(t) + 1
      BY <3>1
    <3> QED BY <3>1, <3>2, <3>3 DEF NoNul
  <2>6. NoNul(Append(u, x)) <=> NoNul(u) /\ x # "nul"
    BY <2>1, <2>5
  <2>7. CASE x = "dot" /\ Len(u) > 0 /\ u[Len(u)] = "eol"
    <3>1. Escaped(Append(u, x)) = Append(Append(e, x), x) /\ Append(e, x) \in Texts
      <4>1. e \o <<x, x>> = Append(Append(e, x), x)
        BY <2>1, <2>3 DEF Texts
      <4> QED BY <4>1, <2>1, <2>3, <2>4, <2>7, Appended DEF Texts
    <3>2. NoNul(Append(e, x)) <=> NoNul(e) /\ x # "nul"
      BY <2>1, <2>3, <2>5
    <3>3. NoNul(Append(Append(e, x), x)) <=> NoNul(Append(e, x)) /\ x # "nul"
      BY <3>1, <2>1, <2>5
    <3>4. NoNul(Escaped(Append(u, x))) <=> NoNul(Append(u, x))
      BY <3>1, <3>2, <3>3, <2>2, <2>6
    <3> QED BY <3>4, <2>1
  <2>8. CASE ~(x = "dot" /\ Len(u) > 0 /\ u[Len(u)] = "eol")
    <3>1. Escaped(Append(u, x)) = Append(e, x)
      BY <2>1, <2>3, <2>4, <2>8, Appended DEF Texts
    <3>2. NoNul(Append(e, x)) <=> NoNul(e) /\ x # "nul"
      BY <2>1, <2>3, <2>5
    <3>3. NoNul(Escaped(Append(u, x))) <=> NoNul(Append(u, x))
      BY <3>1, <3>2, <2>2, <2>6
    <3> QED BY <3>3, <2>1
  <2> QED BY <2>1, <2>7, <2>8
<1>3. Nat \subseteq G
  <2> HIDE DEF G
  <2> QED BY <1>1, <1>2, Induction
<1>4. SubSeq(s, 1, Len(s)) = s
  BY <1>0, SubSeqFull
<1>5. NoNul(Escaped(SubSeq(s, 1, Len(s)))) <=> NoNul(SubSeq(s, 1, Len(s)))
  BY <1>0, <1>3
<1> QED BY <1>4, <1>5

\* A text without a dot at the start of a line is taken as it is.
LEMMA NothingDropped ==
  ASSUME NEW s \in Texts,
         \A i \in 1..Len(s) : s[i] = "dot" => i > 1 /\ s[i - 1] # "eol"
  PROVE  Unescaped(s) = s
<1> DEFINE G == {n \in Nat : n <= Len(s) => Unescaped(SubSeq(s, 1, n)) = SubSeq(s, 1, n)}
<1>0. s \in Seq(Tokens) /\ Len(s) \in Nat
  BY DEF Texts
<1>1. 0 \in G
  <2>1. SubSeq(s, 1, 0) = <<>> /\ Unescaped(<<>>) = <<>>
    BY <1>0, FlattenEmpty DEF Unescaped
  <2> QED BY <2>1
<1>2. ASSUME NEW n \in Nat, n \in G PROVE n + 1 \in G
  <2> SUFFICES ASSUME n < Len(s)
               PROVE  Unescaped(SubSeq(s, 1, n + 1)) = SubSeq(s, 1, n + 1)
    BY <1>0
  <2> DEFINE u == SubSeq(s, 1, n)
             x == s[n + 1]
  <2>1. /\ u \in Texts /\ x \in Tokens /\ SubSeq(s, 1, n + 1) = Append(u, x)
        /\ Len(u) = n /\ (n > 0 => u[n] = s[n])
    BY <1>0, LongerStart DEF Texts
  <2>2. Unescaped(u) = u
    BY <1>0, <1>2
  <2>3. x = "dot" => n > 0 /\ s[n] # "eol"
    <3>1. n + 1 \in 1..Len(s) /\ (n + 1) - 1 = n
      BY <1>0
    <3> QED BY <3>1
  <2> HIDE DEF u, x
  <2>4. Unescaped(Append(u, x)) = Append(u, x)
    BY <2>1, <2>2, <2>3, UnescapedLonger
  <2> QED BY <2>1, <2>4
<1>3. Nat \subseteq G
  <2> HIDE DEF G
  <2> QED BY <1>1, <1>2, Induction
<1>4. SubSeq(s, 1, Len(s)) = s
  BY <1>0, SubSeqFull
<1>5. Unescaped(SubSeq(s, 1, Len(s))) = SubSeq(s, 1, Len(s))
  BY <1>0, <1>3
<1> QED BY <1>4, <1>5

\* Behind the end of a line the server takes from an escaped text what was escaped,
\* without the dot it begins with: Transport.php:26 finds no "\n" before that one.
LEMMA TakenFromEscaped ==
  ASSUME NEW g \in Texts, Len(g) > 0, g[Len(g)] = "eol", Unescaped(g) = g, NEW b \in Texts
  PROVE  LET u == Unescaped(g \o Escaped(b))
         IN  /\ u \in Texts
             /\ b = <<>> \/ b[1] # "dot" => u = g \o b
             /\ b # <<>> /\ b[1] = "dot" => Len(u) = Len(g) + Len(b) - 1
<1> DEFINE d == b # <<>> /\ b[1] = "dot"
           P(n) == SubSeq(b, 1, n)
           E(n) == g \o Escaped(P(n))
           Is(n) == /\ E(n) \in Texts /\ Len(E(n)) > 0
                    /\ E(n)[Len(E(n))] = IF n = 0 THEN "eol" ELSE b[n]
                    /\ ~d => Unescaped(E(n)) = g \o P(n)
                    /\ d => Len(Unescaped(E(n))) = Len(g) + n - (IF n = 0 THEN 0 ELSE 1)
           G == {n \in Nat : n <= Len(b) => Is(n)}
<1>0. /\ g \in Seq(Tokens) /\ Len(g) \in Nat /\ b \in Seq(Tokens) /\ Len(b) \in Nat
      /\ "dot" \in Tokens /\ "eol" \in Tokens /\ (b # <<>> <=> Len(b) > 0)
  BY RequestAssumption DEF Texts
<1>1. 0 \in G
  <2>1. P(0) = <<>> /\ Escaped(<<>>) = <<>> /\ g \o <<>> = g
    BY <1>0, FlattenEmpty, Appended DEF Escaped
  <2>2. E(0) = g
    BY <2>1
  <2>3. P(0) = <<>> /\ g \o P(0) = g
    BY <2>1
  <2> HIDE DEF P, E
  <2>4. Is(0)
    BY <1>0, <2>2, <2>3
  <2> QED BY <2>4
<1>2. ASSUME NEW n \in Nat, n \in G PROVE n + 1 \in G
  <2> SUFFICES ASSUME n < Len(b) PROVE Is(n + 1)
    BY <1>0
  <2> DEFINE p == P(n)
             x == b[n + 1]
             e == Escaped(p)
             s == g \o e
             u == Unescaped(s)
  <2>1. /\ p \in Texts /\ Len(p) = n /\ (n > 0 => p[n] = b[n])
        /\ x \in Tokens /\ P(n + 1) = Append(p, x)
    BY <1>0, LongerStart DEF Texts
  <2>2. /\ s \in Texts /\ Len(s) > 0 /\ s[Len(s)] = IF n = 0 THEN "eol" ELSE b[n]
        /\ ~d => u = g \o p
        /\ d => Len(u) = Len(g) + n - (IF n = 0 THEN 0 ELSE 1)
    BY <1>0, <1>2
  <2>3. n = 0 => (x = "dot" <=> d)
    BY <1>0
  <2> HIDE DEF p, x, d, P
  <2>4. e \in Seq(Tokens) /\ u \in Texts
    BY <2>1, <2>2, EscapedType, UnescapedLonger DEF Texts
  <2>5. Escaped(Append(p, x)) = e \o (IF x = "dot" /\ n > 0 /\ b[n] = "eol" THEN <<"dot", "dot">> ELSE <<x>>)
    BY <2>1, EscapedLonger
  <2>6. g \o Append(p, x) = Append(g \o p, x)
    BY <1>0, <2>1, AppendJoined DEF Texts
  <2>7. s \in Seq(Tokens) /\ u \in Seq(Tokens) /\ Len(s) \in Nat
    BY <2>2, <2>4 DEF Texts
  <2>8. g \o Append(e, x) = Append(s, x)
    BY <1>0, <2>1, <2>4, AppendJoined
  <2>9. e \o <<x>> = Append(e, x) /\ Append(e, x) \in Seq(Tokens)
    BY <2>1, <2>4, Appended
  <2> HIDE DEF e
  <2>10. CASE x = "dot" /\ n > 0 /\ b[n] = "eol"
    <3>1. e \o <<"dot", "dot">> = Append(Append(e, x), x)
      BY <2>4, <2>10, <1>0
    <3>2. E(n + 1) = Append(Append(s, x), x)
      <4>1. g \o Append(Append(e, x), x) = Append(g \o Append(e, x), x)
        <5> DEFINE f == Append(e, x)
        <5>1. f \in Seq(Tokens)
          BY <2>9
        <5> HIDE DEF f
        <5>2. g \o Append(f, x) = Append(g \o f, x)
          BY <1>0, <2>1, <5>1, AppendJoined
        <5> QED BY <5>2 DEF f
      <4> QED BY <4>1, <3>1, <2>1, <2>5, <2>8, <2>10
    <3> DEFINE t == Append(s, x)
    <3>3. t \in Texts /\ t \in Seq(Tokens) /\ Len(t) = Len(s) + 1 /\ t[Len(s) + 1] = x
      BY <2>1, <2>7, Appended DEF Texts
    <3>4. Unescaped(t) = u
      BY <2>1, <2>2, <2>10, UnescapedLonger
    <3>5. E(n + 1) = Append(t, x)
      BY <3>2
    <3> HIDE DEF t, s, E
    <3>6. Unescaped(Append(t, x)) = Append(u, x)
      BY <2>1, <2>7, <2>10, <3>3, <3>4, UnescapedLonger
    <3>7. /\ Append(t, x) \in Texts /\ Len(Append(t, x)) > 0 /\ Append(t, x)[Len(Append(t, x))] = x
          /\ Len(Append(u, x)) = Len(u) + 1
      BY <2>1, <2>7, <3>3, Appended DEF Texts
    <3>8. n + 1 # 0 /\ x = b[n + 1]
      BY DEF x
    <3>9. ~d => Append(u, x) = g \o P(n + 1)
      BY <2>1, <2>2, <2>6
    <3>10. d => Len(Append(u, x)) = Len(g) + (n + 1) - 1
      BY <2>2, <2>10, <3>7, <1>0
    <3> QED BY <3>5, <3>6, <3>7, <3>8, <3>9, <3>10
  <2>11. CASE ~(x = "dot" /\ n > 0 /\ b[n] = "eol")
    <3>1. E(n + 1) = Append(s, x)
      BY <2>1, <2>5, <2>8, <2>9, <2>11
    <3>2. /\ Append(s, x) \in Texts /\ Len(Append(s, x)) > 0 /\ Append(s, x)[Len(Append(s, x))] = x
          /\ Len(Append(u, x)) = Len(u) + 1
      BY <2>1, <2>7, Appended DEF Texts
    <3>3. n + 1 # 0 /\ x = b[n + 1]
      BY DEF x
    <3>4. Unescaped(Append(s, x)) = IF n = 0 /\ d THEN u ELSE Append(u, x)
      <4>1. x = "dot" /\ (Len(s) = 0 \/ s[Len(s)] = "eol") <=> n = 0 /\ d
        BY <2>2, <2>3, <2>7, <2>11
      <4> QED BY <4>1, <2>1, <2>2, UnescapedLonger
    <3> HIDE DEF s, E, u
    <3>5. ~d => Unescaped(Append(s, x)) = g \o P(n + 1)
      BY <2>1, <2>2, <2>6, <3>4
    <3>6. d => Len(Unescaped(Append(s, x))) = Len(g) + (n + 1) - 1
      BY <1>0, <2>2, <3>2, <3>4
    <3> QED BY <3>1, <3>2, <3>3, <3>5, <3>6
  <2> QED BY <2>10, <2>11
<1>3. Nat \subseteq G
  <2> HIDE DEF G
  <2> QED BY <1>1, <1>2, Induction
<1>4. P(Len(b)) = b
  BY <1>0, SubSeqFull
<1>5. Is(Len(b))
  BY <1>0, <1>3
<1>6. E(Len(b)) = g \o Escaped(b)
  BY <1>4
<1> HIDE DEF E, P
<1>7. Unescaped(g \o Escaped(b)) \in Texts
  BY <1>0, <1>5, <1>6, UnescapedLonger
<1> QED BY <1>0, <1>4, <1>5, <1>6, <1>7

-----------------------------------------------------------------------------
(***************************************************************************)
(* The parts of a mail as it is written.                                   *)
(***************************************************************************)

\* The header with its empty line, and all that follows the DATA line, without
\* the dot that ends it.
Top(mail) == Trimmed(mail.header) \o <<"eol", "eol">>
Sent(mail) == Top(mail) \o Escaped(Trimmed(mail.body)) \o <<"eol">>

LEMMA TopIsTaken ==
  ASSUME NEW mail \in Mails
  PROVE  /\ Top(mail) \in Texts /\ Len(Top(mail)) > 0 /\ Top(mail)[Len(Top(mail))] = "eol"
         /\ NoNul(Top(mail)) /\ Unescaped(Top(mail)) = Top(mail)
<1> DEFINE h == Trimmed(mail.header)
           s == Append(Append(h, "eol"), "eol")
<1>1. h \in Seq(Tokens) /\ "eol" \in Tokens /\ Len(h) \in Nat
  <2>1. mail.header \in Seq(Tokens) /\ "eol" \in Tokens
    BY RequestAssumption
  <2>2. h \in Seq(Tokens)
    BY <2>1, TrimmedType
  <2> HIDE DEF h
  <2> QED BY <2>1, <2>2
<1>2. ASSUME NEW i \in 1..Len(h)
      PROVE  h[i] # "nul" /\ (h[i] = "dot" => i > 1 /\ h[i - 1] # "eol")
  <2>1. "nul" \notin Range(h) /\ \A j \in 1..Len(h) : h[j] = "dot" => j > 1 /\ h[j - 1] # "eol"
    BY MailsAssumption
  <2>2. h[i] \in Range(h)
    BY <1>1 DEF Range
  <2> QED BY <2>1, <2>2
<1>3. Top(mail) = s
  <2>1. h \o <<"eol", "eol">> = s
    <3> HIDE DEF h
    <3> QED BY <1>1 DEF s
  <2> QED BY <2>1 DEF Top
<1> HIDE DEF h
<1>4. /\ s \in Seq(Tokens) /\ Len(s) = Len(h) + 2 /\ \A i \in 1..Len(h) : s[i] = h[i]
      /\ s[Len(h) + 1] = "eol" /\ s[Len(h) + 2] = "eol"
  BY <1>1
<1> HIDE DEF s
<1>5. ASSUME NEW i \in 1..Len(s)
      PROVE  s[i] # "nul" /\ (s[i] = "dot" => i > 1 /\ s[i - 1] # "eol")
  <2>1. CASE i \in 1..Len(h)
    <3>1. s[i] = h[i] /\ (i > 1 => i - 1 \in 1..Len(h) /\ s[i - 1] = h[i - 1])
      BY <2>1, <1>1, <1>4
    <3> QED BY <2>1, <3>1, <1>2
  <2>2. CASE i = Len(h) + 1 \/ i = Len(h) + 2
    BY <2>2, <1>4
  <2> QED BY <2>1, <2>2, <1>1, <1>4
<1>6. s \in Texts /\ Len(s) > 0 /\ s[Len(s)] = "eol"
  BY <1>1, <1>4 DEF Texts
<1>7. NoNul(s)
  BY <1>5 DEF NoNul
<1>8. Unescaped(s) = s
  BY <1>5, <1>6, NothingDropped
<1> QED BY <1>3, <1>6, <1>7, <1>8

\* The lines of the addresses, the DATA line, and what is behind it.
LEMMA MailParts ==
  ASSUME NEW mail \in Mails, NEW p, p = HeadOf(mail, Len(mail.to)),
         NEW c, c = Composed(mail), NEW z, z = Sent(mail)
  PROVE  /\ p \in Texts /\ Len(p) > 0 /\ NoNul(p) /\ z \in Texts
         /\ c \in Texts /\ Len(c) = Len(p) + Len(z) + 4
         /\ \A i \in 1..Len(p) : c[i] = p[i]
         /\ c[Len(p) + 1] = "data" /\ c[Len(p) + 2] = "eol"
         /\ \A i \in 1..Len(z) : c[Len(p) + 2 + i] = z[i]
         /\ c[Len(c) - 1] = "dot" /\ c[Len(c)] = "eol"
<1> DEFINE D == <<"data", "eol">>
           h == Trimmed(mail.header)
           w == <<"eol", "eol">>
           e == Escaped(Trimmed(mail.body))
           x == (h \o w) \o e
           y == x \o Mark
           a == p \o D
<1>1. /\ mail.header \in Seq(Tokens) /\ mail.body \in Seq(Tokens)
      /\ {"eol", "dot", "data"} \subseteq Tokens
  BY RequestAssumption
<1>2. p \in Seq(Tokens) /\ Len(p) \in Nat /\ Len(p) > 0 /\ NoNul(p)
  <2>1. Len(mail.to) \in 0..Len(mail.to)
    BY AddressesAreLines
  <2>2. PICK q \in Texts : p = Append(q, "eol") /\ NoNul(Append(q, "eol"))
    BY <2>1, HeadsAreLines
  <2>3. q \in Seq(Tokens) /\ Len(q) \in Nat
    BY DEF Texts
  <2> QED BY <1>1, <2>2, <2>3, Appended
<1>3. h \in Seq(Tokens) /\ e \in Seq(Tokens)
  BY <1>1, TrimmedType, EscapedType DEF Texts
<1>4. /\ w \in Seq(Tokens) /\ Mark \in Seq(Tokens) /\ Len(Mark) = 3
      /\ Mark[1] = "eol" /\ Mark[2] = "dot" /\ Mark[3] = "eol"
      /\ D \in Seq(Tokens) /\ Len(D) = 2 /\ D[1] = "data" /\ D[2] = "eol"
  BY <1>1 DEF Mark
<1>5. c = (((a \o h) \o w) \o e) \o Mark
  BY DEF Composed, HeadOf
<1>6. z = x \o <<"eol">>
  BY DEF Sent, Top
<1> HIDE DEF h, w, e, D
<1>7. x \in Seq(Tokens) /\ Len(x) \in Nat
  <2>1. h \o w \in Seq(Tokens)
    BY ONLY <1>3, <1>4, Joined
  <2>2. x \in Seq(Tokens)
    BY <2>1, <1>3, Joined
  <2> HIDE DEF x
  <2> QED BY <2>2
<1>8. /\ a \in Seq(Tokens) /\ Len(a) = Len(p) + 2 /\ \A i \in 1..Len(p) : a[i] = p[i]
      /\ a[Len(p) + 1] = "data" /\ a[Len(p) + 2] = "eol"
  <2>1. /\ p \o D \in Seq(Tokens) /\ Len(p \o D) = Len(p) + Len(D) /\ \A i \in 1..Len(p) : (p \o D)[i] = p[i]
        /\ \A i \in (Len(p) + 1)..(Len(p) + Len(D)) : (p \o D)[i] = D[i - Len(p)]
    <3>1. p \in Seq(Tokens) /\ D \in Seq(Tokens)
      BY <1>2, <1>4
    <3> QED BY ONLY <3>1, Joined
  <2> HIDE DEF a
  <2>2. a = p \o D
    BY DEF a
  <2>3. /\ a \in Seq(Tokens) /\ Len(a) = Len(p) + Len(D) /\ \A i \in 1..Len(p) : a[i] = p[i]
        /\ \A i \in (Len(p) + 1)..(Len(p) + Len(D)) : a[i] = D[i - Len(p)]
    BY ONLY <2>1, <2>2
  <2>4. /\ Len(p) + 1 \in (Len(p) + 1)..(Len(p) + Len(D)) /\ (Len(p) + 1) - Len(p) = 1
        /\ Len(p) + 2 \in (Len(p) + 1)..(Len(p) + Len(D)) /\ (Len(p) + 2) - Len(p) = 2
    BY ONLY <1>2, <1>4
  <2>5. a[Len(p) + 1] = D[1] /\ a[Len(p) + 2] = D[2]
    BY ONLY <2>3, <2>4
  <2> QED BY ONLY <2>3, <2>5, <1>2, <1>4
<1>9. c = a \o y
  <2> DEFINE M == Mark
             b == h \o w
  <2>1. /\ a \in Seq(Tokens) /\ h \in Seq(Tokens) /\ w \in Seq(Tokens) /\ e \in Seq(Tokens)
        /\ M \in Seq(Tokens) /\ c = (((a \o h) \o w) \o e) \o M
    BY <1>3, <1>4, <1>5, <1>8
  <2>2. x = b \o e
    OBVIOUS
  <2>3. b = h \o w
    OBVIOUS
  <2> HIDE DEF a, b, x, M
  <2>4. b \in Seq(Tokens)
    BY <2>1, <2>3, Joined
  <2>5. (a \o h) \o w = a \o (h \o w)
    <3>1. a \in Seq(Tokens) /\ h \in Seq(Tokens) /\ w \in Seq(Tokens)
      BY <2>1
    <3> QED BY ONLY <3>1, Regrouped
  <2>6. (a \o b) \o e = a \o (b \o e)
    <3>1. a \in Seq(Tokens) /\ b \in Seq(Tokens) /\ e \in Seq(Tokens)
      BY <2>1, <2>4
    <3> QED BY ONLY <3>1, Regrouped
  <2>7. (a \o x) \o M = a \o (x \o M)
    <3>1. a \in Seq(Tokens) /\ x \in Seq(Tokens) /\ M \in Seq(Tokens)
      BY <2>1, <1>7
    <3> QED BY ONLY <3>1, Regrouped
  <2>8. ((a \o h) \o w) \o e = a \o x
    BY ONLY <2>2, <2>3, <2>5, <2>6, Zenon
  <2>9. c = a \o (x \o M)
    BY ONLY <2>1, <2>7, <2>8, Zenon
  <2> QED BY <2>9 DEF M
<1>10. /\ z \in Seq(Tokens) /\ Len(z) = Len(x) + 1 /\ (\A i \in 1..Len(x) : z[i] = x[i]) /\ z[Len(x) + 1] = "eol"
  <2>1. "eol" \in Tokens
    BY <1>1
  <2>2. x \o <<"eol">> = Append(x, "eol")
    BY ONLY <1>7, <2>1, Appended
  <2> HIDE DEF x
  <2> QED BY <2>1, <2>2, <1>6, <1>7, Appended
<1>11. /\ y \in Seq(Tokens) /\ Len(y) = Len(x) + 3 /\ \A i \in 1..Len(x) : y[i] = x[i]
       /\ y[Len(x) + 1] = "eol" /\ y[Len(x) + 2] = "dot" /\ y[Len(x) + 3] = "eol"
  <2> DEFINE M == Mark
  <2>0. /\ M \in Seq(Tokens) /\ Len(M) = 3 /\ M[1] = "eol" /\ M[2] = "dot" /\ M[3] = "eol" /\ y = x \o M
    BY <1>4
  <2> HIDE DEF x, y, M
  <2>1. /\ x \o M \in Seq(Tokens) /\ Len(x \o M) = Len(x) + Len(M) /\ \A i \in 1..Len(x) : (x \o M)[i] = x[i]
        /\ \A i \in (Len(x) + 1)..(Len(x) + Len(M)) : (x \o M)[i] = M[i - Len(x)]
    <3>1. x \in Seq(Tokens) /\ M \in Seq(Tokens)
      BY <1>7, <2>0
    <3> QED BY ONLY <3>1, Joined
  <2>2. /\ y \in Seq(Tokens) /\ Len(y) = Len(x) + Len(M) /\ \A i \in 1..Len(x) : y[i] = x[i]
        /\ \A i \in (Len(x) + 1)..(Len(x) + Len(M)) : y[i] = M[i - Len(x)]
    BY ONLY <2>0, <2>1
  <2> QED BY ONLY <2>0, <2>2, <1>7
<1> HIDE DEF a, y, x
<1>12. /\ c \in Seq(Tokens) /\ Len(c) = Len(a) + Len(y) /\ \A i \in 1..Len(a) : c[i] = a[i]
       /\ \A i \in (Len(a) + 1)..(Len(a) + Len(y)) : c[i] = y[i - Len(a)]
  <2>1. a \in Seq(Tokens) /\ y \in Seq(Tokens)
    BY <1>8, <1>11
  <2> QED BY ONLY <2>1, <1>9, Joined
<1>13. ASSUME NEW i \in 1..Len(y) PROVE c[Len(p) + 2 + i] = y[i]
  <2>1. Len(p) + 2 + i \in (Len(a) + 1)..(Len(a) + Len(y)) /\ (Len(p) + 2 + i) - Len(a) = i
    BY <1>2, <1>7, <1>8, <1>11
  <2> QED BY <2>1, <1>12
<1>14. Len(c) = Len(p) + Len(z) + 4
  BY <1>2, <1>7, <1>8, <1>10, <1>11, <1>12
<1>15. \A i \in 1..Len(p) : c[i] = p[i]
  BY <1>2, <1>8, <1>12
<1>16. c[Len(p) + 1] = "data" /\ c[Len(p) + 2] = "eol"
  BY <1>2, <1>8, <1>12
<1>17. ASSUME NEW i \in 1..Len(z) PROVE c[Len(p) + 2 + i] = z[i]
  <2>1. i \in 1..Len(y) /\ (i \in 1..Len(x) \/ i = Len(x) + 1)
    BY <1>7, <1>10, <1>11
  <2> QED BY <2>1, <1>10, <1>11, <1>13
<1>18. c[Len(c) - 1] = "dot" /\ c[Len(c)] = "eol"
  <2>1. /\ Len(x) + 2 \in 1..Len(y) /\ Len(x) + 3 \in 1..Len(y)
        /\ Len(p) + 2 + (Len(x) + 2) = Len(c) - 1 /\ Len(p) + 2 + (Len(x) + 3) = Len(c)
    BY <1>2, <1>7, <1>10, <1>11, <1>14
  <2> QED BY <2>1, <1>11, <1>13
<1> QED BY <1>2, <1>10, <1>12, <1>14, <1>15, <1>16, <1>17, <1>18 DEF Texts

\* A mail has a NUL if its body has, and none before it.
LEMMA NulsOfMail ==
  ASSUME NEW mail \in Mails
  PROVE  /\ NoNul(Composed(mail)) <=> NoNul(Trimmed(mail.body))
         /\ \A i \in 1..(Len(HeadOf(mail, Len(mail.to))) + 2) : Composed(mail)[i] # "nul"
<1> DEFINE p == HeadOf(mail, Len(mail.to))
           c == Composed(mail)
           z == Sent(mail)
           g == Top(mail)
           e == Escaped(Trimmed(mail.body))
<1>1. /\ p \in Texts /\ Len(p) > 0 /\ NoNul(p) /\ z \in Texts
      /\ c \in Texts /\ Len(c) = Len(p) + Len(z) + 4
      /\ \A i \in 1..Len(p) : c[i] = p[i]
      /\ c[Len(p) + 1] = "data" /\ c[Len(p) + 2] = "eol"
      /\ \A i \in 1..Len(z) : c[Len(p) + 2 + i] = z[i]
      /\ c[Len(c) - 1] = "dot" /\ c[Len(c)] = "eol"
  BY MailParts
<1>2. g \in Seq(Tokens) /\ NoNul(g) /\ "eol" \in Tokens /\ Trimmed(mail.body) \in Texts
  BY RequestAssumption, TopIsTaken, TrimmedType DEF Texts
<1>3. e \in Seq(Tokens) /\ (NoNul(e) <=> NoNul(Trimmed(mail.body)))
  BY <1>2, EscapedNul, EscapedType DEF Texts
<1>4. z = (g \o e) \o <<"eol">>
  BY DEF Sent
<1>5. Len(p) \in Nat /\ Len(z) \in Nat /\ Len(c) \in Nat
  BY <1>1 DEF Texts
<1> HIDE DEF p, c, z, g, e
<1> DEFINE x == g \o e
<1>6. /\ x \in Seq(Tokens) /\ Len(x) = Len(g) + Len(e) /\ Len(g) \in Nat /\ Len(e) \in Nat
      /\ (\A i \in 1..Len(g) : x[i] = g[i]) /\ \A i \in (Len(g) + 1)..(Len(g) + Len(e)) : x[i] = e[i - Len(g)]
  BY <1>2, <1>3, Joined
<1> HIDE DEF x
<1>7. /\ Len(z) = Len(x) + 1 /\ (\A i \in 1..Len(x) : z[i] = x[i]) /\ z[Len(x) + 1] = "eol"
  <2>1. z = Append(x, "eol")
    BY <1>2, <1>4, <1>6, Appended DEF x
  <2> QED BY <2>1, <1>2, <1>6, Appended
<1>8. ASSUME NEW i \in 1..(Len(p) + 2) PROVE c[i] # "nul"
  <2>1. i \in 1..Len(p) \/ i = Len(p) + 1 \/ i = Len(p) + 2
    BY <1>5
  <2> QED BY <2>1, <1>1 DEF NoNul
<1>9. NoNul(x) <=> NoNul(e)
  <2>1. ASSUME NoNul(e), NEW i \in 1..Len(x) PROVE x[i] # "nul"
    <3>1. i \in 1..Len(g) \/ (i \in (Len(g) + 1)..(Len(g) + Len(e)) /\ i - Len(g) \in 1..Len(e))
      BY <1>6
    <3> QED BY <3>1, <2>1, <1>2, <1>6 DEF NoNul
  <2>2. ASSUME NoNul(x), NEW i \in 1..Len(e) PROVE e[i] # "nul"
    <3>1. Len(g) + i \in 1..Len(x) /\ Len(g) + i \in (Len(g) + 1)..(Len(g) + Len(e)) /\ (Len(g) + i) - Len(g) = i
      BY <1>6
    <3>2. x[Len(g) + i] = e[i]
      BY <3>1, <1>6
    <3> QED BY <3>1, <3>2, <2>2 DEF NoNul
  <2> QED BY <2>1, <2>2 DEF NoNul
<1>10. NoNul(c) <=> NoNul(x)
  <2>1. ASSUME NoNul(x), NEW i \in 1..Len(c) PROVE c[i] # "nul"
    <3>1. \/ i \in 1..(Len(p) + 2)
          \/ i - (Len(p) + 2) \in 1..Len(z) /\ Len(p) + 2 + (i - (Len(p) + 2)) = i
          \/ i = Len(c) - 1 \/ i = Len(c)
      BY <1>1, <1>5
    <3>2. ASSUME NEW j \in 1..Len(z) PROVE z[j] # "nul"
      <4>1. j \in 1..Len(x) \/ j = Len(x) + 1
        BY <1>6, <1>7
      <4> QED BY <4>1, <2>1, <1>7 DEF NoNul
    <3> QED BY <3>1, <3>2, <1>1, <1>8
  <2>2. ASSUME NoNul(c), NEW i \in 1..Len(x) PROVE x[i] # "nul"
    <3>1. i \in 1..Len(z) /\ Len(p) + 2 + i \in 1..Len(c)
      BY <1>1, <1>5, <1>6, <1>7
    <3>2. c[Len(p) + 2 + i] = x[i]
      BY <3>1, <1>1, <1>7
    <3> QED BY <3>1, <3>2, <2>2 DEF NoNul
  <2> QED BY <2>1, <2>2 DEF NoNul
<1> QED BY <1>3, <1>8, <1>9, <1>10 DEF p, c

-----------------------------------------------------------------------------
(***************************************************************************)
(* What is delivered.                                                      *)
(***************************************************************************)

\* What is sent of a mail is taken as it was meant, if its body does not start
\* with a dot.
LEMMA SentIsMeant ==
  ASSUME NEW mail \in Mails, NEW b, b = Trimmed(mail.body)
  PROVE  Unescaped(Sent(mail)) = Meant(mail) <=> b = <<>> \/ b[1] # "dot"
<1> DEFINE g == Top(mail)
           x == g \o Escaped(b)
           u == Unescaped(x)
           v == g \o b
<1>1. "eol" \in Tokens /\ b \in Texts /\ b \in Seq(Tokens) /\ Len(b) \in Nat
  <2>1. "eol" \in Tokens /\ mail.body \in Seq(Tokens)
    BY RequestAssumption
  <2>2. b \in Seq(Tokens)
    BY <2>1, TrimmedType
  <2> QED BY <2>1, <2>2 DEF Texts
<1>2. /\ g \in Texts /\ g \in Seq(Tokens) /\ Len(g) \in Nat
      /\ Len(g) > 0 /\ g[Len(g)] = "eol" /\ Unescaped(g) = g
  BY TopIsTaken DEF Texts
<1>3. Sent(mail) = x \o <<"eol">> /\ Meant(mail) = v \o <<"eol">>
  BY DEF Sent, Meant, Top
<1> HIDE DEF g
<1>4. /\ u \in Texts
      /\ b = <<>> \/ b[1] # "dot" => u = v
      /\ b # <<>> /\ b[1] = "dot" => Len(u) = Len(g) + Len(b) - 1
  BY <1>1, <1>2, TakenFromEscaped
<1>5. x \in Seq(Tokens)
  BY <1>1, <1>2, EscapedType, Joined DEF Texts
<1>6. v \in Seq(Tokens) /\ Len(v) = Len(g) + Len(b)
  BY <1>1, <1>2, Joined
<1>7. Sent(mail) = Append(x, "eol") /\ Meant(mail) = Append(v, "eol")
  BY <1>1, <1>3, <1>5, <1>6, Appended
<1> HIDE DEF x, v
<1>8. Unescaped(Sent(mail)) = Append(u, "eol")
  BY <1>1, <1>5, <1>7, UnescapedLonger DEF Texts
<1> HIDE DEF u
<1>9. Append(u, "eol") = Append(v, "eol") => Len(u) = Len(v)
  <2>1. Len(Append(u, "eol")) = Len(u) + 1 /\ Len(Append(v, "eol")) = Len(v) + 1 /\ Len(u) \in Nat /\ Len(v) \in Nat
    BY <1>1, <1>4, <1>6, Appended DEF Texts
  <2> QED BY <2>1
<1>10. CASE b = <<>> \/ b[1] # "dot"
  BY <1>10, <1>4, <1>7, <1>8
<1>11. CASE b # <<>> /\ b[1] = "dot"
  <2>1. Len(u) # Len(v)
    BY <1>1, <1>2, <1>4, <1>6, <1>11
  <2> QED BY <2>1, <1>7, <1>8, <1>9, <1>11
<1> QED BY <1>10, <1>11

\* Of a whole mail the server takes all that follows the DATA line.
LEMMA WholeIsTaken ==
  ASSUME NEW mail \in Mails, ~Splits(mail), NEW c, c = Composed(mail),
         NEW f, f = Len(HeadOf(mail, Len(mail.to))), f \in Places(<<"eol", "data", "eol">>, c)
  PROVE  ServerTakes(DataOf(c, f)) = [mail |-> Unescaped(Sent(mail)), commands |-> <<>>, complete |-> TRUE]
<1> DEFINE z == Sent(mail)
           text == TextOf(c, f)
           marks == Places(Mark, text)
           m == Len(z) + 1
<1>1. /\ f > 0 /\ z \in Texts /\ c \in Texts /\ Len(c) = f + Len(z) + 4
      /\ \A i \in 1..Len(z) : c[f + 2 + i] = z[i]
  BY MailParts
<1>2. Len(z) \in Nat /\ z \in Seq(Tokens) /\ Len(c) \in Nat
  BY <1>1 DEF Texts
<1>3. Len(c) - 2 \in Places(Mark, c)
  <2>1. Len(c) > 5 /\ SubSeq(c, Len(c) - 2, Len(c)) = Mark
    BY ComposedEnds
  <2>2. Len(Mark) = 3
    BY DEF Mark
  <2>3. Len(c) - 2 \in 1..(Len(c) - Len(Mark) + 1) /\ (Len(c) - 2) + Len(Mark) - 1 = Len(c)
    BY <1>2, <2>1, <2>2
  <2> QED BY <2>1, <2>3 DEF Places
<1>4. \A j \in Places(Mark, c) : j = Len(c) - 2
  <2>1. Mark \in Texts
    BY RequestAssumption DEF Mark, Texts
  <2>2. ~(Cardinality(Places(Mark, c)) > 1)
    BY DEF Splits
  <2> QED BY <1>1, <1>3, <2>1, <2>2, PlacesAreFinite
<1>5. /\ f \in Nat /\ text \in Texts /\ Len(text) = Len(c) - f - 1
      /\ \A i \in 1..Len(text) : text[i] = c[f + 1 + i]
      /\ marks \in SUBSET Nat
      /\ \A i \in Nat : i \in marks <=> i >= 1 /\ f + 1 + i \in Places(Mark, c)
  <2>1. text = TextOf(c, f)
    OBVIOUS
  <2> HIDE DEF text
  <2>2. /\ f \in Nat /\ f >= 1 /\ text \in Texts /\ Len(text) = Len(c) - f - 1
        /\ \A i \in 1..Len(text) : text[i] = c[f + 1 + i]
        /\ Places(Mark, text) \in SUBSET Nat
        /\ \A i \in Nat : i \in Places(Mark, text) <=> i >= 1 /\ f + 1 + i \in Places(Mark, c)
    <3>1. c \in Texts /\ f \in Places(<<"eol", "data", "eol">>, c)
      BY <1>1
    <3> QED BY ONLY <2>1, <3>1, ServerGets
  <2> QED BY <2>2
<1>6. ServerTakes(DataOf(c, f)) =
        IF marks = {} THEN [mail |-> <<>>, commands |-> <<>>, complete |-> FALSE]
        ELSE [mail |-> Unescaped(SubSeq(text, 2, Min(marks))),
              commands |-> SubSeq(text, Min(marks) + 3, Len(text)), complete |-> TRUE]
  BY DEF ServerTakes, TextOf
<1>7. text \in Seq(Tokens) /\ Len(text) = Len(z) + 3
  BY <1>1, <1>2, <1>5 DEF Texts
<1> HIDE DEF z, text, marks
<1>8. m \in marks
  <2>1. m \in Nat /\ m >= 1 /\ f + 1 + m = Len(c) - 2
    BY <1>1, <1>2, <1>5
  <2> QED BY <2>1, <1>3, <1>5
<1>9. Min(marks) = m
  <2>1. PICK x \in marks : x = Min(marks)
    BY <1>5, <1>8, MinIsFirst
  <2>2. x \in Nat /\ f + 1 + x = Len(c) - 2
    BY <2>1, <1>4, <1>5
  <2>3. x = m
    BY <2>2, <1>1, <1>2, <1>5
  <2> QED BY <2>1, <2>3
<1>10. SubSeq(text, 2, m) = z
  <2> DEFINE t == SubSeq(text, 2, m)
  <2>1. t \in Seq(Tokens) /\ Len(t) = Len(z) /\ \A i \in 1..Len(z) : t[i] = text[i + 1]
    BY <1>2, <1>7
  <2>2. ASSUME NEW i \in 1..Len(z) PROVE text[i + 1] = z[i]
    <3>1. i + 1 \in 1..Len(text) /\ f + 1 + (i + 1) = f + 2 + i
      BY <1>2, <1>5, <1>7
    <3>2. text[i + 1] = c[f + 2 + i]
      BY <3>1, <1>5
    <3>3. c[f + 2 + i] = z[i]
      BY <1>1
    <3> QED BY <3>2, <3>3
  <2> HIDE DEF t
  <2>3. t = z
    BY <2>1, <2>2, <1>2
  <2> QED BY <2>3 DEF t
<1>11. SubSeq(text, m + 3, Len(text)) = <<>>
  BY <1>2, <1>7
<1> QED BY <1>6, <1>8, <1>9, <1>10, <1>11 DEF z

\* What sendMail and the server make of a mail in the buffer.
LEMMA TakenAsMeant ==
  ASSUME NEW mail \in Mails, ~Splits(mail), NEW buf \in Texts, NEW n \in Nat, n < Len(buf),
         NulsBehind(buf, n), SubSeq(buf, 1, n) = Composed(mail),
         NEW req, req = PrepareSendMail(CString(buf)), NEW b, b = Trimmed(mail.body)
  PROVE  ( /\ req.ok /\ req.from = mail.from /\ req.to = mail.to
           /\ ServerTakes(req.data) = [mail |-> Meant(mail), commands |-> <<>>, complete |-> TRUE] )
         <=> (mail.to # <<>> /\ "nul" \notin Range(b) /\ (b = <<>> \/ b[1] # "dot"))
<1> DEFINE c == Composed(mail)
           p == HeadOf(mail, Len(mail.to))
           f == Len(p)
           msg == CString(buf)
<1>1. /\ p \in Texts /\ f > 0 /\ c \in Texts /\ Len(c) = f + Len(Sent(mail)) + 4
      /\ (\A i \in 1..f : c[i] = p[i]) /\ c[f + 1] = "data" /\ c[f + 2] = "eol"
      /\ Sent(mail) \in Texts
  BY MailParts
<1>2. f \in Nat /\ Len(c) \in Nat /\ f + 2 < Len(c) /\ c \in Seq(Tokens)
  <2>1. f \in Nat /\ Len(Sent(mail)) \in Nat /\ c \in Seq(Tokens)
    BY <1>1 DEF Texts
  <2> HIDE DEF f, c
  <2> QED BY <2>1, <1>1
<1>3. (NoNul(c) <=> NoNul(b)) /\ \A i \in 1..(f + 2) : c[i] # "nul"
  BY NulsOfMail
<1>4. NoNul(b) <=> "nul" \notin Range(b)
  <2>1. b \in Seq(Tokens)
    <3>1. mail.body \in Seq(Tokens)
      BY RequestAssumption
    <3> QED BY <3>1, TrimmedType
  <2> QED BY <2>1 DEF NoNul, Range
<1>5. Len(c) = n
  <2>1. buf \in Seq(Tokens) /\ Len(buf) \in Nat
    BY DEF Texts
  <2>2. Len(SubSeq(buf, 1, n)) = n
    BY <2>1
  <2> QED BY <2>2
<1>6. c = SubSeq(buf, 1, n)
  OBVIOUS
<1> HIDE DEF c, p
<1>7. /\ NoNul(c) => msg = c
      /\ ~NoNul(c) => /\ msg \in Texts /\ Len(msg) \in (f + 2)..(n - 1)
                      /\ \A i \in 1..Len(msg) : msg[i] = c[i]
  <2>1. f + 2 \in 0..n
    BY <1>2, <1>5
  <2> HIDE DEF f
  <2>2. PICK k \in 0..n : k = f + 2
    BY <2>1
  <2>3. /\ buf \in Texts /\ n \in Nat /\ n < Len(buf) /\ NulsBehind(buf, n)
        /\ NoNulTo(c, k)
    BY <1>3, <2>2 DEF NoNulTo
  <2>4. /\ NoNul(c) => CString(buf) = c
        /\ ~NoNul(c) => /\ CString(buf) \in Texts /\ Len(CString(buf)) \in k..(n - 1)
                        /\ \A i \in 1..Len(CString(buf)) : CString(buf)[i] = c[i]
    BY ONLY <1>6, <2>3, k \in 0..n, StringOfText
  <2> QED BY <2>2, <2>4
<1>8. msg \in Texts /\ Len(msg) >= f + 2 /\ \A i \in 1..Len(msg) : msg[i] = c[i]
  BY <1>1, <1>2, <1>5, <1>7
<1>9. /\ \A i \in 1..f : msg[i] = p[i]
      /\ msg[f + 1] = "data" /\ msg[f + 2] = "eol"
  <2>1. Len(msg) \in Nat
    BY <1>8 DEF Texts
  <2>2. \A i \in 1..(f + 2) : msg[i] = c[i]
    BY <2>1, <1>2, <1>8
  <2> QED BY <2>2, <1>1, <1>2
<1> HIDE DEF msg
<1>10. /\ f \in Places(<<"eol", "data", "eol">>, msg)
       /\ mail.to = <<>> => PrepareSendMail(msg).ok = FALSE
       /\ mail.to # <<>> => PrepareSendMail(msg) =
            [ok |-> TRUE, from |-> mail.from, to |-> mail.to, data |-> DataOf(msg, f)]
  BY <1>8, <1>9, RequestIsTaken DEF p
<1>11. req = PrepareSendMail(msg)
  BY DEF msg
<1>12. CASE mail.to = <<>>
  BY <1>10, <1>11, <1>12
<1>13. CASE mail.to # <<>> /\ ~NoNul(c)
  <2>1. Len(msg) < Len(c)
    BY <1>2, <1>5, <1>7, <1>13
  <2>2. ServerTakes(DataOf(msg, f)).complete = FALSE
    BY <2>1, <1>8, <1>10, CutOffWaits DEF c
  <2>3. req.data = DataOf(msg, f)
    BY <1>10, <1>11, <1>13
  <2>4. ServerTakes(req.data) # [mail |-> Meant(mail), commands |-> <<>>, complete |-> TRUE]
    BY <2>2, <2>3
  <2> QED BY <2>4, <1>3, <1>4, <1>13
<1>14. CASE mail.to # <<>> /\ NoNul(c)
  <2>1. msg = c
    BY <1>7, <1>14
  <2>2. /\ req.ok /\ req.from = mail.from /\ req.to = mail.to /\ req.data = DataOf(c, f)
    BY <2>1, <1>10, <1>11, <1>14
  <2>3. f \in Places(<<"eol", "data", "eol">>, c)
    BY <2>1, <1>10
  <2>4. ServerTakes(DataOf(c, f)) = [mail |-> Unescaped(Sent(mail)), commands |-> <<>>, complete |-> TRUE]
    BY <2>3, WholeIsTaken DEF c, p
  <2>5. Unescaped(Sent(mail)) = Meant(mail) <=> b = <<>> \/ b[1] # "dot"
    BY SentIsMeant
  <2>6. ServerTakes(req.data) = [mail |-> Meant(mail), commands |-> <<>>, complete |-> TRUE]
          <=> Unescaped(Sent(mail)) = Meant(mail)
    <3> DEFINE r == ServerTakes(req.data)
               s == Unescaped(Sent(mail))
               t == Meant(mail)
    <3>1. r = [mail |-> s, commands |-> <<>>, complete |-> TRUE]
      BY <2>2, <2>4
    <3> HIDE DEF r, s, t
    <3>2. r = [mail |-> t, commands |-> <<>>, complete |-> TRUE] <=> s = t
      <4>1. r = [mail |-> t, commands |-> <<>>, complete |-> TRUE] => r.mail = t
        OBVIOUS
      <4> QED BY <3>1, <4>1
    <3> QED BY <3>2 DEF r, s, t
  <2> QED BY <2>2, <2>5, <2>6, <1>3, <1>4, <1>14
<1> QED BY <1>12, <1>13, <1>14

\* Of a mail in step that was handed over, and its answer waited for, the thread
\* had all.
LEMMA HandedIsWhole ==
  ASSUME IInv, NEW k \in 1..Len(handed), InStep(k), k \notin late, ~Splits(asked[k])
  PROVE  k \in 1..Len(asked) /\ Whole(k, k)
<1>0. PICK N \in Nat : N = Len(asked)
  BY LenProperties DEF IInv, Types
<1>1. Len(handed) \in Nat /\ k \in Nat \ {0}
  BY LenProperties DEF IInv, Types
<1>2. k <= N
  <2> SUFFICES ASSUME k > N PROVE FALSE
    BY <1>0, <1>1
  <2>1. InStep(N + 1)
    BY <1>0, <1>1 DEF InStep
  <2>2. Len(handed) > N
    BY <1>0, <1>1
  <2>3. CASE app # "waiting"
    <3>1. InStep(Len(asked) + 1)
      BY <1>0, <2>1
    <3>2. Len(handed) <= Len(asked)
      BY <2>3, <3>1 DEF IInv, Order, Quiet
    <3> QED BY <3>2, <2>2, <1>0, <1>1
  <2>4. CASE app = "waiting"
    <3>1. N > 0
      BY <1>0, <2>4 DEF IInv, Types
    <3>2. Told(N)
      BY <2>1, <3>1, <1>0, InStepNext
    <3>3. Len(handed) = N - 1 \/ Len(handed) = N \/ Len(handed) < N
      BY <1>0, <2>4, <3>2 DEF IInv, Order, Turn
    <3> QED BY <3>3, <2>2, <1>0, <1>1
  <2> QED BY <2>3, <2>4
<1>3. InStep(k + 1)
  BY <1>1, InStepNext DEF Told
<1>4. k <= Len(asked) /\ k \in 1..Len(asked)
  BY <1>0, <1>1, <1>2
<1> QED BY <1>3, <1>4 DEF IInv, Order, RequestsAreMails

\* Of mails in step every request is one mail, whole, and the server takes the text
\* that was meant from it, for all recipients: exactly if the mail has any, and its
\* body no NUL and no dot at its start.  However long the mails are, and however
\* TCP cuts them up.
THEOREM DeliveredAsMeantHolds == Spec => []DeliveredAsMeant
<1>1. IInv => DeliveredAsMeant
  <2> SUFFICES ASSUME IInv, NEW k \in 1..Len(handed), InStep(k), k \notin late, ~Splits(asked[k]),
                      NEW req, req = PrepareSendMail(CString(handed[k].buf)),
                      NEW body, body = Trimmed(asked[k].body)
               PROVE  ( /\ req.ok /\ req.from = asked[k].from /\ req.to = asked[k].to
                        /\ ServerTakes(req.data) = [mail |-> Meant(asked[k]), commands |-> <<>>, complete |-> TRUE] )
                      <=> (asked[k].to # <<>> /\ "nul" \notin Range(body) /\ (body = <<>> \/ body[1] # "dot"))
    BY DEF DeliveredAsMeant
  <2>1. k \in 1..Len(asked) /\ Whole(k, k)
    BY HandedIsWhole
  <2> DEFINE mail == asked[k]
             buf == handed[k].buf
             n == handed[k].len
  <2>2. mail \in Mails
    BY <2>1 DEF IInv, Types
  <2>3. buf \in Texts /\ n \in Nat
    <3> DEFINE R == [buf : Texts, len : Nat]
    <3>1. handed \in Seq(R)
      BY DEF IInv, Types
    <3> HIDE DEF R
    <3>2. handed[k] \in R
      BY <3>1
    <3> QED BY <3>2 DEF R
  <2>4. n < Len(buf) /\ NulsBehind(buf, n)
    BY DEF IInv, Buffers
  <2>5. SubSeq(buf, 1, n) = Composed(mail)
    BY <2>1 DEF Whole, Request
  <2>6. ~Splits(mail) /\ req = PrepareSendMail(CString(buf)) /\ body = Trimmed(mail.body)
    OBVIOUS
  <2> HIDE DEF mail, buf, n
  <2>7. ( /\ req.ok /\ req.from = mail.from /\ req.to = mail.to
          /\ ServerTakes(req.data) = [mail |-> Meant(mail), commands |-> <<>>, complete |-> TRUE] )
        <=> (mail.to # <<>> /\ "nul" \notin Range(body) /\ (body = <<>> \/ body[1] # "dot"))
    BY ONLY <2>2, <2>3, <2>4, <2>5, <2>6, TakenAsMeant
  <2> QED BY <2>7 DEF mail
<1> QED BY <1>1, Invariance, PTL
=============================================================================
