---------------------------- MODULE MailRequest ----------------------------
(***************************************************************************)
(* One connection between an application (src/php-scripts/Transport.php)   *)
(* and its client thread (handleClient in src/src/client.c): the mails the *)
(* application writes, the buffer the thread reads them into, however TCP  *)
(* cuts them up, the requests it hands to sendMail and the answers.        *)
(*                                                                         *)
(* The block gate, cancellation and the end of the thread are those of     *)
(* ClientThreads; what a request goes through is ConnPool and SmtpSession. *)
(***************************************************************************)
EXTENDS MailFormat

CONSTANTS
  Tokens,    \* what a text is made of
  Mails,     \* mails an application may send, [from, to, header, body]
  MaxMails,  \* bound on the mails written to one connection
  blksize    \* blksize

ASSUME RequestAssumption ==
  /\ MaxMails \in Nat /\ blksize \in Nat \ {0}
  /\ {"eol", "dot", "nul", "data"} \subseteq Tokens
  /\ \A mail \in Mails :
       /\ {mail.from, mail.header, mail.body} \subseteq Seq(Tokens)
       /\ mail.to \in Seq(Seq(Tokens))

\* Addresses are one line each, no recipient is called DATA, and no line of a
\* header starts with a dot.  Of the body nothing is assumed.
ASSUME MailsAssumption ==
  \A mail \in Mails :
    LET header == Trimmed(mail.header)
    IN  /\ \A line \in {mail.from} \cup Range(mail.to) : {"eol", "nul"} \cap Range(line) = {}
        /\ <<"data">> \notin Range(mail.to)
        /\ "nul" \notin Range(header)
        /\ \A i \in 1..Len(header) : header[i] = "dot" => i > 1 /\ header[i - 1] # "eol"

VARIABLES
  asked,   \* the mails written to the connection
  got,     \* got[k]: the number of the answer read for asked[k], 0 if there is none
  late,    \* the mails whose answer the application has not waited for to the end
  app,     \* "ready", "waiting" in fgets, "closed"
  wire,    \* what is written and not yet read
  back,    \* answers not yet read, by number
  thread,  \* "read" (and poll), "send", "ended"
  l,       \* locals of handleClient: buf, ptr (an offset), buflen, ptrlen, msglen
  handed   \* history: what was in the buffer when a request was handed over

appVars == <<asked, got, late, app>>
vars == <<appVars, wire, back, thread, l, handed>>

Zeros(n) == [i \in 1..n |-> "nul"]

\* calloc, and the variables that go with it.
FreshBuf == [buf |-> Zeros(blksize), ptr |-> 0, buflen |-> blksize,
             ptrlen |-> blksize, msglen |-> 0]

Init ==
  /\ asked = <<>> /\ got = <<>> /\ late = {}
  /\ app = "ready"
  /\ wire = <<>> /\ back = <<>>
  /\ thread = "read"
  /\ l = FreshBuf
  /\ handed = <<>>

-----------------------------------------------------------------------------
(***************************************************************************)
(* The application.                                                        *)
(***************************************************************************)

\* fwrite of a mail; to a connection that was dropped it may still succeed.
Write(mail) ==
  /\ app = "ready"
  /\ Len(asked) < MaxMails
  /\ asked' = Append(asked, mail)
  /\ got' = Append(got, 0)
  /\ wire' = wire \o Composed(mail)
  /\ app' = "waiting"
  /\ UNCHANGED <<late, back, thread, l, handed>>

\* fgets returns the next line, whichever mail it answers.
ReadAnswer ==
  /\ app = "waiting"
  /\ back # <<>>
  /\ got' = [got EXCEPT ![Len(got)] = Head(back)]
  /\ back' = Tail(back)
  /\ app' = "ready"
  /\ UNCHANGED <<asked, late, wire, thread, l, handed>>

\* fgets returns false: the proxy has closed the connection.
ReadNothing ==
  /\ app = "waiting"
  /\ back = <<>>
  /\ thread = "ended"
  /\ app' = "ready"
  /\ UNCHANGED <<asked, got, late, wire, back, thread, l, handed>>

\* stream_set_timeout(600): 'read response timed out'.  The connection stays.
TimeOut ==
  /\ app = "waiting"
  /\ back = <<>>
  /\ late' = late \cup {Len(asked)}
  /\ app' = "ready"
  /\ UNCHANGED <<asked, got, wire, back, thread, l, handed>>

\* The script ends.
Close ==
  /\ app = "ready"
  /\ app' = "closed"
  /\ UNCHANGED <<asked, got, late, wire, back, thread, l, handed>>

-----------------------------------------------------------------------------
(***************************************************************************)
(* handleClient.                                                           *)
(***************************************************************************)

\* read: piece is put where ptr points.
Filled(x, piece) ==
  [x EXCEPT !.buf = [i \in DOMAIN @ |->
                       IF i \in (x.ptr + 1)..(x.ptr + Len(piece)) THEN piece[i - x.ptr] ELSE @[i]],
            !.msglen = @ + Len(piece)]

\* Mutant of EndsMail: the mark is looked for in what was just read.
EndsMailInPiece(x, n) == n >= Len(Mark) /\ x.msglen > Len(Mark)
                         /\ SubSeq(x.buf, x.ptr + n - 2, x.ptr + n) = Mark

\* Mutant of EndsMail: a dot at the end of any line will do.
EndsMailAnyDot(x, n) == x.msglen > Len(Mark) /\ SubSeq(x.buf, x.ptr + n - 1, x.ptr + n) = Tail(Mark)

\* n bytes were read at ptr: do the last five end the mail?
EndsMail(x, n) == x.msglen > Len(Mark) /\ SubSeq(x.buf, x.ptr + n - 2, x.ptr + n) = Mark

\* Mutant of Terminated: sendMail gets the buffer as it is.
TerminatedNever(x) == x

\* A full buffer gets a byte for the NUL of strstr; buflen keeps its value.
Terminated(x) == IF x.buflen = x.msglen THEN [x EXCEPT !.buf = Append(@, "nul")] ELSE x

\* Mutant of Grown: calloc in the place of realloc.
GrownAnew(x, n) ==
  [x EXCEPT !.buf = Zeros(x.buflen + blksize), !.ptr = x.buflen, !.buflen = @ + blksize,
            !.ptrlen = blksize]

\* realloc by another block.
Grown(x, n) ==
  [x EXCEPT !.buf = @ \o Zeros(blksize), !.ptr = x.buflen, !.buflen = @ + blksize,
            !.ptrlen = blksize]

Continued(x, n) == [x EXCEPT !.ptr = @ + n, !.ptrlen = @ - n]

\* The test for a full buffer: its last byte is not NUL.
Full(x) == x.buf[x.buflen] # "nul"

\* poll and read return the next n bytes.
Read(n) ==
  LET x == Filled(l, SubSeq(wire, 1, n))
  IN  /\ thread = "read"
      /\ n \in 1..l.ptrlen /\ n <= Len(wire)
      /\ wire' = SubSeq(wire, n + 1, Len(wire))
      /\ thread' = IF EndsMail(x, n) THEN "send" ELSE "read"
      /\ l' = CASE EndsMail(x, n) -> Terminated(x)
                [] ~EndsMail(x, n) /\ Full(x) -> Grown(x, n)
                [] ~EndsMail(x, n) /\ ~Full(x) -> Continued(x, n)
      /\ UNCHANGED <<appVars, back, handed>>

\* read returns 0: the application has closed the connection, or there is no
\* room left, because the last byte of the buffer is a NUL of the mail.
ReadEnd ==
  /\ thread = "read"
  /\ \/ wire = <<>> /\ app = "closed"
     \/ wire # <<>> /\ l.ptrlen = 0
  /\ thread' = "ended"
  /\ UNCHANGED <<appVars, wire, back, l, handed>>

\* poll returns 0 after a day, or an error.
PollEnd ==
  /\ thread = "read"
  /\ wire = <<>>
  /\ thread' = "ended"
  /\ UNCHANGED <<appVars, wire, back, l, handed>>

\* sendMail of the buffer, the write of its answer, and a new buffer.  The write
\* may fail when the application has gone.
SendMail ==
  /\ thread = "send"
  /\ handed' = Append(handed, [buf |-> l.buf, len |-> l.msglen])
  /\ \/ back' = Append(back, Len(handed'))
        /\ thread' = "read"
     \/ app = "closed"
        /\ thread' = "ended"
        /\ UNCHANGED back
  /\ l' = FreshBuf
  /\ UNCHANGED <<appVars, wire>>

ThreadStep == (\E n \in 1..blksize : Read(n)) \/ ReadEnd \/ SendMail
AppStep == ReadAnswer \/ ReadNothing

Next ==
  \/ \E mail \in Mails : Write(mail)
  \/ AppStep \/ TimeOut \/ Close
  \/ ThreadStep \/ PollEnd
  \/ thread = "ended" /\ app = "closed" /\ UNCHANGED vars

Spec == Init /\ [][Next]_vars

\* The thread runs on and so does fgets; no timeout has to pass.
FairSpec == Spec /\ WF_vars(ThreadStep) /\ WF_vars(AppStep)

-----------------------------------------------------------------------------
(***************************************************************************)
(* Properties.                                                             *)
(***************************************************************************)

\* The lengths of the buffer agree: what the thread has of a mail is at its start,
\* and it knows how much room there is.
LengthsAgree == l.ptr = l.msglen /\ l.ptr + l.ptrlen = l.buflen /\ l.buflen = Len(l.buf)

\* A read finds no full buffer, which would look like a hangup, unless the mail
\* has a NUL byte at the end of a block; and strstr and strlen stay within the
\* buffer that sendMail gets: a NUL follows the mail.
BufferBounds ==
  /\ thread = "read" => LengthsAgree /\ (l.ptrlen = 0 => l.buf[l.buflen] = "nul")
  /\ thread = "send" => Len(l.buf) > l.msglen /\ \A i \in (l.msglen + 1)..Len(l.buf) : l.buf[i] = "nul"

\* However TCP cuts the mails up: what was handed over, what is in the buffer
\* and what is still to be read is what was written, in order.
NothingLost ==
  FlattenSeq([i \in 1..Len(handed) |-> SubSeq(handed[i].buf, 1, handed[i].len)]) \o SubSeq(l.buf, 1, l.msglen) \o wire
    = FlattenSeq([i \in 1..Len(asked) |-> Composed(asked[i])])

\* The body starts with a dot on a line of its own, or is one: what ends a mail
\* is in the middle of it.
Splits(mail) == Cardinality(Places(Mark, Composed(mail))) > 1

\* The mails before the k-th have not left anything behind.
InStep(k) == \A j \in 1..(k - 1) : j \notin late /\ ~Splits(asked[j])

\* Of mails in step every request is one mail, whole, and the server takes the
\* text that was meant from it, for all recipients: exactly if the mail has any,
\* and its body no NUL and no dot at its start (which Transport.php:26 escapes
\* at the start of all other lines).
DeliveredAsMeant ==
  \A k \in 1..Len(handed) :
    LET mail == asked[k]
        req  == PrepareSendMail(CString(handed[k].buf))
        body == Trimmed(mail.body)
    IN  InStep(k) /\ k \notin late /\ ~Splits(mail) =>
          ( /\ req.ok /\ req.from = mail.from /\ req.to = mail.to
            /\ ServerTakes(req.data) = [mail |-> Meant(mail), commands |-> <<>>, complete |-> TRUE] )
          <=> ( /\ mail.to # <<>>
                /\ "nul" \notin Range(body)
                /\ body = <<>> \/ body[1] # "dot" )

\* An application that waits for each answer gets the answer to its own mail, all
\* of it and nothing else, as long as no mail had what ends a mail in its middle.
\* One that goes on after a timeout gets the late answer (Transport.php:47 takes
\* the next line); a mail that splits, by a first line of one dot
\* (Transport.php:26), gets an answer for its first part, and all mails after it
\* the answers of the ones before.
AnswersMatch ==
  \A k \in 1..Len(got) :
    got[k] # 0 /\ InStep(k) /\ ~Splits(asked[k]) =>
      LET req == handed[got[k]]
      IN  SubSeq(req.buf, 1, req.len) = Composed(asked[k])

\* An application that waits gets an answer, or sees that the connection was
\* closed, without its timeout.
WaitEnds == app = "waiting" ~> app # "waiting"

=============================================================================
