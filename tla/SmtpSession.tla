---------------------------- MODULE SmtpSession ----------------------------
(***************************************************************************)
(* The SMTP dialogue on one connection: newConn, tpSendMail and connNOOP   *)
(* of src/src/transport.c over smtpWrite and smtpExpect of src/src/smtp.c, *)
(* against a server that answers every command in order, as RFC 5321 lets  *)
(* it: late, with an error, in one piece or in two, or by hanging up.      *)
(*                                                                         *)
(* smtpExpect reads once: what has arrived by then (one record with TLS),  *)
(* as far as 1023 bytes, is the reply, and its last line decides.  The     *)
(* rest stays in the socket.                                               *)
(***************************************************************************)
EXTENDS Integers, Sequences

CONSTANTS
  Rcpts,     \* number of recipients of every mail
  MaxMails,  \* bound on the mails handed to the connection
  MaxNoops,  \* bound on the NOOPs between them
  Ssls,      \* values of tp->ssl, with "plain" for the empty string
  Splits     \* {TRUE}: replies may arrive in two pieces; {FALSE}: in one

ASSUME SessionAssumption ==
  /\ Rcpts \in Nat \ {0}
  /\ MaxMails \in Nat \ {0}
  /\ MaxNoops \in Nat
  /\ Ssls \subseteq {"plain", "SSL", "TLS"}
  /\ Splits \subseteq BOOLEAN

VARIABLES
  ssl,      \* tp->ssl
  split,    \* the network may cut a reply in two
  step,     \* the command of the dialogue the proxy is at
  rcpt,     \* the recipient smtpRCPTTO is at
  phase,    \* "write" before smtpWrite of the step, "expect" after it
  mail,     \* number of the mail in hand, or of the last one
  noops,    \* NOOPs so far
  ret,      \* ret[m]: what tpSendMail returned for mail m, or "none"
  told,     \* told[m]: the code of the answer to the application, or "none"
  sent,     \* commands on their way to the server
  arrived,  \* pieces of replies in the socket, not read yet
  coming,   \* pieces of replies on their way to the proxy
  from,     \* TRUE once the server took the MAIL command of the mail in hand
  granted,  \* recipients of the mail in hand that the server took
  taken,    \* ghost: taken[m]: the recipients the server took mail m for
  open      \* FALSE once the server has hung up

settings   == <<ssl, split>>
proxyVars  == <<step, rcpt, phase, mail, noops, ret, told>>
serverVars == <<from, granted, taken>>
vars == <<settings, proxyVars, sent, arrived, coming, serverVars, open>>

Mails == 1..MaxMails

\* Commands of newConn, of tpSendMail and of connNOOP; the greeting has none.
SetUp    == {"GREET", "TLSEHLO", "STARTTLS", "EHLO", "AUTH", "USER", "PASS"}
Dialogue == {"RSET", "MAIL", "RCPT", "DATA", "BODY"}
Commands == SetUp \cup Dialogue \cup {"NOOP"}

Init ==
  /\ ssl \in Ssls /\ split \in Splits
  /\ step = "GREET" /\ phase = "expect"
  /\ rcpt = 1
  /\ mail = 1
  /\ noops = 0
  /\ ret = [m \in Mails |-> "none"]
  /\ told = [m \in Mails |-> "none"]
  /\ sent = <<[cmd |-> "GREET", rcpt |-> 1, mail |-> 1]>>
  /\ arrived = <<>> /\ coming = <<>>
  /\ from = FALSE /\ granted = {}
  /\ taken = [m \in Mails |-> {}]
  /\ open = TRUE

-----------------------------------------------------------------------------
(***************************************************************************)
(* The server.  A reply is one line of its code, or, if split, also the    *)
(* first line of several and the rest of them, or a line that has not yet  *)
(* arrived to its end and the rest of it.  Its codes: "error" is any 4xx   *)
(* or 5xx, the others are those of RFC 5321.                               *)
(***************************************************************************)

Pieces(code) ==
  {<<[code |-> code, ends |-> TRUE]>>} \cup
  (IF split THEN {<<[code |-> code, ends |-> e], [code |-> code, ends |-> TRUE]>> : e \in BOOLEAN}
   ELSE {})

\* What a server answers to a command, which it may always refuse.
Answers(cmd) ==
  CASE cmd \in {"GREET", "STARTTLS"} -> {"220", "error"}
    [] cmd \in {"AUTH", "USER"} -> {"334", "error"}
    [] cmd = "PASS" -> {"235", "error"}
    [] cmd = "RCPT" -> IF from THEN {"250", "251", "error"} ELSE {"error"}
    [] cmd = "DATA" -> IF granted = {} THEN {"error"} ELSE {"354", "error"}
    [] OTHER -> {"250", "error"}

\* The server takes the next command and answers it.
Serve ==
  /\ open
  /\ sent # <<>>
  /\ \E code \in Answers(Head(sent).cmd) :
       /\ \E ps \in Pieces(code) : coming' = coming \o ps
       /\ from' = IF Head(sent).cmd \in {"RSET", "MAIL"}
                    THEN Head(sent).cmd = "MAIL" /\ code = "250" ELSE from
       /\ granted' = CASE Head(sent).cmd \in {"RSET", "MAIL"} -> {}
                       [] Head(sent).cmd = "RCPT" /\ code # "error" -> granted \cup {Head(sent).rcpt}
                       [] OTHER -> granted
       /\ taken' = IF Head(sent).cmd = "BODY" /\ code = "250"
                     THEN [taken EXCEPT ![Head(sent).mail] = granted] ELSE taken
  /\ sent' = Tail(sent)
  /\ UNCHANGED <<settings, proxyVars, arrived, open>>

\* The network hands on the next piece.
Arrive ==
  /\ coming # <<>>
  /\ arrived' = Append(arrived, Head(coming))
  /\ coming' = Tail(coming)
  /\ UNCHANGED <<settings, proxyVars, sent, serverVars, open>>

\* The server closes its side, whatever it has not answered by then.
HangUp ==
  /\ open
  /\ open' = FALSE
  /\ UNCHANGED <<settings, proxyVars, sent, arrived, coming, serverVars>>

-----------------------------------------------------------------------------
(***************************************************************************)
(* The proxy.                                                              *)
(***************************************************************************)

\* The mail in hand, if any, is answered; r is tpSendMail's result.
Answer(r, code) ==
  /\ ret' = [ret EXCEPT ![mail] = r]
  /\ told' = [told EXCEPT ![mail] = code]

\* A step of the dialogue failed: newConn returns NULL or tpSendMail returns 0,
\* err has the last line read or "500 ..."; the connection is closed.
Fail(code) ==
  /\ IF step = "NOOP" THEN UNCHANGED <<ret, told>> ELSE Answer("0", code)
  /\ step' = "closed"
  /\ UNCHANGED <<rcpt, phase, mail, noops>>

\* smtpWrite: the command is sent as a whole, or not, or the send fails.
SmtpWrite ==
  /\ phase = "write"
  /\ step \in Commands
  /\ \/ /\ sent' = Append(sent, [cmd |-> step, rcpt |-> rcpt, mail |-> mail])
        /\ phase' = "expect"
        /\ UNCHANGED <<step, rcpt, mail, noops, ret, told>>
     \/ /\ Fail("error")
        /\ UNCHANGED sent
  /\ UNCHANGED <<settings, arrived, coming, serverVars, open>>

\* The code smtpExpect is called with.
Expected ==
  CASE step \in {"GREET", "STARTTLS"} -> "220"
    [] step \in {"AUTH", "USER"} -> "334"
    [] step = "PASS" -> "235"
    [] step = "DATA" -> "354"
    [] OTHER -> "250"

\* Mutant of Accepts: any reply that is not an error will do.
AcceptsPositive(code) == code # "error"

\* Mutant of Accepts: any reply of smtpRCPTTO lets the dialogue go on.
AcceptsAnyRcpt(code) == code = Expected \/ step = "RCPT"

\* The replies a step goes on with.
Accepts(code) ==
  \/ code = Expected
  \/ step = "RCPT" /\ code = "251"
  \/ step = "RSET" /\ code = "220"

\* The step after one that succeeded, in the order of smtpEHLO and smtpAuth,
\* then of tpSendMail.  The first EHLO and STARTTLS are for TLS; SSL_connect
\* takes what is left of a reply for a broken handshake.  smtpAuth is left out for
\* the password that says so.
Advance ==
  /\ phase' = "write"
  /\ \/ step = "GREET" /\ step' = (IF ssl = "TLS" THEN "TLSEHLO" ELSE "EHLO") /\ UNCHANGED rcpt
     \/ step = "TLSEHLO" /\ step' = "STARTTLS" /\ UNCHANGED rcpt
     \/ step = "STARTTLS" /\ coming \o arrived' = <<>> /\ step' = "EHLO" /\ UNCHANGED rcpt
     \/ step = "EHLO" /\ step' \in {"AUTH", "MAIL"} /\ UNCHANGED rcpt
     \/ step = "AUTH" /\ step' = "USER" /\ UNCHANGED rcpt
     \/ step = "USER" /\ step' = "PASS" /\ UNCHANGED rcpt
     \/ step \in {"PASS", "RSET"} /\ step' = "MAIL" /\ UNCHANGED rcpt
     \/ step = "MAIL" /\ step' = "RCPT" /\ rcpt' = 1
     \/ step = "RCPT" /\ rcpt < Rcpts /\ rcpt' = rcpt + 1 /\ UNCHANGED step
     \/ step = "RCPT" /\ rcpt = Rcpts /\ step' = "DATA" /\ UNCHANGED rcpt
     \/ step = "DATA" /\ step' = "BODY" /\ UNCHANGED rcpt
  /\ UNCHANGED <<mail, noops, ret, told>>

\* The last step of a mail or a NOOP: the connection is idle, or it has sent
\* its last mail and is closed.
Finish(code) ==
  /\ IF step = "BODY" THEN Answer("1", code) ELSE UNCHANGED <<ret, told>>
  /\ step' \in {"idle", "closed"}
  /\ UNCHANGED <<rcpt, phase, mail, noops>>

\* Mutant of Encrypted: after STARTTLS one read takes several records.
EncryptedSSLOnly == ssl = "SSL"

\* conn->ssl is set: a piece is a TLS record.
Encrypted ==
  \/ ssl = "SSL"
  \/ ssl = "TLS" /\ step \notin {"GREET", "TLSEHLO", "STARTTLS"}

\* smtpExpect, when poll finds input: one recv of all that has arrived, or one
\* SSL_read of a record.
SmtpExpect ==
  LET n    == IF Encrypted THEN 1 ELSE Len(arrived)
      last == arrived[n]
  IN  /\ phase = "expect"
      /\ step \in Commands
      /\ arrived # <<>>
      /\ arrived' = SubSeq(arrived, n + 1, Len(arrived))
      /\ \/ last.ends /\ Accepts(last.code) /\ step \in {"BODY", "NOOP"} /\ Finish(last.code)
         \/ last.ends /\ Accepts(last.code) /\ step \notin {"BODY", "NOOP"} /\ Advance
         \/ last.ends /\ Accepts(last.code) /\ step = "STARTTLS" /\ Fail("error")
         \/ last.ends /\ ~Accepts(last.code) /\ Fail(last.code)
         \/ ~last.ends /\ Fail("error")
      /\ UNCHANGED <<settings, sent, coming, serverVars, open>>

\* Mutant of SmtpNoReply: no timeout.
SmtpNoReplyOnlyClosed ==
  /\ phase = "expect"
  /\ step \in Commands
  /\ arrived = <<>>
  /\ ~open
  /\ Fail("error")
  /\ UNCHANGED <<settings, sent, arrived, coming, serverVars, open>>

\* Mutant of SmtpNoReply: a NOOP without an answer does not end the connection.
SmtpNoReplyToNoop ==
  /\ phase = "expect"
  /\ step \in Commands
  /\ arrived = <<>>
  /\ IF step = "NOOP"
       THEN step' = "idle" /\ UNCHANGED <<rcpt, phase, mail, noops, ret, told>>
       ELSE Fail("error")
  /\ UNCHANGED <<settings, sent, arrived, coming, serverVars, open>>

\* smtpExpect, when it finds none: recv returns 0 or an error, or the poll is
\* over; the longest is 600 s.
SmtpNoReply ==
  /\ phase = "expect"
  /\ step \in Commands
  /\ arrived = <<>>
  /\ Fail("error")
  /\ UNCHANGED <<settings, sent, arrived, coming, serverVars, open>>

\* tpSendMail on a connection from idleConns.
NextMail ==
  /\ step = "idle"
  /\ mail < MaxMails
  /\ mail' = mail + 1
  /\ step' = "RSET" /\ phase' = "write"
  /\ UNCHANGED <<settings, rcpt, noops, ret, told, sent, arrived, coming, serverVars, open>>

\* connNOOP.
Noop ==
  /\ step = "idle"
  /\ noops < MaxNoops
  /\ noops' = noops + 1
  /\ step' = "NOOP" /\ phase' = "write"
  /\ UNCHANGED <<settings, rcpt, mail, ret, told, sent, arrived, coming, serverVars, open>>

\* The connection is closed, or its mails and NOOPs are used up.
Over ==
  /\ step \in {"idle", "closed"}
  /\ UNCHANGED vars

-----------------------------------------------------------------------------
ProxyStep == SmtpWrite \/ SmtpExpect \/ SmtpNoReply

Next == Serve \/ Arrive \/ HangUp \/ ProxyStep \/ NextMail \/ Noop \/ Over

Spec == Init /\ [][Next]_vars

\* poll has a timeout and send is taken to return: the proxy never waits for
\* good.  The server owes nothing.
FairSpec == Spec /\ WF_vars(ProxyStep)

-----------------------------------------------------------------------------
(***************************************************************************)
(* Properties.                                                             *)
(***************************************************************************)

\* What an application takes for success (Transport.php:56).
Success(m) == told[m] = "250"

\* A mail that tpSendMail reports as sent was taken by the server, whichever
\* way the replies are cut into pieces and run into one another.
SentIsTaken == \A m \in Mails : ret[m] = "1" => taken[m] # {}

\* Replies in one piece are read before the next command is written: nothing is
\* left in the socket for the next mail or NOOP on the connection.
NothingLeftUnread ==
  ~split /\ (step = "idle" \/ (step \in Commands /\ phase = "write")) =>
    sent = <<>> /\ coming = <<>> /\ arrived = <<>>

\* The dialogue of a mail comes to an end, with an answer to the application.
MailEnds == \A m \in Mails : mail = m ~> told[m] # "none"

\* Replies in one piece: what the application takes for success (README.md:19)
\* means that the server took the mail, for every recipient.
SuccessIsTrue == ~split => \A m \in Mails : Success(m) => taken[m] = 1..Rcpts

\* A mail reported as sent, though the server refused one of its recipients.
RejectionLost == \E m \in Mails : ret[m] = "1" /\ taken[m] # 1..Rcpts

\* With SSL or TLS one read is one record and replies never run together: a
\* refused recipient fails the mail, also when replies come in two records.
RecordsKeepRejections == ssl # "plain" => ~RejectionLost

\* README.md:17 the error of the server for a recipient that does not exist is
\* handed back, not lost in a mail that counts as sent.
RejectionIsReported == ~RejectionLost

=============================================================================
