---------------------------- MODULE MailFormat ----------------------------
(***************************************************************************)
(* How a mail is written for the proxy (src/php-scripts/Transport.php),    *)
(* how the proxy takes it apart (prepareSendMail in src/src/client.c, the  *)
(* recipients in src/src/rcpt.c) and what an SMTP server makes of it.      *)
(*                                                                         *)
(* Text is a sequence of tokens: "eol" is \r\n (or \n, which Transport.php *)
(* turns into it), "dot" a dot, "nul" a NUL byte, "data" the word DATA,    *)
(* any other token a piece of text.                                        *)
(***************************************************************************)
EXTENDS Integers, Sequences, SequencesExt

\* What ends a mail.
Mark == <<"eol", "dot", "eol">>

\* Where the word w is found in s.
Places(w, s) == {i \in 1..(Len(s) - Len(w) + 1) : SubSeq(s, i, i + Len(w) - 1) = w}

\* s as a C string: up to the first NUL.
CString(s) ==
  LET i == SelectInSeq(s, LAMBDA t : t = "nul")
  IN  IF i = 0 THEN s ELSE SubSeq(s, 1, i - 1)

-----------------------------------------------------------------------------
(***************************************************************************)
(* Transport.php.                                                          *)
(***************************************************************************)

\* trim.
Trimmed(s) ==
  LET text == {i \in 1..Len(s) : s[i] \notin {"eol", "nul"}}
  IN  IF text = {} THEN <<>> ELSE SubSeq(s, Min(text), Max(text))

\* str_replace("\n.", "\n..").
Escaped(s) ==
  FlattenSeq([i \in 1..Len(s) |->
    IF i > 1 /\ s[i] = "dot" /\ s[i - 1] = "eol" THEN <<"dot", "dot">> ELSE <<s[i]>>])

\* sendRawMail: the lines of $msg, imploded.
Composed(mail) ==
  mail.from \o <<"eol">>
  \o FlattenSeq([i \in 1..Len(mail.to) |-> mail.to[i] \o <<"eol">>])
  \o <<"data", "eol">>
  \o Trimmed(mail.header) \o <<"eol", "eol">>
  \o Escaped(Trimmed(mail.body)) \o Mark

-----------------------------------------------------------------------------
(***************************************************************************)
(* client.c and rcpt.c.                                                    *)
(***************************************************************************)

\* The pieces of s between the ends of lines: each newTo adds one to toList.
Lines(s) ==
  LET ends == FlattenSeq([i \in 1..Len(s) |-> IF s[i] = "eol" THEN <<i>> ELSE <<>>])
      at   == <<0>> \o ends \o <<Len(s) + 1>>
  IN  [k \in 1..(Len(ends) + 1) |-> SubSeq(s, at[k] + 1, at[k + 1] - 1)]

\* Mutant of PrepareSendMail: the data starts one line late.
PrepareSendMailSkipsHeader(msg) ==
  LET found == Places(<<"eol", "data", "eol">>, msg)
      head  == Lines(SubSeq(msg, 1, Min(found) - 1))
  IN  IF found = {} \/ Len(head) < 2
        THEN [ok |-> FALSE, from |-> <<>>, to |-> <<>>, data |-> <<>>]
        ELSE [ok |-> TRUE, from |-> head[1], to |-> Tail(head),
              data |-> SubSeq(msg, Min(found) + 5, Len(msg))]

\* The first "\r\nDATA\r\n" ends the sender and the recipients; without it, or
\* without a second line before it, the mail is refused.
PrepareSendMail(msg) ==
  LET found == Places(<<"eol", "data", "eol">>, msg)
      head  == Lines(SubSeq(msg, 1, Min(found) - 1))
  IN  IF found = {} \/ Len(head) < 2
        THEN [ok |-> FALSE, from |-> <<>>, to |-> <<>>, data |-> <<>>]
        ELSE [ok |-> TRUE, from |-> head[1], to |-> Tail(head),
              data |-> SubSeq(msg, Min(found) + 3, Len(msg))]

-----------------------------------------------------------------------------
(***************************************************************************)
(* The SMTP server (RFC 5321, 4.5.2).                                      *)
(***************************************************************************)

\* A dot at the start of a line is dropped.
Unescaped(s) ==
  FlattenSeq([i \in 1..Len(s) |->
    IF s[i] = "dot" /\ (i = 1 \/ s[i - 1] = "eol") THEN <<>> ELSE <<s[i]>>])

\* Of what follows DATA, the mail, and what the server takes for commands.
\* Without an end mark it waits for more.
ServerTakes(data) ==
  LET text  == <<"eol">> \o data
      marks == Places(Mark, text)
  IN  IF marks = {} THEN [mail |-> <<>>, commands |-> <<>>, complete |-> FALSE]
      ELSE [mail |-> Unescaped(SubSeq(text, 2, Min(marks))),
            commands |-> SubSeq(text, Min(marks) + 3, Len(text)), complete |-> TRUE]

\* The text the application wants its recipients to have.
Meant(mail) == Trimmed(mail.header) \o <<"eol", "eol">> \o Trimmed(mail.body) \o <<"eol">>

=============================================================================
