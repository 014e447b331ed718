--------------------------- MODULE MCMailRequest ---------------------------
(* Mails of one or two recipients or none, with short bodies, for TLC. *)
EXTENDS MailRequest

MCTokens == {"eol", "dot", "nul", "data", "a", "f", "h", "r", "s"}

\* Dots at the start of the body, of a line and elsewhere, NUL bytes inside and
\* at the ends, the last one at the end of a block, and the word DATA.
Bodies ==
  {<<>>, <<"a">>, <<"dot">>, <<"dot", "a">>, <<"a", "dot">>, <<"nul", "a", "eol">>,
   <<"a", "eol", "dot">>, <<"a", "dot", "eol", "a">>, <<"dot", "eol", "a">>,
   <<"a", "eol", "dot", "eol", "a">>, <<"a", "eol", "data", "eol", "a">>,
   <<"eol", "dot", "dot", "eol", "dot", "a">>, <<"a", "nul", "a">>, <<"a", "a", "nul", "a">>}

MCMails ==
  {[from |-> <<"f">>, to |-> <<<<"r">>>>, header |-> <<"h">>, body |-> b] : b \in Bodies}
  \cup {[from |-> <<"f">>, to |-> to, header |-> <<"h", "eol", "h", "eol">>, body |-> <<"a">>] :
         to \in {<<>>, <<<<"r">>, <<"s">>>>}}

=============================================================================
