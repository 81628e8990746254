----------------------------- MODULE ScriptPage -----------------------------
(***************************************************************************)
(* How http.hpp turns the output of a script into the body of a response   *)
(* (http_connection::POST_response) and the helper replace of              *)
(* functions.hpp.                                                          *)
(*                                                                         *)
(* Text is a sequence of tokens.  The tokens told apart are the ones the   *)
(* code, or a browser reading the page, reacts to:                         *)
(*   "open"    the text "<!-- esketit systems " the code puts in front     *)
(*   "close"   the text "-->", put in front of the page by the code, and   *)
(*             written by a script that has a comment of its own           *)
(*   "html"    the text "<html>"                                           *)
(*   "text"    any other piece of output (php-cgi headers, markup, words)  *)
(* and the fixed bodies of the other responses, one token each.            *)
(***************************************************************************)
EXTENDS Naturals, SequencesExt

FixedBody == {"time", "content", "notice", "unsupported", "invalid method"}
ScriptToken == {"html", "text", "close"}
Token == FixedBody \cup ScriptToken \cup {"open"}

\* "Server is embedded - send correct full paths only."
Notice == <<"notice">>

\* replace(str, from, to): the first occurrence only; str is left as it is
\* when find returns npos.
ReplaceFirst(str, from, to) ==
    LET occurrences == {i \in DOMAIN str : str[i] = from}
        start_pos   == CHOOSE i \in occurrences : \A j \in occurrences : i <= j
    IN  IF occurrences = {}
          THEN str
          ELSE SubSeq(str, 1, start_pos - 1) \o to
                 \o SubSeq(str, start_pos + 1, Len(str))

\* tmp_output: the comment opener and the output, with the first <html>
\* preceded by the comment closer; then the test for an empty output.
ScriptBody(output) ==
    LET tmp_output == ReplaceFirst(<<"open">> \o output, "html", <<"close", "html">>)
    IN  IF tmp_output = <<>> THEN Notice ELSE tmp_output

-----------------------------------------------------------------------------
(***************************************************************************)
(* What a browser shows of a page: the tokens outside comments.  This is   *)
(* the reference the construction above is compared with.                  *)
(***************************************************************************)

\* The token at i is inside a comment: a comment was opened before i and no
\* closer stands between that opener and i.
Hidden(page, i) ==
    \E o \in 1 .. i - 1 :
        /\ page[o] = "open"
        /\ \A k \in o + 1 .. i : page[k] # "close"

\* Where the page has something that is shown.
Shown(page) ==
    {i \in DOMAIN page : page[i] \notin {"open", "close"} /\ ~ Hidden(page, i)}

\* The document in an output: everything from the first <html> on.
Document(output) ==
    LET starts == {i \in DOMAIN output : output[i] = "html"}
    IN  IF starts = {}
          THEN <<>>
          ELSE SubSeq(output, CHOOSE i \in starts : \A j \in starts : i <= j, Len(output))

\* What an output has before its document.
Header(output) == SubSeq(output, 1, Len(output) - Len(Document(output)))

\* The page ends with the document, shows each token of it that it would show
\* alone, and nothing else.
ShowsDocument(page, document) ==
    LET before == Len(page) - Len(document)
    IN  /\ Shown(page) = {before + i : i \in Shown(document)}
        /\ \A i \in Shown(document) : page[before + i] = document[i]
=============================================================================
