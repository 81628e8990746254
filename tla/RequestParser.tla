---------------------------- MODULE RequestParser ----------------------------
(***************************************************************************)
(* HttpRequestParser::GetHttpRequest of https.hpp.                         *)
(*                                                                         *)
(* The code reads one buffer: the request line and whatever followed it in *)
(* the reads that brought its end.  A request is                           *)
(*   words   its first words: method, resource, version, as far as they go *)
(*   text    FALSE if the text up to the first NUL is empty                *)
(***************************************************************************)
EXTENDS Naturals, Sequences

\* A word is any string; these are the ones that are told apart, and one more.
Methods   == {"GET", "POST", "HEAD"}
Resources == {"/", "php", "py", "cgi", "file"}
Versions  == {"HTTP/1.1", "HTTP/1.0"}

\* A string that nothing was read into.
Empty == ""

\* Three words from the front, in this order; the missing ones are Empty.
Word(q, i) == IF i <= Len(q.words) THEN q.words[i] ELSE Empty

\* Mutants of GetHttpRequest: the version is tested only if there is one; a
\* method that is not known gets 501.
GetHttpRequestAnyVersion(q) ==
    [method   |-> Word(q, 1),
     resource |-> Word(q, 2),
     status   |-> IF Word(q, 3) \notin {Empty, "HTTP/1.1"} THEN 505
                  ELSE IF Word(q, 1) \notin {"GET", "POST"} THEN 400
                  ELSE 0]

GetHttpRequest501(q) ==
    [method   |-> Word(q, 1),
     resource |-> Word(q, 2),
     status   |-> IF Word(q, 3) # "HTTP/1.1" THEN 505
                  ELSE IF Word(q, 1) \notin {"GET", "POST"} THEN 501
                  ELSE 0]

\* The status is that of the last test that failed.
GetHttpRequest(q) ==
    [method   |-> Word(q, 1),
     resource |-> Word(q, 2),
     status   |-> IF Word(q, 3) # "HTTP/1.1" THEN 505
                  ELSE IF Word(q, 1) \notin {"GET", "POST"} THEN 400
                  ELSE 0]

\* boost::contains ".php", ".cgi", ".py" or ".pl".
IsScript(resource) == resource \in {"php", "py", "cgi"}
=============================================================================
