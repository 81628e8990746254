------------------------ MODULE MCHttpsServerOriginal ------------------------
(* Small instances of HttpsServerOriginal for TLC. *)
EXTENDS HttpsServerOriginal

MCWords ==
    Known \cup {"OTHER"} \cup Resources \cup {"index"} \cup Versions

WithWords(words) == [words |-> words, text |-> TRUE]

\* Every handler with every kind of path, a method without a handler, a method
\* the parser does not know, a wrong version and the empty text.
MCRequests ==
    {WithWords(<<m, r, "HTTP/1.1">>) :
        m \in Handled, r \in {"/", "index", "file", "php", "py"}}
    \cup {WithWords(<<"PUT", "file", "HTTP/1.1">>),
          WithWords(<<"OTHER", "file", "HTTP/1.1">>),
          WithWords(<<"DELETE", "file", "HTTP/1.0">>),
          [words |-> <<>>, text |-> FALSE]}

\* HEAD, and what it is compared with.
MCHeadRequests ==
    {WithWords(<<m, "file", "HTTP/1.1">>) : m \in {"HEAD", "GET", "OPTIONS"}}
=============================================================================
