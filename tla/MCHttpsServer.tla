---------------------------- MODULE MCHttpsServer ----------------------------
(* Small instances of HttpsServer for TLC. *)
EXTENDS HttpsServer

MCWords == Methods \cup Resources \cup Versions

WithWords(words) == [words |-> words, text |-> TRUE]

\* Every request line of up to three words, and the empty text.
MCRequests ==
    {WithWords(words) :
        words \in {<<>>} \cup {<<m>> : m \in Methods}
                  \cup (Methods \X Resources)
                  \cup (Methods \X Resources \X Versions)}
    \cup {[words |-> <<>>, text |-> FALSE]}

\* One request per way through the handlers.
MCFewRequests ==
    {WithWords(<<"GET", "file", "HTTP/1.1">>),
     WithWords(<<"GET", "/", "HTTP/1.1">>),
     WithWords(<<"POST", "php", "HTTP/1.1">>),
     WithWords(<<"HEAD", "file", "HTTP/1.1">>)}
=============================================================================
