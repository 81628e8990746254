---------------------------- MODULE MCHttpServer ----------------------------
(* Small instances of HttpServer for TLC. *)
EXTENDS HttpServer, TLC

Get(t)  == [method |-> "get", target |-> t]
Post(t) == [method |-> "post", target |-> t]

\* One request for each way through process_request.
MCRequests ==
    {Get("/time"), Get("php"), Get("py"), Get("file"),
     Post("php"), Post("py"), Post("file"),
     [method |-> "other", target |-> "php"]}

\* A request answered at once, one that needs cgi.sh, one that needs another
\* interpreter: enough for the life cycle of connections.
MCFewRequests == {Get("/time"), Post("php"), Post("py")}

\* No output, a page with php-cgi headers, output that is not a page.
MCOutputs == {<<>>, <<"text", "html", "text">>, <<"text">>}
MCOneOutput == {<<"html">>}

MCSymmetry == Permutations(Conns)
=============================================================================
