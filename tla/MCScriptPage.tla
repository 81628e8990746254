---------------------------- MODULE MCScriptPage ----------------------------
(* All the outputs a script can write, up to a length, for TLC. *)
EXTENDS ScriptPage

CONSTANT MaxLen

VARIABLE output

Init == output = <<>>

Next ==
    /\ Len(output) < MaxLen
    /\ \E t \in ScriptToken : output' = Append(output, t)

Spec == Init /\ [][Next]_output
-----------------------------------------------------------------------------
(***************************************************************************)
(* "a patch is to remove the header from the body", "add <!-- to hide      *)
(* php-cgi output if any" (http.hpp): of an output whose header holds no   *)
(* end of a comment, a browser shows the document, all of it and nothing   *)
(* else, whatever else the document holds; of an output without a          *)
(* document, nothing.                                                      *)
(***************************************************************************)
DocumentShown ==
    (\A i \in DOMAIN Header(output) : Header(output)[i] # "close")
        => ShowsDocument(ScriptBody(output), Document(output))

(***************************************************************************)
(* "check if there was an output if not" (http.hpp): a script without      *)
(* output is answered with the notice.                                     *)
(***************************************************************************)
EmptyOutputReported == output = <<>> => ScriptBody(output) = Notice
=============================================================================
