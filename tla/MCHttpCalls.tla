------------------------------- MODULE MCHttpCalls -------------------------------
(* HttpCalls for TLC.                                                      *)
EXTENDS HttpCalls

\* An upload of a form, a buffer of two pieces and the end of the form.
MCParts == <<1, 3, 1>>
\* Empty answers, and answers of two units, sent as one chunk or as two.
MCChunks == {<<>>, <<2>>, <<1, 1>>}
=============================================================================
