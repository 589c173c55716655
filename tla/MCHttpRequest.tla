----------------------------- MODULE MCHttpRequest ----------------------------
(***************************************************************************)
(* Instances of HttpRequest for TLC.  A span in a span is the deepest      *)
(* nesting the tree's rules tell apart; two attempts are one retry.        *)
(***************************************************************************)
EXTENDS HttpRequest

\* Production writes INFO; development writes DEBUG too.
MCEnabled == {{"INFO"}, {"DEBUG", "INFO"}}
=============================================================================
