---------------------------- MODULE MCExtraction ------------------------------
(***************************************************************************)
(* Instances of Extraction: a sample file that is deleted before the       *)
(* script and one deleted after it; a shared file with two cuts of which   *)
(* the second runs to the end, one with a cut inside, and the context,     *)
(* with a sentence on the vertical and one that names a file of it.        *)
(***************************************************************************)
EXTENDS Extraction

MCSamples == <<"project/service", "tests/service">>
MCDeletes == <<"docs/mutations", "project/service", "scripts/extract", "tests/service">>
MCShipped == [f \in Shared |->
  IF f = "registration" THEN <<"kernel", "import", "kernel", "build", "return">>
  ELSE IF f = "ports" THEN <<"kernel", "port", "end", "kernel", "end">>
  ELSE <<"about", "see old">>]
MCPointed == [line \in {"see old", "my old"} |-> IF line = "see old" THEN "see new" ELSE "my new"]
MCCut(f, a, z, put) == [file |-> f, first |-> a, last |-> z, put |-> put]
MCCuts == <<MCCut("registration", "import", "import", <<>>),
            MCCut("registration", "build", None, <<"pointer">>),
            MCCut("ports", "port", "end", <<>>)>>
=============================================================================
