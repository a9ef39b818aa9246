------------------------ MODULE MCDocumentCompilation ------------------------
(***************************************************************************)
(* Instances of DocumentCompilation: r1 and r2 compile the paper, r3 the   *)
(* slides, and r4 is an ordinary request.  The paper has two pages, the    *)
(* first of them equal to the slide.                                       *)
(***************************************************************************)
EXTENDS DocumentCompilation, TLC

CONSTANTS paper, slides

MCRequest == {"r1", "r2", "r3", "r4"}
MCClass == [r \in MCRequest |-> IF r = "r4" THEN "ordinary" ELSE "compile"]
MCClient == [r \in MCRequest |-> IF r \in {"r1", "r4"} THEN "s1" ELSE "s2"]
MCSource == [r \in MCRequest |-> IF r = "r3" THEN slides ELSE paper]
MCOutputs == (paper :> {<<<<"A">>, <<"B">>>>}) @@ (slides :> {<<<<"A">>>>})
MCCost == [class \in {"ordinary", "compile"} |-> IF class = "compile" THEN 2 ELSE 1]
=============================================================================
