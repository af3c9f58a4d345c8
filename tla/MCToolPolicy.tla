---------------------------- MODULE MCToolPolicy ----------------------------
(***************************************************************************)
(* ToolPolicy for TLC: every policy over the names with one plain schema,  *)
(* and one policy with every schema of at most two keywords a node.        *)
(***************************************************************************)
EXTENDS ToolPolicy

Policies == [hide : SUBSET Names, to : [Names -> Names \cup {None}]]
NoPolicy == [hide |-> {}, to |-> [t \in Names |-> None]]

Keywords == {"type", "title", "dependencies", "tuple", "contains", "minContains", "unevaluated",
             "misshapen", "id", "idfrag", "anchor", "ref"}
Nodes == {kw \in SUBSET Keywords : Cardinality(kw) <= 2}
Targets == {"defs", "default", "elsewhere"}
Places == {"properties", "items", "anyOf", "contentSchema", "defs", "default", "dependencies",
           "additionalItems"}

\* A node without a $ref has its target fixed.
Schemas ==
    {s \in [dialect : {"draft-07"}, root : Nodes, rootRef : Targets, at : Places, deep : {FALSE},
            below : Nodes, belowRef : Targets] :
        /\ "ref" \in s.root \/ s.rootRef = "elsewhere"
        /\ "ref" \in s.below \/ s.belowRef = "elsewhere"}

Plain == [dialect |-> "draft-07", root |-> {"type"}, rootRef |-> "elsewhere",
          at |-> "properties", deep |-> FALSE, below |-> {"type"}, belowRef |-> "elsewhere"]

MCInputs ==
    (Policies \X {Plain} \X {Names}) \cup
    ({NoPolicy} \X (Schemas \cup {[Plain EXCEPT !.dialect = "draft-06"], [Plain EXCEPT !.deep = TRUE]})
                \X {{}})
=============================================================================
