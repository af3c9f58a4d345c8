----------------------------- MODULE ToolPolicy -----------------------------
(***************************************************************************)
(* The per-tool policy a bridge serves under (backend/app/bridge/host.py,  *)
(* _ToolTransform; normalised by registry/service.py): tools hidden,       *)
(* renamed, relabelled, and their draft-07 schemas declared as 2020-12.    *)
(* A client lists the tools and calls one by name; resolving the name      *)
(* reads the live upstream once or twice, and the upstream may change      *)
(* between the reads, MaxChanges times while one call is resolved.         *)
(*                                                                         *)
(* A schema is a root with one schema value below it.  A node is a set of  *)
(* keywords: "type" an assertion both dialects know, "title" an            *)
(* annotation, "dependencies", "tuple" an array-valued items, "contains",  *)
(* "minContains", "unevaluated" an assertion newer than draft-07,          *)
(* "misshapen" a newer keyword whose value 2020-12 rejects, "id", "idfrag" *)
(* an $id with a fragment, "anchor", and "ref" to the member "defs",       *)
(* to the annotation "default", or "elsewhere".                            *)
(***************************************************************************)
EXTENDS Naturals, FiniteSets

CONSTANTS
    Names,          \* tool names
    Inputs,         \* what is tried: a policy as sent, a tool schema, the tools that may be live
    MaxChanges,     \* bound: changes of the upstream while one call is resolved
    None            \* no name

\* A policy is over the tools' names; a $ref names a schema and holds none.
ASSUME ToolAssumptions ==
    /\ None \notin Names
    /\ \A input \in Inputs :
          /\ input[1] \in [hide : SUBSET Names, to : [Names -> Names \cup {None}]]
          /\ input[2].at # "ref"

VARIABLES
    policy,         \* the stored policy: hide, to (rename targets)
    schema,         \* the input schema of the upstream's tools
    offered,        \* the tools the upstream may have
    upstream,       \* the tools the upstream has now
    call,           \* the call under way: its name and the first read
    seen,           \* the tools the upstream has had while it ran
    answer,         \* the last answer: the tool reached or None
    changes         \* of the upstream, while the call was resolved

policyVars == <<policy, schema, offered, upstream, call, seen, answer, changes>>

NoToolCall == [name |-> None, direct |-> FALSE]

-----------------------------------------------------------------------------
(* The stored policy. *)

\* A rename to the name a tool already has is no rename.
Normalized(p) == [p EXCEPT !.to = [t \in Names |-> IF p.to[t] = t THEN None ELSE p.to[t]]]

\* The tools that are exposed under another name: hidden ones claim none.
Renamed(p) == {t \in Names \ p.hide : p.to[t] # None}

Accepted(p) ==
    /\ \A s, t \in Renamed(p) : p.to[s] = p.to[t] => s = t
    /\ \A t \in Renamed(p) : p.to[t] \notin Renamed(p)

-----------------------------------------------------------------------------
(* What is served. *)

Hides(t) == t \in policy.hide

\* Mutant: a hidden tool holds its name against a rename.
TakenByAll(up) == up

Taken(up) == up \ policy.hide

\* The name a live tool is listed under: a rename never takes a name that is taken.
ListedAs(t, up) ==
    IF policy.to[t] # None /\ policy.to[t] \notin Taken(up) THEN policy.to[t] ELSE t

\* list_tools: what a listing of that upstream shows under a name.
Listed(name, up) ==
    LET shown == {t \in Taken(up) : ListedAs(t, up) = name}
    IN  IF shown = {} THEN None ELSE CHOOSE t \in shown : TRUE

\* _name_reverse: the tool renamed to a name, if one is.
SourceOf(name) ==
    LET s == {t \in Renamed(policy) : policy.to[t] = name}
    IN  IF s = {} THEN name ELSE CHOOSE t \in s : TRUE

\* get_tool reads the renamed tool when its name is free or its owner hidden.
ReadsSource(c) == SourceOf(c.name) # c.name /\ (~c.direct \/ Hides(c.name))

\* _resolve_native reads the owner of the name a live tool would be renamed to.
ReadsTarget(c) ==
    ~ReadsSource(c) /\ c.direct /\ ~Hides(c.name) /\ policy.to[c.name] # None

CallsTool(name) ==
    /\ call = NoToolCall
    /\ call' = [name |-> name, direct |-> name \in upstream]
    /\ seen' = {upstream}
    /\ changes' = 0
    /\ UNCHANGED <<policy, schema, offered, upstream, answer>>

\* The second read, where there is one, and the answer.
Answers ==
    LET source == SourceOf(call.name)
        target == policy.to[call.name]
    IN  /\ call # NoToolCall
        /\ answer' =
             CASE ReadsSource(call) -> IF source \in upstream THEN source ELSE None
               [] ReadsTarget(call) ->
                    IF target \notin upstream \/ Hides(target) THEN None ELSE call.name
               [] OTHER -> IF call.direct /\ ~Hides(call.name) THEN call.name ELSE None
        /\ call' = NoToolCall
        /\ UNCHANGED <<policy, schema, offered, upstream, seen, changes>>

\* The upstream adds or drops a tool.
Changes(t) ==
    /\ t \in offered
    /\ call # NoToolCall => changes < MaxChanges
    /\ changes' = IF call = NoToolCall THEN 0 ELSE changes + 1
    /\ upstream' = IF t \in upstream THEN upstream \ {t} ELSE upstream \cup {t}
    /\ seen' = IF call = NoToolCall THEN seen ELSE seen \cup {upstream'}
    /\ UNCHANGED <<policy, schema, offered, call, answer>>

-----------------------------------------------------------------------------
(* The schema dialect. *)

Annotations == {"title", "defs", "default", "additionalItems", "dependencies"}
Walked == {"properties", "items", "anyOf", "contentSchema", "defs", "dependencies"}

\* The keywords of the root, the one that holds the schema below it among them.
RootKeywords(s) == s.root \cup {s.at}

ActivatesDormant(kw) == "unevaluated" \in kw \/ {"contains", "minContains"} \subseteq kw

\* Mutant: any pointer below the walked container passes, its annotations' values too.
RefIsLocal(target) == target # "elsewhere"

RefIsWalked(target) == target = "defs"

ShiftsResolution(kw, target, isRoot) ==
    \/ "anchor" \in kw
    \/ "id" \in kw /\ (~isRoot \/ "ref" \in kw)
    \/ "idfrag" \in kw
    \/ "ref" \in kw /\ (kw \ {"ref"} \subseteq Annotations => ~RefIsWalked(target))

NonPortable(kw) == "misshapen" \in kw

Changed(kw) == "tuple" \in kw \/ ("dependencies" \in kw /\ "ref" \notin kw)

NodeIncompatible(kw, target, isRoot) ==
    \/ Changed(kw) \/ ActivatesDormant(kw)
    \/ ShiftsResolution(kw, target, isRoot) \/ NonPortable(kw)

\* Only what the grammar declares a schema is walked; past the depth bound the answer is no.
ChildIncompatible(s) ==
    s.at \in Walked /\ (s.deep \/ NodeIncompatible(s.below, s.belowRef, FALSE))

Relabelled(s) ==
    s.dialect = "draft-07" /\ ~NodeIncompatible(RootKeywords(s), s.rootRef, TRUE)
    /\ ~ChildIncompatible(s)

-----------------------------------------------------------------------------
PolicyInit ==
    /\ \E input \in Inputs :
        /\ Accepted(Normalized(input[1])) /\ policy = Normalized(input[1])
        /\ schema = input[2] /\ offered = input[3]
    /\ upstream = {} /\ call = NoToolCall /\ seen = {} /\ answer = None
    /\ changes = 0

PolicyNext == Answers \/ \E n \in Names : CallsTool(n) \/ Changes(n)

PolicySpec == PolicyInit /\ [][PolicyNext]_policyVars

-----------------------------------------------------------------------------
(* What the two dialects say a schema asserts. *)

Known07 == {"type", "contains", "dependencies", "tuple"}
Known2020(kw) == {"type", "contains", "unevaluated"} \cup
                 (IF "contains" \in kw THEN {"minContains"} ELSE {})

\* draft-07 ignores every sibling of a $ref, and resolves it against the inherited base.
Asserts07(kw, target) ==
    IF "ref" \in kw THEN {<<"ref", target, "inherited">>} ELSE kw \cap Known07

\* 2020-12 evaluates the siblings, and an $id among them is the $ref's base.
Asserts2020(kw, target) ==
    (kw \cap Known2020(kw)) \cup
    (IF "ref" \in kw THEN {<<"ref", target, IF "id" \in kw THEN "own" ELSE "inherited">>} ELSE {})

Applied == {"properties", "items", "anyOf"}

\* What the schema below contributes: applied where it stands, or by the root's $ref.
Meaning07(s) ==
    <<Asserts07(RootKeywords(s), s.rootRef),
      IF (s.at \in Applied \cup {"dependencies"} /\ "ref" \notin s.root)
         \/ ("ref" \in s.root /\ s.rootRef = s.at)
      THEN Asserts07(s.below, s.belowRef) ELSE {}>>

Meaning2020(s) ==
    <<Asserts2020(RootKeywords(s), s.rootRef),
      IF s.at \in Applied \/ ("ref" \in s.root /\ s.rootRef = s.at)
      THEN Asserts2020(s.below, s.belowRef) ELSE {}>>

\* 2020-12's own schema checks every value it knows to be one.
Valid2020(s) ==
    /\ RootKeywords(s) \cap {"tuple", "misshapen", "idfrag"} = {}
    /\ s.at \in Walked \/ ("ref" \in s.root /\ s.rootRef = s.at) =>
           s.below \cap {"tuple", "misshapen", "idfrag"} = {}

\* Whatever changes under a call, it reaches no hidden tool, by its name or by one renamed
\* to or from it, and the tool it reaches was there during the call and goes by the name it
\* was called by, its own or the one it is renamed to.
ReachesOneOfThatName ==
    answer' # None =>
        /\ answer' \notin policy.hide
        /\ \E up \in seen : answer' \in up
        /\ call.name \in {answer', policy.to[answer']}

\* It gets what a listing of some moment of the call shows under its name, the same tool or
\* none: what is advertised can be called, and reaches the tool it advertises.  The two
\* reads give this for one change of the upstream between them; with a second one, of the
\* name and then of its target, they see tools that were never there together.
AnswersAsListed ==
    [][Answers => /\ ReachesOneOfThatName
                  /\ changes <= 1 => \E up \in seen : answer' = Listed(call.name, up)]_policyVars

\* A schema is declared 2020-12 only where that dialect accepts it and asserts exactly what
\* draft-07 asserted of it, through its references and the schemas below it.
RelabelKeepsMeaning ==
    Relabelled(schema) => Meaning07(schema) = Meaning2020(schema) /\ Valid2020(schema)
=============================================================================
