--------------------------- MODULE MCServerConfig ---------------------------
(***************************************************************************)
(* ServerConfig for TLC: what a form, an import or a client sends, one or  *)
(* two fields at a time, and the values that decide a branch of the code.  *)
(***************************************************************************)
EXTENDS ServerConfig, TLC

Env(host, key) == [k \in Keys |-> CASE k = "Host" -> host [] k = "K" -> key [] OTHER -> Absent]
Envs == {Env(Absent, Plain("a")), Env(Plain("a"), Plain("a")), Env(Plain("b"), Hidden),
         Env(Hidden, Plain("b")), Env(Absent, Hidden), Env(Hidden, Hidden),
         Env(Hidden, Plain("a")), Env(Hidden, Absent),
         Env(Plain("a"), Hidden), [Env(Absent, Hidden) EXCEPT !["PATH"] = Plain("a")]}

MCCreates ==
    {[runner |-> r, line |-> l, enabled |-> on, env |-> e, secret |-> s] :
        r \in {"command", "docker"}, l \in {"plain", "cli", "nested", "badcli"}, on \in BOOLEAN,
        e \in {Env(Absent, Plain("a"))}, s \in {{}, {"K"}}}
    \cup {[runner |-> "remote", line |-> "rawurl", oauth |-> o, enabled |-> TRUE,
           env |-> Env(Plain("a"), Plain("a")), secret |-> s] :
        o \in BOOLEAN, s \in {{}, {"Host", "K"}}}
    \cup {[runner |-> "openapi", doc |-> TRUE], [runner |-> "uvx", line |-> "plain", pin |-> TRUE]}

Lines == {[line |-> l] : l \in {"plain", "uvopts", "cli", "wrapped", "url"}}
Conversions ==
    {[runner |-> "remote", line |-> "url"], [runner |-> "openapi", line |-> "", doc |-> TRUE],
     [runner |-> "openapi", line |-> "url"], [runner |-> "command", line |-> "plain"],
     [runner |-> "uvx", line |-> "plain"], [runner |-> "docker"]}
Scripts ==
    {[setup |-> "dockers"], [setup |-> ""], [repo |-> TRUE, post |-> "plain"],
     [repo |-> FALSE], [check |-> "dockers"], [check |-> "tool"]}
Flags ==
    {[name |-> "b"], [cwd |-> TRUE], [runargs |-> TRUE], [pin |-> TRUE], [oauth |-> TRUE],
     [serial |-> TRUE, attach |-> TRUE], [serial |-> FALSE]}
Secrets ==
    {[env |-> e] : e \in Envs}
    \cup {[env |-> e, secret |-> s] : e \in Envs, s \in {{}, {"Host", "K"}}}

MCChanges ==
    Lines \cup Conversions \cup Scripts \cup Flags \cup Secrets
    \cup {c @@ [env |-> e] : c \in Conversions, e \in {Env(Hidden, Hidden), Env(Absent, Plain("a"))}}
=============================================================================
