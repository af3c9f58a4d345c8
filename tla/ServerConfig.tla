---------------------------- MODULE ServerConfig ----------------------------
(***************************************************************************)
(* One server's stored configuration (backend/app/registry/service.py,     *)
(* sealed.py, runners/) with the bridge the supervisor launched from it.   *)
(* Each write normalises what it was sent, refuses what could not run or   *)
(* would carry a hidden value elsewhere, and recomputes the hash by which  *)
(* the supervisor knows the bridge is out of date.  Every write holds the  *)
(* config write lock, so it is one step; a refused one changes nothing.    *)
(*                                                                         *)
(* A launch line stands for command and args together: "plain" a local     *)
(* program (an uvx package for uvx), "uvopts" a uv line the pin has no     *)
(* place in, "image", "url", "rawurl" a URL in a form the normalisation    *)
(* rewrites, "" none, "wrapped" a program that invokes the docker CLI      *)
(* (sh -c "docker ..."), and the CLI itself: "cli" is docker run -e K=b x, *)
(* "bare" docker run x, "nested" docker run docker run x, "compose"        *)
(* another of its commands, "badcli" one no image can be read from.        *)
(* "command" stands for npx too and "openapi" for graphql, which the code  *)
(* treats alike.  Sizes, timeouts, slugs, tool policy and the built-in     *)
(* server are not here.                                                    *)
(***************************************************************************)
EXTENDS Naturals

CONSTANTS
    Creates,    \* what a POST or an import sends: values for some fields
    Changes,    \* what a PATCH sends: values for some fields
    MaxEdits    \* bound on the writes of one row's life

VARIABLES
    row,        \* the server row, NoRow when there is none
    hash,       \* its config_hash: the launch configuration it was computed from
    gate,       \* the docker_runner setting
    booted,         \* the boot conversion has run
    bridge,     \* the running bridge: the hash and the payload it was started with
    typed,      \* per env key: what the server ran when its value was last typed in
    edits       \* writes so far (bounds the model, nothing in the code)

configVars == <<row, hash, gate, booted, bridge, typed, edits>>

Keys == {"Host", "K", "PATH"}
Local == {"command", "uvx"}
Headers == {"remote", "openapi"}
Launchers == {"cli", "bare", "nested", "compose", "badcli"}

Absent == <<"absent", "">>
Hidden == <<"hidden", "">>
AsTheyWere == {"as they were"}    \* a save that names no secret keys
Plain(v) == <<"plain", v>>
Sealed(v) == <<"sealed", v>>
IsSealed(v) == v[1] = "sealed"
Text(v) == IF v[1] \in {"plain", "sealed"} THEN v[2] ELSE ""
Texts(env) == [k \in Keys |-> Text(env[k])]
SecretKeys(env) == {k \in Keys : IsSealed(env[k])}
Masked(env) == [k \in Keys |-> IF IsSealed(env[k]) THEN Hidden ELSE env[k]]

Blank == [name |-> "a", runner |-> "command", line |-> "", cwd |-> FALSE, setup |-> "",
          repo |-> FALSE, post |-> "", check |-> "", doc |-> FALSE, runargs |-> FALSE, pin |-> FALSE,
          oauth |-> FALSE, serial |-> FALSE, attach |-> FALSE,
          env |-> [k \in Keys |-> Absent], enabled |-> FALSE]
Fields == DOMAIN Blank \ {"enabled"}
Switches == {"cwd", "repo", "doc", "runargs", "pin", "oauth", "serial", "attach", "enabled"}
Sendable == {Absent, Hidden} \cup {"plain"} \X STRING
NoRow == [runner |-> "none"]
NoBridge == [payload |-> <<"none">>]
Never == <<"never">>

\* Requests are validated before they are handled, and a PATCH has no field that enables.
ASSUME ConfigAssumptions ==
    /\ \A sent \in Creates \cup Changes :
          /\ \A f \in Switches \cap DOMAIN sent : sent[f] \in BOOLEAN
          /\ "env" \in DOMAIN sent => sent.env \in [Keys -> Sendable]
    /\ \A sent \in Changes : "enabled" \notin DOMAIN sent

\* r with the values a request sent.
Merged(r, sent) == [f \in DOMAIN r |-> IF f \in DOMAIN sent THEN sent[f] ELSE r[f]]

-----------------------------------------------------------------------------
(* Normalisation, common to create and update. *)

\* A local runner pointed at the docker CLI is the docker runner.
Reclassified(r) ==
    IF r.runner \in Local /\ r.line \in Launchers THEN [r EXCEPT !.runner = "docker"] ELSE r

\* A pasted docker run line becomes its image; env given beside its -e K=b wins.  What
\* is no docker run line is an image with its arguments, and so is docker run itself in
\* the image named docker.
ImageOf(r) ==
    CASE r.line = "cli" ->
           [r EXCEPT !.line = "image", !.env["K"] = IF @ = Absent THEN Plain("b") ELSE @]
      [] r.line = "bare" -> [r EXCEPT !.line = "image"]
      [] r.line = "nested" -> [r EXCEPT !.line = "bare"]
      [] OTHER -> r

\* normalize_docker finds an image.
Readable(r) == r.line \notin {"", "badcli"}

UrlOf(r) == IF r.runner \in Headers /\ r.line = "rawurl" THEN [r EXCEPT !.line = "url"] ELSE r

\* Fields of another runner do not ride along on a conversion.
OauthOf(r) == [r EXCEPT !.oauth = @ /\ r.runner = "remote"]
RunArgsOf(r) == [r EXCEPT !.runargs = @ /\ r.runner = "docker"]
PinOf(r) == [r EXCEPT !.pin = @ /\ r.runner = "uvx"]
FilesOf(r) == [r EXCEPT !.cwd = @ /\ r.runner \in Local, !.doc = @ /\ r.runner = "openapi"]

Normal(r) ==
    LET q == Reclassified(r)
    IN  FilesOf(PinOf(RunArgsOf(OauthOf(UrlOf(IF q.runner = "docker" THEN ImageOf(q) ELSE q)))))

(* What a normalised row must satisfy. *)

UrlFits(r) == r.runner = "remote" => r.line = "url"
DocumentFits(r) == r.runner = "openapi" => r.line = IF r.doc THEN "" ELSE "url"
ImageFits(r) == r.runner = "docker" => Readable(r)

ScriptsFit(r) ==
    /\ r.setup # "" \/ r.repo => r.runner \in Local
    /\ r.post # "" => r.repo

CheckFits(r) == r.check \in {"shell", "dockers"} => r.runner \in Local

PinFits(r) == r.pin => r.line = "plain"

StderrFits(r) == r.attach => r.runner \notin Headers /\ r.serial

Fits(r) ==
    /\ r.runner \in Local \cup Headers \cup {"docker"}
    /\ UrlFits(r) /\ DocumentFits(r) /\ ImageFits(r)
    /\ ScriptsFit(r) /\ CheckFits(r) /\ PinFits(r) /\ StderrFits(r)

\* The docker CLI reads its own variables, which a container must not set.
EnvFits(r) == r.runner = "docker" => r.env["PATH"] = Absent

\* A local program or script that would invoke the docker CLI outside the docker runner.
HostDocker(r) ==
    /\ r.runner \in Local
    /\ r.line \in Launchers \cup {"wrapped"} \/ "dockers" \in {r.setup, r.post, r.check}

-----------------------------------------------------------------------------
(* Sealed env values. *)

RunsCode(r) == r.runner \notin Headers

\* What a server runs or sends its env to: _RETARGET_FIELDS.
Target(r) ==
    <<r.runner, r.line, r.runargs, r.cwd, r.setup, r.repo, r.post, r.doc, r.pin,
      IF r.check \in {"shell", "dockers"} THEN r.check ELSE "">>

\* Mutant: the stored Host compared with the value shown for it.
HostMovedPlainly(old, new) == new["Host"] # old["Host"]

\* A Host header picks the virtual host behind the same URL.
HostMoved(old, new) ==
    new["Host"] # old["Host"] /\ ~(new["Host"] = Hidden /\ IsSealed(old["Host"]))

Retargeted(old, new) == Target(old) # Target(new) \/ HostMoved(old.env, new.env)

\* The keys whose stored sealed value a save keeps.
Kept(old, sent) == {k \in Keys : IsSealed(old[k]) /\ sent[k] \in {Hidden, old[k]}}

\* The keys a save leaves secret: those it names, or as they were.
SecretAfter(old, sent, secret) ==
    IF secret # AsTheyWere THEN secret ELSE SecretKeys(old)

\* Mutant: removing a value is no change.
OthersAdded(old, sent, secret) ==
    \E k \in Keys \ Kept(old, sent) : sent[k] # Absent /\ sent[k] # old[k]

\* Another value was added, changed or removed; typing a secret one in again is no change.
OthersChanged(old, sent, secret) ==
    \E k \in Keys \ Kept(old, sent) :
        IF IsSealed(old[k])
        THEN k \notin SecretAfter(old, sent, secret) \/ Text(sent[k]) # Text(old[k])
        ELSE sent[k] # old[k]

Resolvable(old, sent, secret, retargeted, runsCode) ==
    LET kept == Kept(old, sent) IN
    /\ \A k \in Keys \cap secret : sent[k] # Absent
    /\ \A k \in Keys \ kept : sent[k] # Hidden
    /\ kept \subseteq SecretAfter(old, sent, secret)
    /\ kept # {} => ~retargeted /\ ~(runsCode /\ OthersChanged(old, sent, secret))

Resolved(old, sent, secret) ==
    [k \in Keys |->
        CASE k \in Kept(old, sent) -> old[k]
          [] sent[k] = Absent -> Absent
          [] OTHER -> IF k \in SecretAfter(old, sent, secret)
                      THEN Sealed(Text(sent[k])) ELSE Plain(Text(sent[k]))]

-----------------------------------------------------------------------------
(* What the bridge is launched with, and the hash it is judged by. *)

LocalPayload(r) ==
    <<"local", r.line, r.pin, Texts(r.env), r.cwd, r.setup, r.repo, r.post, r.serial,
      r.attach, IF r.attach THEN SecretKeys(r.env) ELSE {}>>

ContainerPayload(r) ==
    <<"docker", r.line, r.runargs, Texts(r.env), r.serial, r.attach,
      IF r.attach THEN SecretKeys(r.env) ELSE {}>>

RemotePayload(r) == <<"remote", r.line, Texts(r.env), r.oauth, r.serial>>

ApiPayload(r) == <<"openapi", r.line, Texts(r.env), r.doc>>

SpecOf(r) ==
    CASE r.runner \in Local -> LocalPayload(r)
      [] r.runner = "docker" -> ContainerPayload(r)
      [] r.runner = "remote" -> RemotePayload(r)
      [] r.runner = "openapi" -> ApiPayload(r)

Payload(r) == [name |-> r.name, spec |-> SpecOf(r)]

\* Mutant: the docker run options left out of the hash.
HashOfLaunchLine(r) ==
    <<r.runner, r.line, r.env, r.cwd, r.setup, r.pin, r.serial, r.oauth, r.repo, r.post,
      r.doc, r.attach>>

HashOf(r) ==
    <<r.runner, r.line, r.runargs, r.env, r.cwd, r.setup, r.pin, r.serial, r.oauth,
      r.repo, r.post, r.doc, r.attach>>

-----------------------------------------------------------------------------
Stored == row # NoRow
Edits == booted /\ edits < MaxEdits /\ edits' = edits + 1

SecretOf(sent) == IF "secret" \in DOMAIN sent THEN sent.secret ELSE AsTheyWere

\* What a server runs and whom its env reaches: what a hidden value was typed in for.
RunsWith(r) ==
    <<Target(r), Text(r.env["Host"]), IF RunsCode(r) THEN Texts(r.env) ELSE <<>> >>

TypedAfter(new, kept) ==
    [k \in Keys |-> CASE ~IsSealed(new.env[k]) -> Never
                      [] k \in kept -> typed[k]
                      [] OTHER -> RunsWith(new)]

\* create_server, up to the stored row.
Creatable(sent) ==
    LET m == Merged(Blank, sent)
        r == Normal(m)
    IN  /\ m.line # "" \/ (m.runner = "openapi" /\ m.doc)
        /\ Fits(r) /\ EnvFits(r)
        /\ r.enabled => ~HostDocker(r) /\ (r.runner = "docker" => gate)
        /\ Resolvable(Blank.env, r.env, SecretOf(sent), FALSE, FALSE)

Created(sent) ==
    LET r == Normal(Merged(Blank, sent))
    IN  [r EXCEPT !.env = Resolved(Blank.env, @, SecretOf(sent))]

Stores(new) == row' = new /\ hash' = HashOf(new)

Create(sent) ==
    /\ Edits /\ ~Stored /\ Creatable(sent)
    /\ Stores(Created(sent)) /\ typed' = TypedAfter(Created(sent), {})
    /\ UNCHANGED <<gate, booted, bridge>>

\* An import names a command or a URL; the runner is inferred and the row disabled.
InferredRunner(line) ==
    CASE line \in {"url", "rawurl"} -> "remote"
      [] line \in Launchers -> "docker"
      [] line = "uvopts" -> "uvx"
      [] OTHER -> "command"

Import(sent) ==
    LET entry == [line |-> sent.line, runner |-> InferredRunner(sent.line),
                  env |-> IF "env" \in DOMAIN sent THEN sent.env ELSE Blank.env]
    IN  /\ Edits /\ ~Stored /\ "line" \in DOMAIN sent /\ sent.line # "" /\ Creatable(entry)
        /\ Stores(Created(entry)) /\ typed' = TypedAfter(Created(entry), {})
        /\ UNCHANGED <<gate, booted, bridge>>

\* update_server: what the row becomes with the values sent, before its env is resolved.
Edited(old, sent) ==
    LET m == Merged(old, sent)
    IN  Normal(IF "repo" \in DOMAIN sent /\ ~m.repo /\ "post" \notin DOMAIN sent
               THEN [m EXCEPT !.post = ""] ELSE m)

\* Mutant: was_docker read after the row was reclassified.
ConversionAllowedLate(old, new) ==
    LET was == new.runner = "docker" IN new.enabled /\ new.runner = "docker" /\ ~was => gate

\* Editing a row that already was docker is not gated; making an enabled one docker is.
ConversionAllowed(old, new) ==
    new.enabled /\ new.runner = "docker" /\ old.runner # "docker" => gate

Editable(old, sent) ==
    LET r == Edited(old, sent)
    IN  /\ Fits(r) /\ EnvFits(r)
        /\ r.enabled => ~HostDocker(r)
        /\ ConversionAllowed(old, r)
        /\ Resolvable(old.env, r.env, SecretOf(sent), Retargeted(old, r), RunsCode(r))

Updated(old, sent) ==
    LET r == Edited(old, sent)
    IN  [r EXCEPT !.env = Resolved(old.env, @, SecretOf(sent))]

Update(sent) ==
    /\ Edits /\ Stored /\ Editable(row, sent)
    /\ Stores(Updated(row, sent))
    /\ typed' = TypedAfter(Updated(row, sent), Kept(row.env, Edited(row, sent).env))
    /\ UNCHANGED <<gate, booted, bridge>>

\* The copy keeps the secret keys and is disabled; from here on row is the copy.
Clone ==
    LET sent == [f \in Fields \cup {"secret"} |->
                    CASE f = "secret" -> SecretKeys(row.env)
                      [] f = "name" -> "copy"
                      [] f = "env" -> [k \in Keys |-> IF row.env[k] = Absent THEN Absent
                                                      ELSE Plain(Text(row.env[k]))]
                      [] OTHER -> row[f]]
    IN  /\ Edits /\ Stored /\ Creatable(sent)
        /\ Stores(Created(sent)) /\ typed' = TypedAfter(Created(sent), Keys)
        /\ bridge' = NoBridge /\ UNCHANGED <<gate, booted>>

SetEnabled(on) ==
    /\ Edits /\ Stored /\ row.enabled # on
    /\ on => ~HostDocker(row) /\ (row.runner = "docker" => gate)
    /\ row' = [row EXCEPT !.enabled = on]
    /\ UNCHANGED <<hash, gate, booted, bridge, typed>>

Delete ==
    /\ Edits /\ Stored
    /\ row' = NoRow /\ hash' = Never /\ typed' = [k \in Keys |-> Never] /\ bridge' = NoBridge
    /\ UNCHANGED <<gate, booted>>

\* The setting is not under the config write lock, and changes no row.
Toggle == booted /\ gate' = ~gate /\ UNCHANGED <<row, hash, booted, bridge, typed, edits>>

\* normalize_docker_servers: rows of an older release take the canonical docker form,
\* without the variables of the CLI.  A row no image can be read from stays as it was.
Converted(r) ==
    IF Readable(r) /\ (r.runner = "docker" \/ (r.runner \in Local /\ r.line \in Launchers))
    THEN [ImageOf(r) EXCEPT !.runner = "docker", !.cwd = FALSE, !.env["PATH"] = Absent]
    ELSE r

\* The boot conversion, then the backfill of hashes an older release computed.
BootConversion ==
    /\ ~booted /\ booted' = TRUE
    /\ IF Stored /\ (Converted(row) # row \/ hash = Never)
       THEN Stores(Converted(row)) ELSE UNCHANGED <<row, hash>>
    /\ UNCHANGED <<gate, bridge, typed, edits>>

Restart == booted /\ booted' = FALSE /\ bridge' = NoBridge /\ UNCHANGED <<row, hash, gate, typed, edits>>

Wanted == Stored /\ row.enabled /\ (row.runner = "docker" => gate) /\ ~HostDocker(row)

\* A reconcile pass: the bridge runs what the row said when it was launched.
Pass ==
    /\ booted
    /\ bridge' = IF ~Wanted THEN NoBridge
                 ELSE IF bridge # NoBridge /\ bridge.hash = hash THEN bridge
                 ELSE [hash |-> hash, payload |-> Payload(row)]
    /\ UNCHANGED <<row, hash, gate, booted, typed, edits>>

\* Rows of the releases before docker was normalised and gated: lines as they were
\* pasted, for docker or for a local runner.  A column added since has its default.
OldEnvs == {Blank.env, [Blank.env EXCEPT !["K"] = Plain("a"), !["PATH"] = Plain("a")]}
Pasted(runner, line, cwd, env, enabled) ==
    [Blank EXCEPT !.runner = runner, !.line = line, !.cwd = cwd, !.env = env, !.enabled = enabled]
Legacy ==
    {Pasted(runner, line, cwd, env, enabled) :
        runner \in Local \cup {"docker"}, line \in Launchers \cup {"plain", "wrapped"},
        cwd \in BOOLEAN, env \in OldEnvs, enabled \in BOOLEAN}

ConfigInit ==
    /\ row \in {NoRow} \cup Legacy /\ hash = Never /\ gate \in BOOLEAN
    /\ booted = FALSE /\ bridge = NoBridge /\ typed = [k \in Keys |-> Never] /\ edits = 0

ConfigNext ==
    \/ \E sent \in Creates : Create(sent) \/ Import(sent)
    \/ \E sent \in Changes : Update(sent)
    \/ Clone \/ Delete \/ \E on \in BOOLEAN : SetEnabled(on)
    \/ Toggle \/ BootConversion \/ Restart \/ Pass

ConfigSpec == ConfigInit /\ [][ConfigNext]_configVars

-----------------------------------------------------------------------------
\* The form of a row, as it is shown: hidden values stay hidden.
Form(r, named) ==
    [f \in Fields \cup (IF named THEN {"secret"} ELSE {}) |->
        CASE f = "secret" -> SecretKeys(r.env) [] f = "env" -> Masked(r.env) [] OTHER -> r[f]]

\* The stored row is itself a docker run line, the image being the one named docker.
ReadAgain(r) == r.runner = "docker" /\ r.line = "bare"

\* A row of an older release the code of today would not have stored.
Outdated(r) == r.line = "badcli" \/ (r.enabled /\ HostDocker(r))

\* What saving the form as it was shown does to any stored row, whatever create, update,
\* clone or the boot conversion made it.  It is accepted and changes nothing, so no save
\* bounces a bridge for nothing or asks a secret again; but a docker row that is itself a
\* docker run line is read once more, or refused for the secrets it hides (against the
\* comment at service.py:1552, that a canonical row re-normalizes to itself), and an old
\* row that would be refused as new is refused as it is.
ResendIsNoChange ==
    booted /\ Stored => \A named \in BOOLEAN :
        LET form == Form(row, named)
        IN  /\ Editable(row, form) <=>
                  ~Outdated(row) /\ (ReadAgain(row) => SecretKeys(row.env) = {})
            /\ Editable(row, form) =>
                  Updated(row, form) = [row EXCEPT !.line = IF ReadAgain(row) THEN "image" ELSE @]

\* The use a value was typed in for is the row's, or that of the docker run line the row's
\* image was read from.
TypedFor(use, r) ==
    \/ use = RunsWith(r)
    \/ r.runner = "docker" /\ r.line = "image" /\ use = RunsWith([r EXCEPT !.line = "bare"])

\* A hidden value is only ever used by what it was typed in for: through any sequence of
\* edits, conversions, clones and restarts, the server still runs the same program with
\* the same other env, or sends it to the same upstream and virtual host.  The exception
\* is a docker row that is itself a docker run line: the next boot, or a clone, reads it
\* again and gives the value to the image that line names.
SecretsStayPut == Stored => \A k \in SecretKeys(row.env) : TypedFor(typed[k], row)

\* A bridge the supervisor takes for current (its hash is the row's) runs what the row
\* says: whatever a builder reads, every write that changes it changes the hash.  Only the
\* name the bridge was handed beside the builder's spec (bridge_payload, service.py:2027)
\* can be an older one: no hash covers it.
BridgeIsCurrent ==
    Stored /\ bridge # NoBridge /\ bridge.hash = hash => bridge.payload.spec = SpecOf(row)

\* A row becomes an enabled docker server only while the setting allows it, however it
\* gets there: created, enabled, or converted under a running server by its launch line.
EnablingIsGated ==
    [][booted /\ row'.runner = "docker" /\ row'.enabled /\ ~(row.runner = "docker" /\ row.enabled)
       => gate]_configVars
=============================================================================
