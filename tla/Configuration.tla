---------------------------- MODULE Configuration ----------------------------
(***************************************************************************)
(* What becomes of a configuration file (internal/config/config.go): its   *)
(* references to environment variables are expanded, defaults and secrets  *)
(* filled in, and everything validated; and the registry's own check of    *)
(* the URL when its client is made (client.go, normaliseBaseURL).          *)
(*                                                                         *)
(* A scalar of the file is a text or one reference, ${VAR} or              *)
(* ${VAR:-fallback}; "" is a field that is left out.  A URL has none: it   *)
(* is the record of what url.Parse finds in it.  Slug is slug, of the      *)
(* names there are.  Timeouts, page sizes, titles and the base path are    *)
(* left out.                                                               *)
(***************************************************************************)
EXTENDS FiniteSets, SequencesExt

CONSTANTS
    Unset,      \* no fallback, no configuration
    Slug,       \* the id that is made of a name
    Documents   \* the files there may be

Themes == {"auto", "dark", "light"}
LogLevels == {"debug", "info", "warn", "error"}
AuthTypes == {"none", "basic", "bearer"}

\* The scalars of a registry and its URL.
Fields == {"id", "name", "url", "type", "username", "password", "passwordEnv", "token", "tokenEnv"}

ASSUME DocumentsAssumption ==
    \A doc \in Documents :
        /\ Len(doc.registries) \in Nat /\ DOMAIN doc.registries = 1 .. Len(doc.registries)
        /\ \A i \in DOMAIN doc.registries : DOMAIN doc.registries[i] = Fields

-----------------------------------------------------------------------------
(* Expansion.                                                              *)

Text(t) == [text |-> t, var |-> "", fallback |-> Unset]
Reference(var, fallback) == [text |-> "", var |-> var, fallback |-> fallback]

\* os.LookupEnv: env has the variables that are set, some to nothing.
IsSet(var, env) == var \in DOMAIN env

\* No value and no fallback.
IsMissing(s, env) == s.var # "" /\ ~IsSet(s.var, env) /\ s.fallback = Unset

\* expandString.
Expand(s, env) == IF s.var = "" THEN s.text
                  ELSE IF IsSet(s.var, env) THEN env[s.var] ELSE s.fallback

Scalars(doc) == {doc.theme, doc.logLevel, doc.default}
                \cup UNION {{r[f] : f \in DOMAIN r \ {"url"}} : r \in ToSet(doc.registries)}

Expanded(doc, env) ==
    [theme |-> Expand(doc.theme, env), logLevel |-> Expand(doc.logLevel, env),
     default |-> Expand(doc.default, env),
     registries |-> [i \in DOMAIN doc.registries |->
                       LET r == doc.registries[i]
                       IN  [f \in DOMAIN r |-> IF f = "url" THEN r.url ELSE Expand(r[f], env)]]]

-----------------------------------------------------------------------------
(* URLs.                                                                   *)

NoURL == [scheme |-> "", host |-> "", path |-> "", slash |-> FALSE, query |-> FALSE]

\* hostOf; what has no host is its own name.
HostOf(url) == IF url.host # "" THEN url.host ELSE url.path

\* Slashes at the end of the text, but not those before a query.
WithoutSlash(url) == IF url.query THEN url ELSE [url EXCEPT !.slash = FALSE]

\* Mutant: the path is compared as it is.
SloppyURL(url) == url.scheme \in {"http", "https"} /\ url.host # "" /\ (url.path = "v2" => url.slash)

\* validateURL: "v2" stands for any path that ends so.
ValidURL(url) == url.scheme \in {"http", "https"} /\ url.host # "" /\ url.path # "v2"

\* normaliseBaseURL drops the query, and is as strict.
BaseURLAccepted(url) == url.scheme \in {"http", "https"} /\ url.host # "" /\ url.path # "v2"

-----------------------------------------------------------------------------
(* Defaults, secrets and validation.                                       *)

Or(value, default) == IF value = "" THEN default ELSE value

Named(r) == [r EXCEPT !.name = Or(@, HostOf(r.url))]

\* applyDefaults of one registry.
Defaulted(r) == [Named(r) EXCEPT !.id = Or(@, Slug[Named(r).name]),
                                 !.type = Or(@, "none"),
                                 !.url = WithoutSlash(@)]

\* applyDefaults.
WithDefaults(doc) ==
    LET registries == [i \in DOMAIN doc.registries |-> Defaulted(doc.registries[i])]
    IN  [theme |-> Or(doc.theme, "auto"), logLevel |-> Or(doc.logLevel, "info"),
         default |-> IF doc.default = "" /\ registries # <<>> THEN registries[1].id ELSE doc.default,
         registries |-> registries]

\* resolveSecrets: the variable that is named, before the value that is given.
Secret(value, var, env) == IF var = "" THEN value ELSE env[var]
Resolved(r, env) == [r EXCEPT !.password = Secret(@, r.passwordEnv, env),
                              !.token = Secret(@, r.tokenEnv, env)]
WithSecrets(doc, env) ==
    [doc EXCEPT !.registries = [i \in DOMAIN @ |-> Resolved(@[i], env)]]

\* The variables resolveSecrets does not find.
UnsetSecrets(doc, env) ==
    {var \in UNION {{r.passwordEnv, r.tokenEnv} : r \in ToSet(doc.registries)} :
        var # "" /\ ~IsSet(var, env)}

Ids(doc) == [i \in DOMAIN doc.registries |-> doc.registries[i].id]

ValidAuth(r) == /\ r.type \in AuthTypes
                /\ r.type = "basic" => r.username # ""
                /\ r.type = "bearer" => r.token # ""

UniqueIds(doc) == IsInjective(Ids(doc))

\* Validate; all that is wrong is reported, but wrong is wrong.
Valid(doc) == /\ doc.registries # <<>>
              /\ doc.theme \in Themes
              /\ doc.logLevel \in LogLevels
              /\ UniqueIds(doc)
              /\ "" \notin ToSet(Ids(doc))
              /\ \A r \in ToSet(doc.registries) : ValidURL(r.url) /\ ValidAuth(r)
              /\ doc.default # "" => doc.default \in ToSet(Ids(doc))

\* Parse: the configuration, or Unset for an error.
Parse(doc, env) ==
    IF \/ doc.unknown
       \/ \E s \in Scalars(doc) : IsMissing(s, env)
       \/ UnsetSecrets(WithDefaults(Expanded(doc, env)), env) # {}
    THEN Unset
    ELSE LET cfg == WithSecrets(WithDefaults(Expanded(doc, env)), env)
         IN  IF Valid(cfg) THEN cfg ELSE Unset

-----------------------------------------------------------------------------
\* The places at which a registry has that id.
Places(cfg, id) == {i \in DOMAIN cfg.registries : cfg.registries[i].id = id}

\* Registry: the first of that id.
Registry(cfg, id) == cfg.registries[Min(Places(cfg, id))]

\* Default: the first one, if there is none of that id.
Default(cfg) == IF Places(cfg, cfg.default) # {} THEN Registry(cfg, cfg.default)
                ELSE cfg.registries[1]
=============================================================================
