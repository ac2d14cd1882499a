---------------------------- MODULE ServingProofs ----------------------------
(***************************************************************************)
(* Proofs about Serving and Configuration, for any files, environments,    *)
(* visitors and times: a configuration that is accepted can be served,     *)
(* verdicts on registries are honest, and a shutdown cuts no request off   *)
(* before its timeout.  And about Responses, for any number of requests    *)
(* and encoders and any sizes: a finished response is what its headers     *)
(* say, errors have an error's status, encoders are exclusive, and the     *)
(* access log tells the status that was sent.                              *)
(***************************************************************************)
EXTENDS Serving, Responses, TLAPS

-----------------------------------------------------------------------------
(* What Parse accepts.                                                     *)

\* What is expanded has the registries of the file.
LEMMA ExpandedFacts ==
    ASSUME NEW doc \in Documents, NEW env
    PROVE  LET registries == Expanded(doc, env).registries
           IN  /\ DOMAIN registries = DOMAIN doc.registries
               /\ \A i \in DOMAIN registries : DOMAIN registries[i] = Fields
BY DocumentsAssumption DEF Expanded

\* Defaults give every registry an id, and leave the names of secrets alone.
LEMMA DefaultedFacts ==
    ASSUME NEW r, DOMAIN r = Fields
    PROVE  DOMAIN Defaulted(r) = Fields
<1>1. DOMAIN Named(r) = Fields
  BY DEF Named
<1> QED
  BY <1>1 DEF Defaulted

\* Defaults add no registry and name the first one.
LEMMA WithDefaultsFacts ==
    ASSUME NEW doc, \A i \in DOMAIN doc.registries : DOMAIN doc.registries[i] = Fields,
           NEW d, d = WithDefaults(doc)
    PROVE  /\ DOMAIN d.registries = DOMAIN doc.registries
           /\ \A i \in DOMAIN d.registries : DOMAIN d.registries[i] = Fields
           /\ d.default = IF doc.default = "" /\ d.registries # <<>>
                          THEN d.registries[1].id ELSE doc.default
<1> DEFINE registries == [i \in DOMAIN doc.registries |-> Defaulted(doc.registries[i])]
           default == IF doc.default = "" /\ registries # <<>> THEN registries[1].id ELSE doc.default
<1>1. d = [theme |-> Or(doc.theme, "auto"), logLevel |-> Or(doc.logLevel, "info"),
           default |-> default, registries |-> registries]
  BY Zenon DEF WithDefaults
<1>2. /\ DOMAIN registries = DOMAIN doc.registries
      /\ \A i \in DOMAIN registries : DOMAIN registries[i] = Fields
  BY DefaultedFacts
<1> HIDE DEF registries, default
<1>3. d.registries = registries /\ d.default = default
  BY <1>1
<1> QED
  BY <1>2, <1>3, Zenon DEF default

\* Secrets change passwords and tokens, and nothing else.
OnlySecrets(doc, cfg) ==
    /\ cfg.default = doc.default
    /\ cfg.registries = [i \in DOMAIN doc.registries |-> cfg.registries[i]]
    /\ \A i \in DOMAIN doc.registries :
          /\ cfg.registries[i].id = doc.registries[i].id
          /\ cfg.registries[i].passwordEnv = doc.registries[i].passwordEnv
          /\ cfg.registries[i].tokenEnv = doc.registries[i].tokenEnv

\* Secrets change the fields of secrets only.
LEMMA WithSecretsFacts ==
    ASSUME NEW doc, NEW env, "registries" \in DOMAIN doc, "default" \in DOMAIN doc,
           \A i \in DOMAIN doc.registries : DOMAIN doc.registries[i] = Fields
    PROVE  OnlySecrets(doc, WithSecrets(doc, env))
<1> DEFINE cfg == WithSecrets(doc, env)
<1>1. cfg = [doc EXCEPT !.registries = [i \in DOMAIN doc.registries |->
                                           Resolved(doc.registries[i], env)]]
  BY DEF WithSecrets
<1>2. ASSUME NEW r, DOMAIN r = Fields
      PROVE  /\ Resolved(r, env).id = r.id
             /\ Resolved(r, env).passwordEnv = r.passwordEnv
             /\ Resolved(r, env).tokenEnv = r.tokenEnv
  BY <1>2 DEF Fields, Resolved
<1>3. /\ cfg.registries = [i \in DOMAIN doc.registries |-> Resolved(doc.registries[i], env)]
      /\ cfg.default = doc.default
  BY <1>1
<1> HIDE DEF cfg
<1>4. OnlySecrets(doc, cfg)
  BY <1>2, <1>3 DEF OnlySecrets
<1> QED
  BY <1>4 DEF cfg
\* What is accepted passed every check, and its registries are those of the file,
\* whose order defaults and secrets keep.
Accepted(doc, env, cfg) ==
    /\ Valid(cfg)
    /\ \A s \in Scalars(doc) : ~IsMissing(s, env)
    /\ DOMAIN cfg.registries = DOMAIN doc.registries /\ 1 \in DOMAIN cfg.registries
    /\ \A i \in DOMAIN cfg.registries :
          {cfg.registries[i].passwordEnv, cfg.registries[i].tokenEnv} \subseteq {""} \cup DOMAIN env
    /\ cfg.default \in ToSet(Ids(cfg))

\* What Parse returns has passed every check.
LEMMA ParseFacts ==
    ASSUME NEW doc \in Documents, NEW env, NEW cfg, cfg = Parse(doc, env), cfg # Unset
    PROVE  Accepted(doc, env, cfg)
<1> DEFINE e == Expanded(doc, env)
           d == WithDefaults(e)
<1>1. /\ \A s \in Scalars(doc) : ~IsMissing(s, env)
      /\ UnsetSecrets(d, env) = {}
      /\ cfg = WithSecrets(d, env) /\ Valid(cfg)
  BY DEF Parse
<1>2. /\ DOMAIN e.registries = DOMAIN doc.registries
      /\ \A i \in DOMAIN e.registries : DOMAIN e.registries[i] = Fields
  BY ExpandedFacts
<1>3. "registries" \in DOMAIN d /\ "default" \in DOMAIN d
  BY DEF WithDefaults
<1> HIDE DEF e
<1>4. /\ DOMAIN d.registries = DOMAIN doc.registries
      /\ \A i \in DOMAIN d.registries : DOMAIN d.registries[i] = Fields
      /\ d.default = IF e.default = "" /\ d.registries # <<>>
                     THEN d.registries[1].id ELSE e.default
  BY <1>2, WithDefaultsFacts
<1> HIDE DEF d
<1>5. /\ cfg.default = d.default
      /\ cfg.registries = [i \in DOMAIN d.registries |-> cfg.registries[i]]
      /\ \A i \in DOMAIN d.registries :
            /\ cfg.registries[i].id = d.registries[i].id
            /\ cfg.registries[i].passwordEnv = d.registries[i].passwordEnv
            /\ cfg.registries[i].tokenEnv = d.registries[i].tokenEnv
  <2>1. cfg = WithSecrets(d, env)
    BY <1>1
  <2>2. OnlySecrets(d, WithSecrets(d, env))
    BY <1>3, <1>4, WithSecretsFacts
  <2> QED
    BY <2>1, <2>2 DEF OnlySecrets
<1>6. DOMAIN cfg.registries = DOMAIN doc.registries
  BY <1>4, <1>5
<1>7. 1 \in DOMAIN cfg.registries
  <2>1. cfg.registries # <<>>
    BY <1>1 DEF Valid
  <2>2. DOMAIN cfg.registries # {}
    BY <1>5, <2>1
  <2> QED
    BY <1>6, <2>2, DocumentsAssumption
<1>8. ASSUME NEW i \in DOMAIN cfg.registries,
             NEW var \in {cfg.registries[i].passwordEnv, cfg.registries[i].tokenEnv}
      PROVE  var \in {""} \cup DOMAIN env
  <2>1. /\ i \in DOMAIN d.registries
        /\ var \in {d.registries[i].passwordEnv, d.registries[i].tokenEnv}
    BY <1>4, <1>5, <1>6
  <2>2. d.registries[i] \in ToSet(d.registries)
    BY <2>1 DEF ToSet
  <2> QED
    BY <1>1, <2>1, <2>2 DEF UnsetSecrets, IsSet
<1>9. cfg.default \in ToSet(Ids(cfg))
  <2>1. CASE cfg.default # ""
    BY <1>1, <2>1 DEF Valid
  <2>2. CASE cfg.default = ""
    <3>1. d.registries # <<>>
      <4>1. DOMAIN <<>> = {}
        OBVIOUS
      <4> QED
        BY <1>4, <1>6, <1>7, <4>1
    <3>2. e.default = ""
      BY <1>4, <1>5, <2>2
    <3>3. cfg.default = cfg.registries[1].id
      BY <1>4, <1>5, <1>6, <1>7, <3>1, <3>2
    <3> QED
      BY <1>7, <3>3 DEF Ids, ToSet
  <2> QED
    BY <2>1, <2>2
<1> QED
  BY <1>1, <1>6, <1>7, <1>8, <1>9 DEF Accepted

\* The configuration is what was made of some file and environment.
Configured == \/ config = NoFile
              \/ \E doc \in Documents, env \in Environments :
                    config = [doc |-> doc, env |-> env, cfg |-> Parse(doc, env)]

\* A configuration that was accepted is usable.
LEMMA ConfiguredIsUsable == Configured => ConfigUsable
<1> SUFFICES ASSUME Configured, config.cfg # Unset PROVE ConfigUsable
  BY DEF ConfigUsable
<1> DEFINE cfg == config.cfg
<1>1. PICK doc \in Documents, env \in Environments :
         config = [doc |-> doc, env |-> env, cfg |-> Parse(doc, env)]
  BY DEF Configured, NoFile
<1>2. config.doc = doc /\ config.env = env /\ cfg = Parse(doc, env) /\ cfg # Unset
  BY <1>1
<1> HIDE DEF cfg
<1>3. /\ Valid(cfg)
      /\ \A s \in Scalars(doc) : ~IsMissing(s, env)
      /\ DOMAIN cfg.registries = DOMAIN doc.registries /\ 1 \in DOMAIN cfg.registries
      /\ \A i \in DOMAIN cfg.registries :
            {cfg.registries[i].passwordEnv, cfg.registries[i].tokenEnv}
               \subseteq {""} \cup DOMAIN env
      /\ cfg.default \in ToSet(Ids(cfg))
  <2>1. Accepted(doc, env, cfg)
    BY <1>2, ParseFacts
  <2> QED
    BY <2>1 DEF Accepted
<1>4. ClientsMade(cfg)
  BY <1>3 DEF Valid, ValidURL, ValidAuth, ClientsMade, BaseURLAccepted
<1>5. ASSUME NEW i \in DOMAIN cfg.registries
      PROVE  /\ Places(cfg, cfg.registries[i].id) = {i} /\ cfg.registries[i].id # ""
             /\ cfg.registries[i].type = "bearer" => cfg.registries[i].token # ""
  <2>1. /\ cfg.registries[i] \in ToSet(cfg.registries)
        /\ cfg.registries[i].id \in ToSet(Ids(cfg))
    BY DEF ToSet, Ids
  <2>2. ASSUME NEW j \in DOMAIN cfg.registries, cfg.registries[j].id = cfg.registries[i].id
        PROVE  j = i
    BY <1>3, <2>2 DEF Valid, UniqueIds, Ids, IsInjective
  <2>3. Places(cfg, cfg.registries[i].id) = {i}
    BY <2>2 DEF Places
  <2> QED
    BY <1>3, <2>1, <2>3 DEF Valid, ValidAuth
<1>6. Default(cfg).id = cfg.default
  <2>1. PICK i \in DOMAIN cfg.registries : cfg.registries[i].id = cfg.default
    BY <1>3 DEF ToSet, Ids
  <2>2. Places(cfg, cfg.default) = {i}
    BY <1>5, <2>1
  <2>3. i \in Nat
    <3>1. DOMAIN doc.registries = 1 .. Len(doc.registries) /\ Len(doc.registries) \in Nat
      BY DocumentsAssumption
    <3>2. i \in DOMAIN doc.registries
      BY <1>3
    <3> QED
      BY <3>1, <3>2
  <2>4. Min({i}) = i
    BY <2>3 DEF Min
  <2> QED
    BY <2>1, <2>2, <2>4 DEF Default, Registry
<1>7. \A s \in Scalars(doc) : s.var \in {""} \cup DOMAIN env \/ s.fallback # Unset
  BY <1>3 DEF IsMissing, IsSet
<1> QED
  BY <1>2, <1>3, <1>4, <1>5, <1>6, <1>7 DEF ConfigUsable, cfg
-----------------------------------------------------------------------------
(* The inductive invariants.                                               *)

Judged == {"ok", "down"}
Entries == [state : Judged \cup {Unset}, age : 0 .. HealthTTL + 1, left : BOOLEAN]
Ages == 0 .. HealthTTL + ProbeTimeout + 1
Visits == [step : {"idle", "page", "probe", "pinged"}, registry : DOMAIN health \cup {Unset},
           age : 0 .. ProbeTimeout, left : BOOLEAN, verdict : Judged \cup {Unset}]

\* Types; health, the registries' histories and the probes are about the same
\* registries, those that are served; and nobody visits before Run.
ServingTyped ==
    /\ stage \in Stages
    /\ health \in [DOMAIN health -> Entries]
    /\ up \in [DOMAIN health -> BOOLEAN]
    /\ sinceUp \in [DOMAIN health -> Ages]
    /\ sinceDown \in [DOMAIN health -> Ages]
    /\ visit \in [Visitors -> Visits]
    /\ \A v \in Visitors : visit[v].step \in {"probe", "pinged"} => visit[v].registry \in DOMAIN health
    /\ stage \in {"ready", "running", "draining"} => DOMAIN health = Served
    /\ stage \in {"off", "configured"} => visit = [v \in Visitors |-> AtRest]
    /\ listener = "up" => stage = "running"

\* The histories tell what is so now.
HistoriesCurrent ==
    \A r \in DOMAIN health : IF up[r] THEN sinceUp[r] = 0 ELSE sinceDown[r] = 0

\* A verdict that is remembered was true when its probe asked, at most the probe's
\* timeout before it was remembered.
EntriesHonest ==
    \A r \in DOMAIN health :
        LET h == health[r]
        IN  h.state # Unset =>
               /\ h.state = "ok" => sinceUp[r] <= h.age + ProbeTimeout
               /\ h.state = "down" => sinceDown[r] <= h.age + ProbeTimeout \/ h.left

\* A verdict that is not yet remembered was true since its probe began.
ProbesHonest ==
    \A v \in Visitors :
        LET w == visit[v]
        IN  w.step = "pinged" =>
               /\ w.verdict = "ok" => sinceUp[w.registry] <= w.age
               /\ w.verdict = "down" => sinceDown[w.registry] <= w.age \/ w.left

\* A shutdown has waited for what is gone of its timeout; and only a shutdown that
\* has waited for all of it, or the failure of the listener, cuts requests off.
ShutdownTimed ==
    /\ grace \in 0 .. ShutdownTimeout /\ waited \in 0 .. ShutdownTimeout
    /\ stage = "draining" => waited + grace = ShutdownTimeout
    /\ cut # {} => /\ stage = "stopped" /\ exit = 1
                   /\ waited = ShutdownTimeout \/ listener = "failed"

\* What StopsGracefully says of the requests that are cut off.
CutOnlyAfterGrace == cut # {} => (waited >= ShutdownTimeout \/ listener = "failed") /\ exit = 1

HealthInv == ServingTyped /\ HistoriesCurrent /\ EntriesHonest /\ ProbesHonest

\* A verdict on a page is one that is remembered and not too old.
LEMMA HealthInvHonest == HealthInv => VerdictHonest
<1> SUFFICES ASSUME HealthInv, NEW r \in DOMAIN health
             PROVE  /\ Verdict(r) = "ok" => sinceUp[r] <= HealthTTL + ProbeTimeout
                    /\ Verdict(r) = "down" => \/ sinceDown[r] <= HealthTTL + ProbeTimeout
                                              \/ health[r].left
  BY DEF VerdictHonest
<1>1. /\ health[r].age \in Nat /\ sinceUp[r] \in Nat /\ sinceDown[r] \in Nat
      /\ HealthTTL \in Nat /\ ProbeTimeout \in Nat
  BY TimesAssumption DEF HealthInv, ServingTyped, Entries, Ages
<1>2. ASSUME Verdict(r) \in Judged
      PROVE  /\ health[r].state = Verdict(r) /\ health[r].state # Unset
             /\ health[r].age <= HealthTTL
  BY <1>2 DEF Verdict, Current, Judged
<1>3. CASE Verdict(r) = "ok"
  <2>1. sinceUp[r] <= health[r].age + ProbeTimeout /\ health[r].age <= HealthTTL
    BY <1>2, <1>3 DEF HealthInv, EntriesHonest, Judged
  <2> QED
    BY <1>1, <1>3, <2>1
<1>4. CASE Verdict(r) = "down"
  <2>1. \/ sinceDown[r] <= health[r].age + ProbeTimeout /\ health[r].age <= HealthTTL
        \/ health[r].left
    BY <1>2, <1>4 DEF HealthInv, EntriesHonest, Judged
  <2> QED
    BY <1>1, <1>4, <2>1
<1> QED
  BY <1>3, <1>4

-----------------------------------------------------------------------------
(* Steps.                                                                  *)

\* Nothing is remembered before the start.
LEMMA HealthInit == ServingInit => HealthInv
<1> SUFFICES ASSUME ServingInit PROVE HealthInv
  OBVIOUS
<1>1. DOMAIN health = {} /\ up = <<>> /\ sinceUp = <<>> /\ sinceDown = <<>> /\ health = <<>>
  BY DEF ServingInit
<1>2. AtRest \in Visits /\ AtRest.step = "idle"
  BY TimesAssumption DEF AtRest, Visits
<1>3. visit \in [Visitors -> Visits] /\ \A v \in Visitors : visit[v].step = "idle"
  BY <1>2 DEF ServingInit
<1> QED
  BY <1>1, <1>3 DEF ServingInit, HealthInv, ServingTyped, Stages, HistoriesCurrent, EntriesHonest,
                    ProbesHonest

\* A step of the process that leaves health and visitors alone.
LEMMA HealthKept ==
    ASSUME HealthInv, UNCHANGED <<healthVars, visit>>,
           stage' \in Stages,
           stage' \in {"ready", "running", "draining"} => DOMAIN health = Served',
           stage' \in {"off", "configured"} => stage \in {"off", "configured"},
           listener' = "up" => stage' = "running"
    PROVE  HealthInv'
<1>1. ServingTyped'
  BY DEF HealthInv, ServingTyped, healthVars, Visits
<1>2. HistoriesCurrent' /\ EntriesHonest' /\ ProbesHonest'
  BY DEF HealthInv, HistoriesCurrent, EntriesHonest, ProbesHonest, healthVars
<1> QED
  BY <1>1, <1>2 DEF HealthInv

\* The process goes on, its verdicts unchanged.
LEMMA ProcessHealth ==
    ASSUME HealthInv,
           \/ Load \/ CheckOnly \/ Run \/ AcceptFails \/ Signal \/ BeginShutdown \/ Drained
           \/ \E result \in {"up", "failed"} : Listen(result)
           \/ UNCHANGED servingVars
    PROVE  HealthInv'
<1>1. UNCHANGED <<healthVars, visit>>
  BY DEF Load, CheckOnly, Run, AcceptFails, Signal, BeginShutdown, Drained, Listen, servingVars
<1>2. /\ stage \in Stages
      /\ stage \in {"ready", "running", "draining"} => DOMAIN health = Served
      /\ listener = "up" => stage = "running"
  BY DEF HealthInv, ServingTyped
<1>3. CASE Load
  BY <1>1, <1>2, <1>3, HealthKept DEF Load, Stop, Stages
<1>4. CASE ~Load
  <2>1. Served' = Served
    BY <1>4 DEF CheckOnly, Run, AcceptFails, Signal, BeginShutdown, Drained, Listen, servingVars,
                processVars, Served
  <2>2. /\ stage' \in Stages
        /\ stage' \in {"ready", "running", "draining"} => stage \in {"ready", "running", "draining"}
        /\ stage' \in {"off", "configured"} => stage \in {"off", "configured"}
        /\ listener' = "up" => stage' = "running"
    BY <1>2, <1>4 DEF CheckOnly, Run, AcceptFails, Signal, BeginShutdown, Drained, Listen, Stop,
                      Stages, servingVars, processVars
  <2> QED
    BY <1>1, <1>2, <2>1, <2>2, HealthKept
<1> QED
  BY <1>3, <1>4
\* Visitors at rest can be anything to anyone.
LEMMA RestFacts ==
    /\ AtRest \in Visits /\ AtRest.step = "idle"
    /\ \A v \in Visitors : [w \in Visitors |-> AtRest][v] = AtRest
BY TimesAssumption DEF AtRest, Visits

\* A new server remembers nothing.
LEMMA NewHealth ==
    ASSUME HealthInv, New
    PROVE  HealthInv'
<1> DEFINE Late == HealthTTL + ProbeTimeout + 1
<1>1. Late \in Ages /\ 0 \in Ages /\ Never \in Entries
  BY TimesAssumption DEF Ages, Entries, Never
<1> HIDE DEF Late
<1>2. /\ health' = [r \in Served |-> Never] /\ DOMAIN health' = Served
      /\ up' \in [Served -> BOOLEAN]
      /\ sinceUp' = [r \in Served |-> IF up'[r] THEN 0 ELSE Late]
      /\ sinceDown' = [r \in Served |-> IF up'[r] THEN Late ELSE 0]
      /\ visit' = visit /\ listener' = listener /\ Served' = Served
      /\ stage = "configured" /\ stage' \in {"ready", "stopped"}
  BY DEF New, Stop, Served, Late
<1>3. /\ visit = [v \in Visitors |-> AtRest] /\ listener # "up"
  BY <1>2 DEF HealthInv, ServingTyped
<1>4. visit' \in [Visitors -> Visits'] /\ \A v \in Visitors : visit'[v].step = "idle"
  <2>1. AtRest \in Visits'
    BY TimesAssumption DEF AtRest, Visits
  <2> QED
    BY <1>2, <1>3, <2>1, RestFacts
<1>5. ServingTyped'
  <2>1. /\ health' \in [Served -> Entries] /\ sinceUp' \in [Served -> Ages]
        /\ sinceDown' \in [Served -> Ages]
    BY <1>1, <1>2
  <2> QED
    BY <1>2, <1>3, <1>4, <2>1 DEF ServingTyped, Stages
<1>6. HistoriesCurrent' /\ EntriesHonest' /\ ProbesHonest'
  BY <1>2, <1>4 DEF HistoriesCurrent, EntriesHonest, ProbesHonest, Never
<1> QED
  BY <1>5, <1>6 DEF HealthInv

\* A process that is started again remembers nothing.
LEMMA StartAgainHealth ==
    ASSUME HealthInv, StartAgain
    PROVE  HealthInv'
<1>1. /\ DOMAIN health' = {} /\ health' = <<>> /\ up' = <<>> /\ sinceUp' = <<>> /\ sinceDown' = <<>>
      /\ stage' = "off" /\ listener' = "none" /\ visit' = [v \in Visitors |-> AtRest]
  BY DEF StartAgain
<1>2. AtRest \in Visits'
  BY TimesAssumption DEF AtRest, Visits
<1>3. visit' \in [Visitors -> Visits'] /\ \A v \in Visitors : visit'[v].step = "idle"
  BY <1>1, <1>2, RestFacts
<1> QED
  BY <1>1, <1>3 DEF HealthInv, ServingTyped, Stages, HistoriesCurrent, EntriesHonest, ProbesHonest

\* A process that ends under its visitors ends every visit.
LEMMA CutOffHealth ==
    ASSUME HealthInv, ShutdownTimesOut \/ ListenFailed
    PROVE  HealthInv'
<1>1. /\ UNCHANGED <<health, up, sinceUp, sinceDown, listener>>
      /\ stage = "draining" \/ listener = "failed"
      /\ stage' = "stopped" /\ visit' = [v \in Visitors |-> AtRest]
  BY DEF ShutdownTimesOut, ListenFailed, CutOff, Stop, healthVars
<1>2. visit' \in [Visitors -> Visits'] /\ \A v \in Visitors : visit'[v].step = "idle"
  BY <1>1, RestFacts DEF Visits
<1>3. ServingTyped'
  BY <1>1, <1>2 DEF HealthInv, ServingTyped, Stages
<1> QED
  BY <1>1, <1>2, <1>3 DEF HealthInv, HistoriesCurrent, EntriesHonest, ProbesHonest

\* One visitor goes on, and is still honest.
LEMMA VisitHealth ==
    ASSUME HealthInv, UNCHANGED processVars, UNCHANGED <<up, sinceUp, sinceDown>>,
           \/ health' = health
           \/ /\ DOMAIN health' = DOMAIN health /\ health' \in [DOMAIN health -> Entries]
              /\ EntriesHonest',
           NEW v \in Visitors, NEW w \in Visits, visit' = [visit EXCEPT ![v] = w],
           w.step \in {"probe", "pinged"} => w.registry \in DOMAIN health,
           stage \in {"off", "configured"} => w = AtRest,
           w.step = "pinged" => /\ w.verdict = "ok" => sinceUp[w.registry] <= w.age
                                /\ w.verdict = "down" => sinceDown[w.registry] <= w.age \/ w.left
    PROVE  HealthInv'
<1>1. /\ ServingTyped /\ HistoriesCurrent /\ EntriesHonest /\ ProbesHonest
  BY DEF HealthInv
<1>2. /\ DOMAIN health' = DOMAIN health /\ health' \in [DOMAIN health -> Entries]
      /\ EntriesHonest' /\ HistoriesCurrent'
  <2>1. CASE health' = health
    BY <1>1, <2>1 DEF ServingTyped, EntriesHonest, HistoriesCurrent
  <2> QED
    BY <1>1, <2>1 DEF HistoriesCurrent
<1>3. /\ visit' \in [Visitors -> Visits] /\ Visits' = Visits
      /\ \A u \in Visitors : visit'[u] = IF u = v THEN w ELSE visit[u]
  BY <1>1, <1>2 DEF ServingTyped, Visits
<1>4. stage \in {"off", "configured"} => visit' = [u \in Visitors |-> AtRest]
  BY <1>1, <1>3 DEF ServingTyped
<1>5. ServingTyped'
  BY <1>1, <1>2, <1>3, <1>4 DEF ServingTyped, processVars, Served
<1>6. ProbesHonest'
  BY <1>1, <1>3 DEF ProbesHonest
<1> QED
  BY <1>2, <1>5, <1>6 DEF HealthInv

\* A visit begins or ends.
LEMMA VisitorHealth ==
    ASSUME HealthInv, NEW v \in Visitors, Connect(v) \/ Finish(v) \/ GoAway(v) \/ Pinged(v)
    PROVE  HealthInv'
<1> DEFINE u == visit[v]
           w == visit'[v]
<1>0. ServingTyped /\ HistoriesCurrent /\ EntriesHonest /\ ProbesHonest
  BY DEF HealthInv
<1>1. /\ UNCHANGED processVars /\ UNCHANGED <<health, up, sinceUp, sinceDown>>
  BY DEF Connect, Finish, GoAway, Pinged, healthVars
<1>2. u \in Visits
  BY <1>0 DEF ServingTyped
<1>3. /\ visit' = [visit EXCEPT ![v] = w] /\ w \in Visits
      /\ w.step \in {"probe", "pinged"} => /\ u.step = "probe" /\ w.registry = u.registry
      /\ stage \notin {"off", "configured"}
      /\ w.step = "pinged" =>
            \/ w.verdict = "ok" /\ up[u.registry]
            \/ w.verdict = "down" /\ (~up[u.registry] \/ w.left)
  <2>1. CASE Connect(v)
    BY <1>0, <1>2, <2>1 DEF Connect, ServingTyped, Visits
  <2>2. CASE Finish(v)
    BY <1>0, <1>2, <2>2, RestFacts DEF Finish, ServingTyped
  <2>3. CASE GoAway(v)
    BY <1>0, <1>2, <2>3, RestFacts DEF GoAway, ServingTyped, Visits
  <2>4. CASE Pinged(v)
    <3>1. PICK verdict \in {IF up[u.registry] THEN "ok" ELSE "down"}
                            \cup (IF u.left THEN {"down"} ELSE {}) :
             visit' = [visit EXCEPT ![v].step = "pinged", ![v].verdict = verdict]
      BY <2>4 DEF Pinged
    <3>2. /\ u.step = "probe" /\ visit \in [Visitors -> Visits]
          /\ stage \in {"off", "configured"} => u = AtRest
      BY <1>0, <2>4 DEF Pinged, ServingTyped
    <3>3. verdict \in Judged
      BY <3>1 DEF Judged
    <3>4. /\ visit' = [visit EXCEPT ![v] = w] /\ w \in Visits
          /\ w.step = "pinged" /\ w.registry = u.registry /\ w.verdict = verdict
          /\ w.left = u.left
      BY <1>2, <3>1, <3>2, <3>3 DEF Visits
    <3>5. \/ verdict = "ok" /\ up[u.registry]
          \/ verdict = "down" /\ (~up[u.registry] \/ u.left)
      BY <3>1
    <3>6. stage \notin {"off", "configured"}
      BY <3>2, RestFacts
    <3> HIDE DEF w
    <3> QED
      BY <3>2, <3>4, <3>5, <3>6
  <2> QED
    BY <2>1, <2>2, <2>3, <2>4
<1>4. u.step = "probe" => u.registry \in DOMAIN health
  BY <1>0 DEF ServingTyped
<1> HIDE DEF w
<1>5. w.step = "pinged" => /\ w.verdict = "ok" => sinceUp[w.registry] <= w.age
                           /\ w.verdict = "down" => sinceDown[w.registry] <= w.age \/ w.left
  <2> SUFFICES ASSUME w.step = "pinged"
               PROVE  /\ w.verdict = "ok" => sinceUp[w.registry] <= w.age
                      /\ w.verdict = "down" => sinceDown[w.registry] <= w.age \/ w.left
    OBVIOUS
  <2>1. w.registry \in DOMAIN health /\ w.age \in Nat /\ w.registry = u.registry
    BY <1>3, <1>4 DEF Visits
  <2>2. IF up[w.registry] THEN sinceUp[w.registry] = 0 ELSE sinceDown[w.registry] = 0
    BY <1>0, <2>1 DEF HistoriesCurrent
  <2>3. CASE w.verdict = "ok" /\ up[w.registry]
    BY <2>1, <2>2, <2>3
  <2>4. CASE w.verdict = "down" /\ (~up[w.registry] \/ w.left)
    BY <2>1, <2>2, <2>4
  <2> QED
    BY <1>3, <2>1, <2>3, <2>4
<1> QED
  BY <1>1, <1>3, <1>4, <1>5, VisitHealth

\* A probe is begun, or spared by a verdict that is young enough.
LEMMA ProbeHealth ==
    ASSUME HealthInv, NEW v \in Visitors, NEW r \in DOMAIN health, Probe(v, r)
    PROVE  HealthInv'
<1> DEFINE w == [AtRest EXCEPT !.step = "probe", !.registry = r]
<1>0. ServingTyped
  BY DEF HealthInv
<1>1. /\ UNCHANGED processVars /\ UNCHANGED <<health, up, sinceUp, sinceDown>>
      /\ listener = "up" /\ visit[v] = AtRest
  BY DEF Probe, healthVars
<1>2. w \in Visits /\ w.step = "probe" /\ w.registry = r
  BY RestFacts DEF Visits
<1>3. visit' = [visit EXCEPT ![v] = w]
  BY <1>1 DEF Probe
<1>4. stage \notin {"off", "configured"}
  BY <1>0, <1>1 DEF ServingTyped
<1> HIDE DEF w
<1> QED
  BY <1>1, <1>2, <1>3, <1>4, VisitHealth
\* A verdict is remembered.
LEMMA RememberHealth ==
    ASSUME HealthInv, NEW v \in Visitors, Remember(v)
    PROVE  HealthInv'
<1> DEFINE u == visit[v]
           entry == [state |-> u.verdict, age |-> 0, left |-> u.left]
<1>0. ServingTyped /\ EntriesHonest /\ ProbesHonest
  BY DEF HealthInv
<1>1. /\ UNCHANGED processVars /\ UNCHANGED <<up, sinceUp, sinceDown>>
      /\ u.step = "pinged"
      /\ health' = [health EXCEPT ![u.registry] = entry]
      /\ visit' = [visit EXCEPT ![v] = AtRest]
  BY DEF Remember
<1>2. u \in Visits /\ u.registry \in DOMAIN health /\ u.step # "idle"
  BY <1>0, <1>1 DEF ServingTyped
<1>3. entry \in Entries /\ entry.state = u.verdict /\ entry.age = 0 /\ entry.left = u.left
  BY <1>2, TimesAssumption DEF Visits, Entries
<1> HIDE DEF entry
<1>4. /\ DOMAIN health' = DOMAIN health /\ health' \in [DOMAIN health -> Entries]
      /\ \A r \in DOMAIN health : health'[r] = IF r = u.registry THEN entry ELSE health[r]
  BY <1>0, <1>1, <1>2, <1>3 DEF ServingTyped
<1>5. EntriesHonest'
  <2>1. /\ u.verdict = "ok" => sinceUp[u.registry] <= 0 + ProbeTimeout
        /\ u.verdict = "down" => sinceDown[u.registry] <= 0 + ProbeTimeout \/ u.left
    <3>1. /\ u.verdict = "ok" => sinceUp[u.registry] <= u.age
          /\ u.verdict = "down" => sinceDown[u.registry] <= u.age \/ u.left
      BY <1>0, <1>1 DEF ProbesHonest
    <3>2. /\ sinceUp[u.registry] \in Nat /\ sinceDown[u.registry] \in Nat
          /\ u.age \in Nat /\ u.age <= ProbeTimeout /\ ProbeTimeout \in Nat
      BY <1>0, <1>2, TimesAssumption DEF ServingTyped, Ages, Visits
    <3> HIDE DEF u
    <3> QED
      BY <3>1, <3>2
  <2>2. ASSUME NEW r \in DOMAIN health, r = u.registry, entry.state # Unset
        PROVE  /\ entry.state = "ok" => sinceUp[r] <= entry.age + ProbeTimeout
               /\ entry.state = "down" => sinceDown[r] <= entry.age + ProbeTimeout \/ entry.left
    BY <1>3, <2>1, <2>2
  <2> QED
    BY <1>0, <1>1, <1>4, <2>2 DEF EntriesHonest
<1>6. AtRest.step \notin {"probe", "pinged"} /\ AtRest \in Visits
  BY RestFacts
<1> QED
  BY <1>1, <1>4, <1>5, <1>6, VisitHealth

\* A registry comes up or goes down.
LEMMA ComesOrGoesHealth ==
    ASSUME HealthInv, NEW r \in DOMAIN up, ComesOrGoes(r)
    PROVE  HealthInv'
<1>0. ServingTyped /\ HistoriesCurrent /\ EntriesHonest /\ ProbesHonest
  BY DEF HealthInv
<1>1. /\ UNCHANGED processVars /\ UNCHANGED <<health, visit>>
      /\ up' = [up EXCEPT ![r] = ~@]
      /\ sinceUp' = [sinceUp EXCEPT ![r] = 0] /\ sinceDown' = [sinceDown EXCEPT ![r] = 0]
  BY DEF ComesOrGoes
<1>2. 0 \in Ages /\ \A n \in Ages : n \in Nat
  BY TimesAssumption DEF Ages
<1>3. /\ up' \in [DOMAIN health -> BOOLEAN]
      /\ sinceUp' \in [DOMAIN health -> Ages] /\ sinceDown' \in [DOMAIN health -> Ages]
      /\ \A q \in DOMAIN health : /\ sinceUp'[q] = IF q = r THEN 0 ELSE sinceUp[q]
                                  /\ sinceDown'[q] = IF q = r THEN 0 ELSE sinceDown[q]
                                  /\ q # r => up'[q] = up[q]
  BY <1>0, <1>1, <1>2 DEF ServingTyped
<1>4. ServingTyped'
  BY <1>0, <1>1, <1>3 DEF ServingTyped, Visits, processVars, Served
<1>5. HistoriesCurrent'
  BY <1>0, <1>1, <1>3 DEF HistoriesCurrent
<1>6. EntriesHonest'
  <2> SUFFICES ASSUME NEW q \in DOMAIN health, health[q].state # Unset
               PROVE  /\ health[q].state = "ok" => sinceUp'[q] <= health[q].age + ProbeTimeout
                      /\ health[q].state = "down" =>
                            \/ sinceDown'[q] <= health[q].age + ProbeTimeout
                            \/ health[q].left
    BY <1>1 DEF EntriesHonest
  <2>1. health[q].age \in Nat /\ ProbeTimeout \in Nat
    BY <1>0, TimesAssumption DEF ServingTyped, Entries
  <2>2. /\ health[q].state = "ok" => sinceUp[q] <= health[q].age + ProbeTimeout
        /\ health[q].state = "down" => \/ sinceDown[q] <= health[q].age + ProbeTimeout
                                       \/ health[q].left
    BY <1>0 DEF EntriesHonest
  <2> QED
    BY <1>3, <2>1, <2>2
<1>7. ProbesHonest'
  <2> SUFFICES ASSUME NEW v \in Visitors, visit[v].step = "pinged"
               PROVE  /\ visit[v].verdict = "ok" => sinceUp'[visit[v].registry] <= visit[v].age
                      /\ visit[v].verdict = "down" =>
                            \/ sinceDown'[visit[v].registry] <= visit[v].age
                            \/ visit[v].left
    BY <1>1 DEF ProbesHonest
  <2>1. visit[v].age \in Nat /\ visit[v].registry \in DOMAIN health
    BY <1>0 DEF ServingTyped, Visits
  <2>2. /\ visit[v].verdict = "ok" => sinceUp[visit[v].registry] <= visit[v].age
        /\ visit[v].verdict = "down" => \/ sinceDown[visit[v].registry] <= visit[v].age
                                        \/ visit[v].left
    BY <1>0 DEF ProbesHonest
  <2> QED
    BY <1>3, <2>1, <2>2
<1> QED
  BY <1>4, <1>5, <1>6, <1>7 DEF HealthInv

\* Time passes.
LEMMA TickHealth ==
    ASSUME HealthInv, Tick
    PROVE  HealthInv'
<1> DEFINE Cap == HealthTTL + ProbeTimeout + 1
           Busy(v) == visit[v].step \in {"probe", "pinged"}
<1>0. ServingTyped /\ HistoriesCurrent /\ EntriesHonest /\ ProbesHonest
  BY DEF HealthInv
<1>1. HealthTTL \in Nat /\ ProbeTimeout \in Nat /\ Cap \in Nat
  BY TimesAssumption
<1>2. DOMAIN health = Served
  BY <1>0 DEF ServingTyped, Tick
<1>3. /\ stage' = stage /\ listener' = listener /\ up' = up /\ Served' = Served
      /\ \A v \in Visitors : Busy(v) => visit[v].age < ProbeTimeout
      /\ visit' = [v \in Visitors |-> IF Busy(v) THEN [visit[v] EXCEPT !.age = @ + 1] ELSE visit[v]]
      /\ health' = [r \in DOMAIN health |-> [health[r] EXCEPT
                      !.age = IF health[r].state = Unset THEN 0 ELSE UpTo(HealthTTL + 1, @ + 1)]]
      /\ sinceUp' = [r \in DOMAIN health |-> IF up[r] THEN 0 ELSE UpTo(Cap, sinceUp[r] + 1)]
      /\ sinceDown' = [r \in DOMAIN health |-> IF ~up[r] THEN 0 ELSE UpTo(Cap, sinceDown[r] + 1)]
  BY <1>2 DEF Tick, Served
<1>4. \A bound, n \in Nat : /\ UpTo(bound, n + 1) \in 0 .. bound
                            /\ UpTo(bound, n + 1) <= n + 1
                            /\ UpTo(bound, n + 1) = n + 1 \/ UpTo(bound, n + 1) = bound
  BY DEF UpTo
<1> HIDE DEF Cap, Busy
<1>5. ASSUME NEW r \in DOMAIN health
      PROVE  /\ health[r] \in Entries /\ health'[r] \in Entries
             /\ health'[r].state = health[r].state /\ health'[r].left = health[r].left
             /\ health[r].state # Unset => \/ health'[r].age = health[r].age + 1
                                           \/ health'[r].age = HealthTTL + 1
             /\ sinceUp[r] \in Nat /\ sinceUp'[r] \in Nat
             /\ sinceUp'[r] <= Cap /\ sinceUp'[r] <= sinceUp[r] + 1
             /\ sinceDown[r] \in Nat /\ sinceDown'[r] \in Nat
             /\ sinceDown'[r] <= Cap /\ sinceDown'[r] <= sinceDown[r] + 1
  <2>1. health[r] \in Entries /\ sinceUp[r] \in Nat /\ sinceDown[r] \in Nat
    BY <1>0 DEF ServingTyped, Ages
  <2>2. health[r].age \in Nat
    BY <2>1 DEF Entries
  <2>3. /\ UpTo(HealthTTL + 1, health[r].age + 1) \in 0 .. HealthTTL + 1
        /\ \/ UpTo(HealthTTL + 1, health[r].age + 1) = health[r].age + 1
           \/ UpTo(HealthTTL + 1, health[r].age + 1) = HealthTTL + 1
    BY <1>1, <1>4, <2>2
  <2>4. /\ health'[r] \in Entries
        /\ health'[r].state = health[r].state /\ health'[r].left = health[r].left
        /\ health[r].state # Unset => \/ health'[r].age = health[r].age + 1
                                      \/ health'[r].age = HealthTTL + 1
    BY <1>1, <1>3, <2>1, <2>3 DEF Entries
  <2>5. /\ UpTo(Cap, sinceUp[r] + 1) \in 0 .. Cap /\ UpTo(Cap, sinceUp[r] + 1) <= sinceUp[r] + 1
        /\ UpTo(Cap, sinceDown[r] + 1) \in 0 .. Cap
        /\ UpTo(Cap, sinceDown[r] + 1) <= sinceDown[r] + 1
    BY <1>1, <1>4, <2>1
  <2> QED
    BY <1>1, <1>3, <2>1, <2>4, <2>5
<1>6. ASSUME NEW v \in Visitors
      PROVE  /\ visit'[v] \in Visits /\ visit[v].age \in Nat
             /\ visit'[v].step = visit[v].step /\ visit'[v].registry = visit[v].registry
             /\ visit'[v].verdict = visit[v].verdict /\ visit'[v].left = visit[v].left
             /\ Busy(v) => visit'[v].age = visit[v].age + 1
  <2>1. visit[v] \in Visits
    BY <1>0 DEF ServingTyped
  <2>2. CASE Busy(v)
    BY <1>1, <1>3, <2>1, <2>2 DEF Visits
  <2>3. CASE ~Busy(v)
    BY <1>3, <2>1, <2>3 DEF Visits
  <2> QED
    BY <2>2, <2>3
<1>7. ServingTyped'
  <2>1. /\ DOMAIN health' = DOMAIN health /\ health' \in [DOMAIN health -> Entries]
        /\ sinceUp' \in [DOMAIN health -> Ages] /\ sinceDown' \in [DOMAIN health -> Ages]
    <3>1. \A n \in Nat : n <= Cap => n \in Ages
      BY <1>1 DEF Ages, Cap
    <3>2. \A r \in DOMAIN health : /\ health'[r] \in Entries
                                   /\ sinceUp'[r] \in Ages /\ sinceDown'[r] \in Ages
      BY <1>5, <3>1
    <3> QED
      BY <1>3, <3>2
  <2>2. visit' \in [Visitors -> Visits] /\ Visits' = Visits
    BY <1>3, <1>6, <2>1 DEF Visits
  <2>3. stage \notin {"off", "configured"}
    BY DEF Tick
  <2> QED
    BY <1>0, <1>3, <1>6, <2>1, <2>2, <2>3 DEF ServingTyped
<1>8. DOMAIN health' = DOMAIN health
  BY <1>3
<1>9. HistoriesCurrent'
  BY <1>3, <1>8 DEF HistoriesCurrent
<1>10. EntriesHonest'
  <2> SUFFICES ASSUME NEW r \in DOMAIN health, health'[r].state # Unset
               PROVE  /\ health'[r].state = "ok" => sinceUp'[r] <= health'[r].age + ProbeTimeout
                      /\ health'[r].state = "down" =>
                            \/ sinceDown'[r] <= health'[r].age + ProbeTimeout
                            \/ health'[r].left
    BY <1>8 DEF EntriesHonest
  <2>1. /\ health[r].state = "ok" => sinceUp[r] <= health[r].age + ProbeTimeout
        /\ health[r].state = "down" => \/ sinceDown[r] <= health[r].age + ProbeTimeout
                                       \/ health[r].left
    BY <1>0, <1>5 DEF EntriesHonest
  <2>2. health[r].age \in Nat
    BY <1>5 DEF Entries
  <2> QED
    BY <1>1, <1>5, <2>1, <2>2 DEF Cap
<1>11. ProbesHonest'
  <2> SUFFICES ASSUME NEW v \in Visitors, visit'[v].step = "pinged"
               PROVE  /\ visit'[v].verdict = "ok" => sinceUp'[visit'[v].registry] <= visit'[v].age
                      /\ visit'[v].verdict = "down" =>
                            \/ sinceDown'[visit'[v].registry] <= visit'[v].age
                            \/ visit'[v].left
    BY DEF ProbesHonest
  <2>1. Busy(v) /\ visit[v].step = "pinged" /\ visit[v].registry \in DOMAIN health
    BY <1>0, <1>6 DEF ServingTyped, Busy
  <2>2. /\ visit[v].verdict = "ok" => sinceUp[visit[v].registry] <= visit[v].age
        /\ visit[v].verdict = "down" => \/ sinceDown[visit[v].registry] <= visit[v].age
                                        \/ visit[v].left
    BY <1>0, <2>1 DEF ProbesHonest
  <2>3. /\ sinceUp[visit[v].registry] \in Nat /\ sinceUp'[visit[v].registry] \in Nat
        /\ sinceUp'[visit[v].registry] <= sinceUp[visit[v].registry] + 1
        /\ sinceDown[visit[v].registry] \in Nat /\ sinceDown'[visit[v].registry] \in Nat
        /\ sinceDown'[visit[v].registry] <= sinceDown[visit[v].registry] + 1
    BY <1>5, <2>1
  <2> QED
    BY <1>6, <2>1, <2>2, <2>3
<1> QED
  BY <1>7, <1>9, <1>10, <1>11 DEF HealthInv
\* Every step keeps verdicts honest.
LEMMA HealthStep == HealthInv /\ [ServingNext]_servingVars => HealthInv'
<1> SUFFICES ASSUME HealthInv, [ServingNext]_servingVars PROVE HealthInv'
  OBVIOUS
<1>1. CASE \/ Load \/ CheckOnly \/ Run \/ AcceptFails \/ Signal \/ BeginShutdown \/ Drained
           \/ \E result \in {"up", "failed"} : Listen(result)
           \/ UNCHANGED servingVars
  BY <1>1, ProcessHealth
<1>2. CASE New
  BY <1>2, NewHealth
<1>3. CASE ShutdownTimesOut \/ ListenFailed
  BY <1>3, CutOffHealth
<1>4. CASE StartAgain
  BY <1>4, StartAgainHealth
<1>5. ASSUME NEW v \in Visitors, Connect(v) \/ Finish(v) \/ GoAway(v) \/ ProbeGoesOn(v)
      PROVE  HealthInv'
  BY <1>5, VisitorHealth, RememberHealth DEF ProbeGoesOn
<1>6. ASSUME NEW v \in Visitors, NEW r \in DOMAIN health, Probe(v, r) PROVE HealthInv'
  BY <1>6, ProbeHealth
<1>7. ASSUME NEW r \in DOMAIN up, ComesOrGoes(r) PROVE HealthInv'
  BY <1>7, ComesOrGoesHealth
<1>8. CASE Tick
  BY <1>8, TickHealth
<1> QED
  BY <1>1, <1>2, <1>3, <1>4, <1>5, <1>6, <1>7, <1>8 DEF ServingNext, Starts, Stops

\* Time is taken off the shutdown's timeout only.
LEMMA TimedStep == ShutdownTimed /\ [ServingNext]_servingVars => ShutdownTimed'
<1> SUFFICES ASSUME ShutdownTimed, [ServingNext]_servingVars PROVE ShutdownTimed'
  OBVIOUS
<1>0. ShutdownTimeout \in Nat /\ grace \in 0 .. ShutdownTimeout /\ waited \in 0 .. ShutdownTimeout
  BY TimesAssumption DEF ShutdownTimed
<1>1. CASE BeginShutdown
  BY <1>0, <1>1 DEF ShutdownTimed, BeginShutdown, Grace
<1>2. CASE ShutdownTimesOut
  BY <1>0, <1>2 DEF ShutdownTimed, ShutdownTimesOut, CutOff, Stop
<1>3. CASE StartAgain
  BY <1>0, <1>3 DEF ShutdownTimed, StartAgain
<1>4. CASE Tick
  <2>1. grace' = IF grace > 0 THEN grace - 1 ELSE 0
    BY <1>4 DEF Tick
  <2>2. waited' = IF stage = "draining" THEN UpTo(ShutdownTimeout, waited + 1) ELSE waited
    BY <1>4 DEF Tick
  <2>3. stage' = stage /\ cut' = cut /\ exit' = exit /\ stage # "stopped"
    BY <1>4 DEF Tick
  <2> QED
    BY <1>0, <2>1, <2>2, <2>3 DEF ShutdownTimed, UpTo
<1>5. CASE \/ Load \/ CheckOnly \/ New \/ Run \/ Drained
           \/ \E result \in {"up", "failed"} : Listen(result)
           \/ AcceptFails
  <2>1. UNCHANGED <<grace, waited, cut>> /\ stage' # "draining" /\ stage # "stopped"
    BY <1>5 DEF Load, CheckOnly, New, Run, Drained, Listen, AcceptFails, Stop
  <2> QED
    BY <2>1 DEF ShutdownTimed
<1>7. CASE ListenFailed
  BY <1>7 DEF ShutdownTimed, ListenFailed, CutOff, Stop
<1>6. CASE \/ Signal
           \/ \E v \in Visitors : Connect(v) \/ Finish(v) \/ GoAway(v) \/ ProbeGoesOn(v)
           \/ \E v \in Visitors, r \in DOMAIN health : Probe(v, r)
           \/ \E r \in DOMAIN up : ComesOrGoes(r)
           \/ UNCHANGED servingVars
  <2>1. UNCHANGED <<grace, waited, cut, stage, exit, listener>>
    BY <1>6 DEF Signal, Connect, Finish, GoAway, ProbeGoesOn, Pinged, Remember, Probe, ComesOrGoes,
                servingVars, processVars
  <2> QED
    BY <2>1 DEF ShutdownTimed
<1> QED
  BY <1>1, <1>2, <1>3, <1>4, <1>5, <1>6, <1>7 DEF ServingNext, Starts, Stops

\* Only Load makes a configuration.
LEMMA ConfiguredStep == Configured /\ [ServingNext]_servingVars => Configured'
<1> SUFFICES ASSUME Configured, [ServingNext]_servingVars PROVE Configured'
  OBVIOUS
<1>1. CASE Load
  BY <1>1 DEF Load, Configured
<1>2. CASE StartAgain
  BY <1>2 DEF StartAgain, Configured
<1>3. CASE ~Load /\ ~StartAgain
  <2>1. config' = config
    BY <1>3 DEF ServingNext, Starts, Stops, Signal, Connect, Finish, GoAway, ProbeGoesOn, Pinged,
                Remember, Probe, ComesOrGoes, CheckOnly, New, Run, ListenFailed, Drained, Listen, AcceptFails,
                BeginShutdown, ShutdownTimesOut, Tick, servingVars, processVars
  <2> QED
    BY <2>1 DEF Configured
<1> QED
  BY <1>1, <1>2, <1>3

-----------------------------------------------------------------------------
(* The theorems.                                                           *)

\* Every variable of the health cache and of requests keeps its type.
THEOREM ServingIsTyped == ServingSpec => []ServingTyped
<1>1. HealthInv => ServingTyped
  BY DEF HealthInv
<1> QED
  BY <1>1, HealthInit, HealthStep, PTL DEF ServingSpec

\* What a page says of a registry was so at some moment of the verdict's lifetime
\* and its probe, but for a visitor who went away (server.go:220-235,
\* handlers.go:571-586, 687-689).
THEOREM ServingVerdictHonest == ServingSpec => []VerdictHonest
BY HealthInit, HealthStep, HealthInvHonest, PTL DEF ServingSpec

\* The process cuts a request off only after the shutdown's timeout, or when its
\* listener fails, and says so by its exit status (server.go:183-199).
THEOREM ServingCutsAfterGrace == ServingSpec => []CutOnlyAfterGrace
<1>1. ServingInit => ShutdownTimed
  BY TimesAssumption DEF ServingInit, ShutdownTimed
<1>2. ShutdownTimed => CutOnlyAfterGrace
  BY TimesAssumption DEF ShutdownTimed, CutOnlyAfterGrace
<1> QED
  BY <1>1, <1>2, TimedStep, PTL DEF ServingSpec

\* A configuration that is accepted can be served: for all files, environments and
\* names (config.go:122-164, 218-372; client.go:106-116, 165-191).
THEOREM ServingConfigUsable == ServingSpec => []ConfigUsable
<1>1. ServingInit => Configured
  BY DEF ServingInit, Configured
<1> QED
  BY <1>1, ConfiguredStep, ConfiguredIsUsable, PTL DEF ServingSpec

-----------------------------------------------------------------------------
(* Responses.                                                              *)

\* The first status counts.
Sent(r, status) == IF r.status = 0 THEN status ELSE r.status

\* r becomes s and says, with the texts given, what it said before.
SaysMore(r, s, texts) == \A t : Says(s, t) <=> Says(r, t) \/ t \in texts

\* A response while its handler writes: the gzip writer has decided with the first
\* status, and what was sent and written since is as it decided.
Sound(r) ==
    /\ r.wrote <=> r.offers /\ r.status # 0
    /\ r.status = 0 => r.header.encoding = None /\ r.body = <<>> /\ r.gz = None
    /\ r.passing <=> r.wrote /\ r.gz = None
    /\ r.gz # None => r.wrote /\ r.sent.encoding = "gzip" /\ r.sent.length = None
    /\ r.gz = None => r.sent.encoding = None
    /\ \A i \in DOMAIN r.body : r.body[i].form = IF r.gz = None THEN "raw" ELSE "gzip"

\* What a handler writes.
Said == {Content, Banner, Error}

-----------------------------------------------------------------------------
(* net/http.                                                               *)

\* What net/http does with a status.
LEMMA NetWriteHeaderFacts ==
    ASSUME NEW r \in Answers, NEW status \in Status,
           NEW s, s = NetWriteHeader(r, status)
    PROVE  /\ s \in Answers
           /\ s.status = Sent(r, status)
           /\ s.header = r.header /\ s.body = r.body /\ s.offers = r.offers /\ s.wrote = r.wrote
           /\ s.passing = r.passing /\ s.gz = r.gz /\ s.recorded = r.recorded
           /\ s.sent = IF r.status = 0 THEN r.header ELSE r.sent
BY DEF NetWriteHeader, Answers, Sent

\* What is in a body once a chunk is written.
LEMMA AppendFacts ==
    ASSUME NEW r \in Answers, NEW s \in Answers, NEW chunk \in Chunks,
           s.body = Append(r.body, chunk)
    PROVE  /\ SaysMore(r, s, {chunk.text})
           /\ Len(r.body) \in Nat /\ Len(s.body) = Len(r.body) + 1
           /\ s.body # <<>> /\ s.body[Len(s.body)] = chunk
           /\ \A i \in DOMAIN r.body : s.body[i] = r.body[i]
           /\ DOMAIN r.body = 1 .. Len(r.body)
           /\ DOMAIN s.body = DOMAIN r.body \cup {Len(s.body)}
<1>1. r.body \in Seq(Chunks) /\ s.body \in Seq(Chunks)
  BY DEF Answers
<1>2. /\ Len(r.body) \in Nat /\ Len(s.body) = Len(r.body) + 1
      /\ s.body[Len(r.body) + 1] = chunk
  BY <1>1
<1>3. \A i \in DOMAIN r.body : i \in DOMAIN s.body /\ s.body[i] = r.body[i]
  BY <1>1
<1>4. /\ DOMAIN r.body = 1 .. Len(r.body)
      /\ DOMAIN s.body = DOMAIN r.body \cup {Len(s.body)}
  BY <1>1, <1>2
<1>5. s.body # <<>>
  <2>1. Len(s.body) # 0
    BY <1>2
  <2>2. Len(<<>>) = 0
    OBVIOUS
  <2> QED
    BY <2>1, <2>2
<1> QED
  BY <1>2, <1>3, <1>4, <1>5 DEF SaysMore, Says

\* What net/http does with a chunk.
LEMMA NetWriteFacts ==
    ASSUME NEW r \in Answers, NEW chunk \in Chunks,
           NEW s, s = NetWrite(r, chunk)
    PROVE  /\ s \in Answers
           /\ s.status = Sent(r, 200)
           /\ s.header = r.header /\ s.offers = r.offers /\ s.wrote = r.wrote
           /\ s.passing = r.passing /\ s.gz = r.gz /\ s.recorded = r.recorded
           /\ s.body = Append(r.body, chunk)
           /\ s.sent.encoding = IF r.status = 0 THEN r.header.encoding ELSE r.sent.encoding
           /\ s.sent.length = IF r.status = 0 THEN r.header.length ELSE r.sent.length
<1> DEFINE h == NetWriteHeader(r, 200)
<1>1. /\ h \in Answers
      /\ h.status = Sent(r, 200)
      /\ h.header = r.header /\ h.body = r.body /\ h.offers = r.offers /\ h.wrote = r.wrote
      /\ h.passing = r.passing /\ h.gz = r.gz /\ h.recorded = r.recorded
      /\ h.sent = IF r.status = 0 THEN r.header ELSE r.sent
  BY NetWriteHeaderFacts DEF Status
<1> HIDE DEF h
<1>2. /\ Sniffed(h.sent) \in Headers
      /\ Sniffed(h.sent).encoding = h.sent.encoding /\ Sniffed(h.sent).length = h.sent.length
  BY <1>1 DEF Sniffed, Answers, Headers, Types
<1>3. s = [h EXCEPT !.body = Append(@, chunk), !.sent = Sniffed(@)]
  BY DEF NetWrite, h
<1>4. Append(h.body, chunk) \in Seq(Chunks)
  BY <1>1 DEF Answers
<1>5. /\ s \in Answers
      /\ s.status = h.status /\ s.header = h.header /\ s.offers = h.offers /\ s.wrote = h.wrote
      /\ s.passing = h.passing /\ s.gz = h.gz /\ s.recorded = h.recorded
      /\ s.body = Append(h.body, chunk)
      /\ s.sent = Sniffed(h.sent)
  <2>1. s \in Answers
    BY <1>1, <1>2, <1>3, <1>4 DEF Answers
  <2>2. s.body = Append(h.body, chunk) /\ s.sent = Sniffed(h.sent)
    BY <1>1, <1>3 DEF Answers
  <2> QED
    BY <1>1, <1>3, <2>1, <2>2 DEF Answers
<1> QED
  BY <1>1, <1>2, <1>5

\* What the recorder does with a status.
LEMMA RecorderWriteHeaderFacts ==
    ASSUME NEW r \in Answers, NEW status \in Status,
           NEW s, s = RecorderWriteHeader(r, status)
    PROVE  /\ s \in Answers
           /\ s.status = Sent(r, status) /\ s.recorded = status
           /\ s.header = r.header /\ s.body = r.body /\ s.offers = r.offers /\ s.wrote = r.wrote
           /\ s.passing = r.passing /\ s.gz = r.gz
           /\ s.sent = IF r.status = 0 THEN r.header ELSE r.sent
<1> DEFINE q == [r EXCEPT !.recorded = status]
<1>1. /\ q \in Answers /\ q.recorded = status /\ q.status = r.status
      /\ q.header = r.header /\ q.body = r.body /\ q.offers = r.offers /\ q.wrote = r.wrote
      /\ q.passing = r.passing /\ q.gz = r.gz /\ q.sent = r.sent
  BY DEF Answers
<1> HIDE DEF q
<1>2. s = NetWriteHeader(q, status)
  BY DEF RecorderWriteHeader, q
<1> QED
  BY <1>1, <1>2, NetWriteHeaderFacts DEF Sent

-----------------------------------------------------------------------------
(* The layers that a handler writes to.                                    *)

\* What r becomes with a status, which decides or comes too late.
Headed(r, s, status, e) ==
    /\ s \in Answers /\ Sound(s)
    /\ s.status = Sent(r, status)
    /\ s.body = r.body /\ s.offers = r.offers
    /\ r.status # 0 => s.gz = r.gz /\ s.sent = r.sent
    /\ r.status = 0 => s.gz \in {None, e} /\ s.sent.length \in {None, r.header.length}
    /\ s.recorded = IF r.offers /\ r.status # 0 THEN r.recorded ELSE status

\* The status is set once, with an encoder only for what may be compressed.
LEMMA WriteHeaderFacts ==
    ASSUME NEW r \in Answers, Sound(r), NEW status \in Status \ {0}, NEW e \in Encoders
    PROVE  Headed(r, WriteHeader(r, status, e), status, e)
<1> DEFINE s == WriteHeader(r, status, e)
<1> USE DEF Headed
<1>0. e # None /\ None # "gzip" /\ status # 0 /\ status \in Status
  BY NoneAssumption
<1>1. CASE ~r.offers
  <2>1. s = RecorderWriteHeader(r, status)
    BY <1>1 DEF WriteHeader
  <2>2. /\ s \in Answers /\ s.status = Sent(r, status) /\ s.recorded = status
        /\ s.header = r.header /\ s.body = r.body /\ s.offers = r.offers /\ s.wrote = r.wrote
        /\ s.passing = r.passing /\ s.gz = r.gz
        /\ s.sent = IF r.status = 0 THEN r.header ELSE r.sent
    BY <2>1, RecorderWriteHeaderFacts DEF Status
  <2> HIDE DEF s
  <2>3. Sound(s)
    BY <1>0, <1>1, <2>2 DEF Sound, Sent
  <2>4. r.status # 0 => s.gz = r.gz /\ s.sent = r.sent
    BY <2>2
  <2>5. r.status = 0 => s.gz = None /\ s.sent.length = r.header.length
    BY <2>2 DEF Sound
  <2>6. Headed(r, s, status, e)
    BY <1>1, <2>2, <2>3, <2>4, <2>5
  <2> QED
    BY <2>6 DEF s
<1>2. CASE r.offers /\ r.status # 0
  BY <1>2 DEF WriteHeader, GzipWriteHeader, Sound, Sent
<1>3. CASE r.offers /\ r.status = 0 /\ Passes(r.header)
  <2> DEFINE q == [r EXCEPT !.wrote = TRUE, !.passing = TRUE]
  <2>1. /\ q \in Answers /\ q.wrote /\ q.passing /\ q.status = r.status /\ q.offers = r.offers
        /\ q.body = r.body /\ q.header = r.header /\ q.gz = r.gz
    BY DEF Answers
  <2>2. s = RecorderWriteHeader(q, status)
    BY <1>3 DEF WriteHeader, GzipWriteHeader, Sound
  <2> HIDE DEF q
  <2>3. /\ s \in Answers /\ s.status = status /\ s.recorded = status
        /\ s.body = r.body /\ s.offers /\ s.wrote /\ s.passing /\ s.gz = r.gz
        /\ s.sent = r.header
    <3>0. q \in Answers
      BY <2>1
    <3>1. /\ s \in Answers /\ s.status = Sent(q, status) /\ s.recorded = status
          /\ s.header = q.header /\ s.body = q.body /\ s.offers = q.offers /\ s.wrote = q.wrote
          /\ s.passing = q.passing /\ s.gz = q.gz
          /\ s.sent = IF q.status = 0 THEN q.header ELSE q.sent
      BY <1>0, <3>0, <2>2, RecorderWriteHeaderFacts
    <3> QED
      BY <1>3, <2>1, <3>1, Zenon DEF Sent
  <2>4. r.gz = None /\ r.body = <<>> /\ r.header.encoding = None
    BY <1>3 DEF Sound
  <2>5. Sound(s)
    BY <1>0, <1>3, <2>3, <2>4 DEF Sound
  <2> QED
    BY <1>3, <2>3, <2>4, <2>5 DEF Sent
<1>4. CASE r.offers /\ r.status = 0 /\ ~Passes(r.header)
  <2> DEFINE q == [r EXCEPT !.wrote = TRUE, !.gz = e, !.header = CompressedHeader(@)]
  <2>0. /\ CompressedHeader(r.header) \in Headers
        /\ CompressedHeader(r.header).encoding = "gzip" /\ CompressedHeader(r.header).length = None
    BY DEF CompressedHeader, Answers, Headers
  <2>1. /\ q \in Answers /\ q.wrote /\ q.passing = r.passing /\ q.status = r.status
        /\ q.offers = r.offers /\ q.body = r.body /\ q.gz = e
        /\ q.header.encoding = "gzip" /\ q.header.length = None
    BY <2>0 DEF Answers
  <2>2. s = RecorderWriteHeader(q, status)
    BY <1>4 DEF WriteHeader, GzipWriteHeader, Sound
  <2> HIDE DEF q
  <2>3. /\ s \in Answers /\ s.status = status /\ s.recorded = status
        /\ s.body = r.body /\ s.offers /\ s.wrote /\ s.passing = r.passing /\ s.gz = e
        /\ s.sent.encoding = "gzip" /\ s.sent.length = None
    <3>0. q \in Answers
      BY <2>1
    <3>1. /\ s \in Answers /\ s.status = Sent(q, status) /\ s.recorded = status
          /\ s.header = q.header /\ s.body = q.body /\ s.offers = q.offers /\ s.wrote = q.wrote
          /\ s.passing = q.passing /\ s.gz = q.gz
          /\ s.sent = IF q.status = 0 THEN q.header ELSE q.sent
      BY <1>0, <3>0, <2>2, RecorderWriteHeaderFacts
    <3> QED
      BY <1>4, <2>1, <3>1, Zenon DEF Sent
  <2>4. ~r.passing /\ r.body = <<>>
    BY <1>4 DEF Sound
  <2>5. Sound(s)
    BY <1>0, <1>4, <2>3, <2>4 DEF Sound
  <2> QED
    BY <1>4, <2>3, <2>4, <2>5 DEF Sent
<1> QED
  BY <1>1, <1>2, <1>3, <1>4

\* What r becomes with a chunk, which goes through the encoder, or not, as was
\* decided with the status; or decides that itself.
Written(r, s, chunk, e) ==
    /\ s \in Answers /\ Sound(s)
    /\ s.status = Sent(r, 200) /\ s.status # 0
    /\ SaysMore(r, s, {chunk.text})
    /\ Len(s.body) = Len(r.body) + 1
    /\ s.offers = r.offers
    /\ r.status # 0 => s.gz = r.gz /\ s.sent.length = r.sent.length
    /\ r.status = 0 => s.gz \in {None, e} /\ s.sent.length \in {None, r.header.length}
    /\ s.recorded = IF r.offers /\ r.status = 0 THEN 200 ELSE r.recorded

\* A write sends the status first, and the bytes where the status says.
LEMMA WriteFacts ==
    ASSUME NEW r \in Answers, Sound(r), NEW chunk \in Said,
           NEW e \in Encoders \cup {None}, r.status # 0 \/ e # None
    PROVE  Written(r, Write(r, chunk, e), chunk, e)
<1> DEFINE s == Write(r, chunk, e)
<1> DEFINE x == [r EXCEPT !.header = Sniffed(@)]
           h == IF ~r.offers \/ r.status # 0 THEN r ELSE WriteHeader(x, 200, e)
           c == IF h.gz = None THEN chunk ELSE Compressed(chunk)
<1>1. /\ Sniffed(r.header) \in Headers
      /\ Sniffed(r.header).length = r.header.length
      /\ r.header.encoding = None => Sniffed(r.header).encoding = None
  BY DEF Sniffed, Answers, Headers, Types
<1>2. /\ x \in Answers /\ x.header = Sniffed(r.header) /\ x.status = r.status /\ x.sent = r.sent
      /\ x.body = r.body /\ x.offers = r.offers /\ x.wrote = r.wrote /\ x.passing = r.passing
      /\ x.gz = r.gz /\ x.recorded = r.recorded
  BY <1>1 DEF Answers
<1>3. Sound(x)
  <2> HIDE DEF x
  <2> QED
    BY <1>1, <1>2 DEF Sound
<1> HIDE DEF x
<1>4. /\ h \in Answers /\ Sound(h)
      /\ h.body = r.body /\ h.offers = r.offers
      /\ h.status = IF r.offers THEN Sent(r, 200) ELSE r.status
      /\ r.status # 0 => h.gz = r.gz /\ h.sent = r.sent
      /\ r.status = 0 => h.gz \in {None, e}
      /\ r.status = 0 /\ r.offers => h.sent.length \in {None, r.header.length}
      /\ h.recorded = IF r.offers /\ r.status = 0 THEN 200 ELSE r.recorded
  <2>1. CASE ~r.offers \/ r.status # 0
    BY <2>1 DEF Sound, Sent
  <2>2. CASE r.offers /\ r.status = 0
    <3>1. 200 \in Status \ {0} /\ e \in Encoders
      BY <2>2 DEF Status
    <3>2. h = WriteHeader(x, 200, e)
      BY <2>2
    <3> HIDE DEF h
    <3> QED
      <4>1. Headed(x, h, 200, e)
        <5>1. x \in Answers
          BY <1>2
        <5> QED
          BY <1>3, <3>1, <3>2, <5>1, WriteHeaderFacts
      <4> USE DEF Headed
      <4>2. h.recorded = 200 /\ h.status = Sent(r, 200) /\ h.body = r.body /\ h.offers = r.offers
        BY <1>2, <2>2, <4>1 DEF Sent
      <4>3. h.gz \in {None, e} /\ h.sent.length \in {None, r.header.length}
        BY <1>1, <1>2, <2>2, <4>1
      <4> QED
        BY <2>2, <4>1, <4>2, <4>3
  <2> QED
    BY <2>1, <2>2
<1>5. s = NetWrite(h, c)
  <2>1. CASE ~r.offers
    BY <2>1 DEF Write, Sound
  <2>2. CASE r.offers /\ r.status # 0
    BY <2>2 DEF Write, GzipWrite, Sound
  <2>3. CASE r.offers /\ r.status = 0
    <3>1. h = GzipWriteHeader(x, 200, e) /\ h.offers /\ h.status # 0
      <4>1. h = WriteHeader(x, 200, e) /\ x.offers = r.offers
        BY <1>2, <2>3
      <4>2. h.offers = r.offers /\ h.status = 200
        BY ZenonT(30), <1>4, <2>3 DEF Sent
      <4> HIDE DEF h
      <4>3. x.offers
        BY <2>3, <4>1
      <4>4. h.offers
        BY <2>3, <4>2
      <4> QED
        BY <4>1, <4>2, <4>3, <4>4 DEF WriteHeader
    <3>2. h.passing <=> h.gz = None
      <4> HIDE DEF h
      <4> QED
        BY <1>4, <3>1 DEF Sound
    <3>3. s = NetWrite(h, IF h.passing THEN chunk ELSE Compressed(chunk))
      <4>1. ~r.wrote
        BY <2>3 DEF Sound
      <4> QED
        BY <2>3, <3>1, <4>1 DEF Write, GzipWrite, x
    <3> QED
      BY <3>2, <3>3
  <2> QED
    BY <2>1, <2>2, <2>3
<1>6. /\ c \in Chunks /\ c.text = chunk.text /\ c.form = IF h.gz = None THEN "raw" ELSE "gzip"
  BY DEF Said, Content, Banner, Error, Compressed, Chunks
<1> HIDE DEF h, c
<1>7. /\ s \in Answers
      /\ s.status = Sent(h, 200)
      /\ s.header = h.header /\ s.offers = h.offers /\ s.wrote = h.wrote
      /\ s.passing = h.passing /\ s.gz = h.gz /\ s.recorded = h.recorded
      /\ s.body = Append(h.body, c)
      /\ s.sent.encoding = IF h.status = 0 THEN h.header.encoding ELSE h.sent.encoding
      /\ s.sent.length = IF h.status = 0 THEN h.header.length ELSE h.sent.length
  BY <1>4, <1>5, <1>6, NetWriteFacts, SMTT(30)
<1>8. /\ SaysMore(r, s, {chunk.text})
      /\ Len(s.body) = Len(r.body) + 1
      /\ \A i \in DOMAIN s.body : \/ i \in DOMAIN h.body /\ s.body[i] = h.body[i]
                                  \/ s.body[i] = c
  <2>1. /\ SaysMore(h, s, {c.text}) /\ Len(s.body) = Len(h.body) + 1
        /\ s.body[Len(s.body)] = c
        /\ \A i \in DOMAIN h.body : s.body[i] = h.body[i]
        /\ DOMAIN s.body = DOMAIN h.body \cup {Len(s.body)}
    BY <1>4, <1>6, <1>7, AppendFacts
  <2> QED
    BY <1>4, <1>6, <2>1 DEF SaysMore, Says
<1>9. /\ s.status # 0
      /\ s.gz = None => s.sent.encoding = None
      /\ s.wrote <=> s.offers
      /\ s.passing <=> s.wrote /\ s.gz = None
      /\ s.gz # None => s.wrote /\ s.sent.encoding = "gzip" /\ s.sent.length = None
  <2>1. s.status # 0 /\ (h.status = 0 => ~h.offers)
    BY <1>4, <1>7 DEF Sent
  <2> QED
    BY <1>4, <1>7, <2>1 DEF Sound
<1>10. \A i \in DOMAIN s.body : s.body[i].form = IF s.gz = None THEN "raw" ELSE "gzip"
  BY <1>4, <1>6, <1>7, <1>8 DEF Sound
<1>11. Sound(s)
  BY <1>9, <1>10 DEF Sound
<1>12. s.status = Sent(r, 200)
  BY <1>4, <1>7 DEF Sent
<1>13. /\ s.offers = r.offers
       /\ r.status # 0 => s.gz = r.gz /\ s.sent.length = r.sent.length
       /\ r.status = 0 => s.gz \in {None, e} /\ s.sent.length \in {None, r.header.length}
  <2>1. CASE r.status # 0
    BY <1>4, <1>7, <2>1 DEF Sent
  <2>2. CASE r.status = 0 /\ r.offers
    BY <1>4, <1>7, <2>2 DEF Sent
  <2>3. CASE r.status = 0 /\ ~r.offers
    BY <1>4, <1>7, <2>3 DEF Sent, h
  <2> QED
    BY <2>1, <2>2, <2>3
<1> HIDE DEF s
<1>14. Written(r, s, chunk, e)
  BY <1>4, <1>7, <1>8, <1>9, <1>11, <1>12, <1>13 DEF Written
<1> QED
  BY <1>14 DEF s

-----------------------------------------------------------------------------
(* The handlers.                                                           *)

\* A header that changes type and length changes nothing that was decided.
LEMMA HeaderFacts ==
    ASSUME NEW r \in Answers, Sound(r), NEW header \in Headers,
           header.encoding = r.header.encoding,
           NEW s, s = [r EXCEPT !.header = header]
    PROVE  /\ s \in Answers /\ Sound(s)
           /\ s.status = r.status /\ s.sent = r.sent /\ s.header = header /\ s.body = r.body
           /\ s.offers = r.offers /\ s.gz = r.gz /\ s.recorded = r.recorded
<1>1. /\ s \in Answers /\ s.header = header
      /\ s.status = r.status /\ s.sent = r.sent /\ s.body = r.body
      /\ s.offers = r.offers /\ s.gz = r.gz /\ s.recorded = r.recorded
      /\ s.wrote = r.wrote /\ s.passing = r.passing
  BY DEF Answers
<1>2. Sound(s)
  BY <1>1 DEF Sound
<1> QED
  BY <1>1, <1>2

\* Headers that are set too late change nothing that was sent.
LEMMA SetTypeFacts ==
    ASSUME NEW r \in Answers, Sound(r), NEW type \in Types,
           NEW s, s = SetType(r, type)
    PROVE  /\ s \in Answers /\ Sound(s)
           /\ s.status = r.status /\ s.sent = r.sent /\ s.header.length = r.header.length
           /\ s.body = r.body
           /\ s.offers = r.offers /\ s.gz = r.gz /\ s.recorded = r.recorded
<1> DEFINE header == [r.header EXCEPT !.type = type]
<1>1. /\ header \in Headers /\ header.encoding = r.header.encoding
      /\ header.length = r.header.length
  BY DEF Answers, Headers
<1>2. s = [r EXCEPT !.header = header]
  BY DEF SetType
<1> HIDE DEF header
<1> QED
  BY <1>1, <1>2, HeaderFacts

\* http.Error says so, under its status or the one that went out before.
Erred(r, s, status, e) ==
    /\ s \in Answers /\ Sound(s)
    /\ s.status = Sent(r, status)
    /\ SaysMore(r, s, {"error"})
    /\ Len(s.body) = Len(r.body) + 1
    /\ s.offers = r.offers
    /\ r.status # 0 => s.gz = r.gz /\ s.sent.length = r.sent.length
    /\ r.status = 0 => s.gz \in {None, e} /\ s.sent.length = None
    /\ s.recorded = IF r.offers /\ r.status # 0 THEN r.recorded ELSE status

\* An error that http.Error writes has an error's status.
LEMMA HttpErrorFacts ==
    ASSUME NEW r \in Answers, Sound(r), NEW status \in Status \ {0}, NEW e \in Encoders
    PROVE  Erred(r, HttpError(r, status, e), status, e)
<1> DEFINE s == HttpError(r, status, e)
           header == [r.header EXCEPT !.length = None, !.type = "text"]
           x == [r EXCEPT !.header = header]
           h == WriteHeader(x, status, e)
<1>1. /\ header \in Headers /\ header.encoding = r.header.encoding /\ header.length = None
  BY DEF Answers, Headers, Types
<1>2. s = Write(h, Error, e)
  BY DEF HttpError
<1> HIDE DEF header
<1>3. /\ x \in Answers /\ Sound(x) /\ x.header.length = None
      /\ x.status = r.status /\ x.sent = r.sent /\ x.body = r.body
      /\ x.offers = r.offers /\ x.gz = r.gz /\ x.recorded = r.recorded
  BY <1>1, HeaderFacts
<1> HIDE DEF x
<1>4. Headed(x, h, status, e)
  BY <1>3, WriteHeaderFacts
<1>5. h \in Answers /\ Sound(h) /\ h.status # 0
  BY <1>4 DEF Headed, Sent
<1> HIDE DEF h
<1>6. Written(h, s, Error, e)
  BY <1>2, <1>5, WriteFacts, NoneAssumption DEF Said
<1> HIDE DEF s
<1> USE DEF Headed, Written
<1>7. s.status = Sent(r, status)
  BY <1>3, <1>4, <1>5, <1>6 DEF Sent
<1>8. SaysMore(r, s, {"error"})
  BY <1>3, <1>4, <1>6 DEF SaysMore, Says, Error
<1>9. Len(s.body) = Len(r.body) + 1
  BY <1>3, <1>4, <1>6
<1>10. /\ s.offers = r.offers
       /\ s.recorded = IF r.offers /\ r.status # 0 THEN r.recorded ELSE status
  <2>1. s.recorded = h.recorded
    BY <1>5, <1>6
  <2> QED
    BY <1>3, <1>4, <1>6, <2>1
<1>11. /\ r.status # 0 => s.gz = r.gz /\ s.sent.length = r.sent.length
       /\ r.status = 0 => s.gz \in {None, e} /\ s.sent.length = None
  BY <1>3, <1>4, <1>5, <1>6
<1>12. Erred(r, s, status, e)
  BY <1>6, <1>7, <1>8, <1>9, <1>10, <1>11 DEF Erred
<1> QED
  BY <1>12 DEF s

\* A response that a handler has written.
Answered(s, offers, e) ==
    /\ s \in Answers /\ Sound(s)
    /\ s.offers = offers /\ s.gz \in {None, e}
    /\ s.sent.length \in {None, Len(s.body)}
    /\ Says(s, "error") => s.status >= 400 /\ ~ShowsPage(s)

\* A new response has sent nothing.
LEMMA FreshFacts ==
    ASSUME NEW offers \in BOOLEAN, NEW r, r = Fresh(offers)
    PROVE  /\ r \in Answers /\ Sound(r)
           /\ r.status = 0 /\ r.offers = offers /\ r.gz = None /\ r.recorded = 200
           /\ r.body = <<>> /\ Len(r.body) = 0 /\ \A t : ~Says(r, t)
           /\ r.header.length = None /\ r.sent.length = None
<1>1. <<>> \in Seq(Chunks) /\ Len(<<>>) = 0 /\ DOMAIN <<>> = {}
  OBVIOUS
<1>2. /\ r \in Answers
      /\ r.status = 0 /\ r.offers = offers /\ r.gz = None /\ r.recorded = 200
      /\ r.body = <<>> /\ r.header = NoHeader /\ r.sent = NoHeader
      /\ ~r.wrote /\ ~r.passing
  BY <1>1 DEF Fresh, Answers, NoHeader, Headers, Status
<1>3. /\ NoHeader.length = None /\ NoHeader.encoding = None
  BY DEF NoHeader
<1> QED
  BY <1>1, <1>2, <1>3 DEF Sound, Says

\* What r becomes with a page, or a 500 in its place.
Displayed(r, s, page, fails, e) ==
    /\ s \in Answers /\ Sound(s)
    /\ s.status = Sent(r, IF fails THEN 500 ELSE 200) /\ s.status # 0
    /\ SaysMore(r, s, {IF fails THEN "error" ELSE page.text})
    /\ Len(s.body) = Len(r.body) + 1
    /\ s.offers = r.offers
    /\ r.status # 0 => s.gz = r.gz /\ s.sent.length = r.sent.length
    /\ r.status = 0 => s.gz \in {None, e} /\ s.sent.length \in {None, r.header.length}
    /\ s.recorded = IF r.offers /\ r.status # 0 THEN r.recorded
                    ELSE IF fails THEN 500 ELSE IF r.offers THEN 200 ELSE r.recorded

\* A page is rendered whole or replaced by an error.
LEMMA RenderFacts ==
    ASSUME NEW r \in Answers, Sound(r), NEW page \in Said, NEW fails \in BOOLEAN,
           NEW e \in Encoders
    PROVE  Displayed(r, Render(r, page, fails, e), page, fails, e)
<1> DEFINE s == Render(r, page, fails, e)
<1>1. CASE fails
  <2>1. s = HttpError(r, 500, e) /\ 500 \in Status \ {0}
    BY <1>1 DEF Render, Status
  <2> HIDE DEF s
  <2>2. Erred(r, s, 500, e)
    BY <2>1, HttpErrorFacts
  <2>3. /\ (IF fails THEN 500 ELSE 200) = 500
        /\ (IF fails THEN "error" ELSE page.text) = "error"
        /\ s.recorded = IF r.offers /\ r.status # 0 THEN r.recorded
                        ELSE IF fails THEN 500 ELSE IF r.offers THEN 200 ELSE r.recorded
    BY <1>1, <2>2 DEF Erred
  <2>4. s.status # 0
    BY <2>2 DEF Erred, Sent
  <2>5. /\ s.status = Sent(r, IF fails THEN 500 ELSE 200)
        /\ SaysMore(r, s, {IF fails THEN "error" ELSE page.text})
    <3>1. s.status = Sent(r, 500) /\ SaysMore(r, s, {"error"})
      BY <2>2 DEF Erred
    <3> QED
      BY <2>3, <3>1, Zenon
  <2>6. /\ s \in Answers /\ Sound(s) /\ Len(s.body) = Len(r.body) + 1 /\ s.offers = r.offers
        /\ r.status # 0 => s.gz = r.gz /\ s.sent.length = r.sent.length
        /\ r.status = 0 => s.gz \in {None, e} /\ s.sent.length \in {None, r.header.length}
    BY <2>2 DEF Erred
  <2>7. Displayed(r, s, page, fails, e)
    BY <2>3, <2>4, <2>5, <2>6, Zenon DEF Displayed
  <2> QED
    BY <2>7 DEF s
<1>2. CASE ~fails
  <2> DEFINE x == SetType(r, "text")
  <2>1. /\ x \in Answers /\ Sound(x)
        /\ x.status = r.status /\ x.sent = r.sent /\ x.header.length = r.header.length
        /\ x.body = r.body /\ x.offers = r.offers /\ x.gz = r.gz /\ x.recorded = r.recorded
    BY SetTypeFacts DEF Types
  <2>2. s = Write(x, page, e)
    BY <1>2 DEF Render
  <2> HIDE DEF x, s
  <2>3. Written(x, s, page, e)
    <3>1. x \in Answers /\ Sound(x) /\ page \in Said /\ e # None
      BY <2>1, NoneAssumption
    <3> QED
      BY <2>2, <3>1, WriteFacts
  <2>4. /\ (IF fails THEN 500 ELSE 200) = 200
        /\ (IF fails THEN "error" ELSE page.text) = page.text
    BY <1>2
  <2>5. SaysMore(r, s, {page.text})
    BY <2>1, <2>3 DEF Written, SaysMore, Says
  <2>6. s.status = Sent(r, 200) /\ s.status # 0 /\ s.offers = r.offers
    BY <2>1, <2>3 DEF Written, Sent
  <2>7. s.recorded = IF r.offers /\ r.status # 0 THEN r.recorded
                     ELSE IF fails THEN 500 ELSE IF r.offers THEN 200 ELSE r.recorded
    <3>1. s.recorded = IF r.offers /\ r.status = 0 THEN 200 ELSE r.recorded
      BY <2>1, <2>3 DEF Written
    <3> QED
      BY <1>2, <3>1
  <2>8. /\ s.status = Sent(r, IF fails THEN 500 ELSE 200)
        /\ SaysMore(r, s, {IF fails THEN "error" ELSE page.text})
    <3>1. s.status = Sent(r, 200) /\ SaysMore(r, s, {page.text})
      BY <2>5, <2>6
    <3> QED
      BY <2>4, <3>1, Zenon
  <2>9. /\ s \in Answers /\ Sound(s) /\ Len(s.body) = Len(r.body) + 1
        /\ r.status # 0 => s.gz = r.gz /\ s.sent.length = r.sent.length
        /\ r.status = 0 => s.gz \in {None, e} /\ s.sent.length \in {None, r.header.length}
    BY <2>1, <2>3 DEF Written
  <2>10. Displayed(r, s, page, fails, e)
    BY <2>6, <2>7, <2>8, <2>9, Zenon DEF Displayed
  <2> QED
    BY <2>10 DEF s
<1> QED
  BY <1>1, <1>2

\* A page, a fragment, or healthz.
LEMMA PageFacts ==
    ASSUME NEW offers \in BOOLEAN, NEW e \in Encoders, NEW fails \in BOOLEAN,
           NEW page \in {Content, Banner}, NEW s, s = Render(Fresh(offers), page, fails, e)
    PROVE  /\ Answered(s, offers, e)
           /\ s.status # 0 /\ s.recorded = s.status
           /\ Says(s, "error") <=> fails
<1> DEFINE r == Fresh(offers)
<1>1. /\ r \in Answers /\ Sound(r)
      /\ r.status = 0 /\ r.offers = offers /\ r.gz = None /\ r.recorded = 200
      /\ Len(r.body) = 0 /\ \A t : ~Says(r, t)
      /\ r.header.length = None
  BY FreshFacts
<1> HIDE DEF r
<1>2. Displayed(r, s, page, fails, e)
  BY <1>1, RenderFacts DEF r, Said
<1>3. CASE fails
  <2>1. Says(s, "error") /\ ~ShowsPage(s) /\ s.status = 500 /\ s.recorded = 500 /\ s.status # 0
    <3>1. SaysMore(r, s, {"error"}) /\ s.status = Sent(r, 500)
      BY <1>2, <1>3, Zenon DEF Displayed
    <3>2. s.recorded = 500
      BY <1>1, <1>2, <1>3 DEF Displayed
    <3> QED
      BY <1>1, <3>1, <3>2 DEF SaysMore, Sent, ShowsPage
  <2>2. Answered(s, offers, e)
    BY <1>1, <1>2, <2>1 DEF Displayed, Answered
  <2> QED
    BY <1>3, <2>1, <2>2, ZenonT(30) DEF Answered
<1>4. CASE ~fails
  <2>1. ~Says(s, "error") /\ s.status = 200 /\ s.recorded = 200
    BY <1>1, <1>2, <1>4 DEF Displayed, SaysMore, Sent, Content, Banner
  <2>2. Answered(s, offers, e)
    BY <1>1, <1>2, <2>1 DEF Displayed, Answered
  <2> QED
    BY <1>4, <2>1, <2>2
<1> QED
  BY <1>3, <1>4

\* The error page, under its own status.
LEMMA MissingFacts ==
    ASSUME NEW offers \in BOOLEAN, NEW e \in Encoders, NEW fails \in BOOLEAN,
           NEW s, s = RenderError(Fresh(offers), fails, e)
    PROVE  /\ Answered(s, offers, e)
           /\ s.status # 0 /\ (s.recorded = s.status \/ (fails /\ ~offers))
           /\ Says(s, "error")
<1> DEFINE r == Fresh(offers)
           h == WriteHeader(r, 404, e)
<1>1. /\ r \in Answers /\ Sound(r)
      /\ r.status = 0 /\ r.offers = offers
      /\ Len(r.body) = 0 /\ \A t : ~Says(r, t)
      /\ r.header.length = None
  BY FreshFacts
<1> HIDE DEF r
<1>2. Headed(r, h, 404, e)
  BY <1>1, WriteHeaderFacts DEF Status
<1>3. s = Render(h, Error, fails, e)
  BY DEF RenderError, r
<1> HIDE DEF h
<1>4. /\ h \in Answers /\ Sound(h) /\ h.status = 404 /\ h.recorded = 404 /\ h.offers = offers
      /\ h.gz \in {None, e} /\ h.sent.length = None
      /\ Len(h.body) = 0 /\ \A t : ~Says(h, t)
  BY <1>1, <1>2 DEF Headed, Sent, Says
<1>5. Displayed(h, s, Error, fails, e)
  BY <1>3, <1>4, RenderFacts DEF Said
<1>6. s.status = 404 /\ s.offers = offers /\ s.gz \in {None, e} /\ s.sent.length = None
  BY <1>4, <1>5 DEF Displayed, Sent
<1>7. Says(s, "error") /\ ~ShowsPage(s)
  <2>1. (IF fails THEN "error" ELSE Error.text) = "error"
    BY DEF Error
  <2>2. SaysMore(h, s, {"error"})
    BY <1>5, <2>1, Zenon DEF Displayed
  <2> QED
    BY <1>4, <2>2 DEF SaysMore, ShowsPage
<1>8. Answered(s, offers, e)
  BY <1>5, <1>6, <1>7 DEF Displayed, Answered
<1>9. s.recorded = 404 \/ (fails /\ ~offers)
  BY <1>4, <1>5 DEF Displayed
<1>10. s.status # 0
  BY <1>6
<1>11. s.recorded = s.status \/ (fails /\ ~offers)
  BY <1>6, <1>9, Zenon
<1> QED
  BY <1>7, <1>8, <1>10, <1>11, Zenon

\* A handler that says little, or nothing, which leaves the response as it was.
LEMMA BriefFacts ==
    ASSUME NEW offers \in BOOLEAN, NEW e \in Encoders, NEW k \in Brief,
           NEW s, s = BriefAnswer(k, Fresh(offers), e)
    PROVE  /\ Answered(s, offers, e)
           /\ s.status # 0 => s.recorded = s.status
           /\ s.status = 0 => s = Fresh(offers)
<1> DEFINE r == Fresh(offers)
<1>1. /\ r \in Answers /\ Sound(r)
      /\ r.status = 0 /\ r.offers = offers /\ r.gz = None /\ r.recorded = 200
      /\ Len(r.body) = 0 /\ \A t : ~Says(r, t)
      /\ r.header.length = None /\ r.sent.length = None
  BY FreshFacts
<1>2. CASE k = "healthz"
  <2>1. s = Render(Fresh(offers), Content, FALSE, e)
    BY <1>2 DEF BriefAnswer, Render
  <2>2. PICK page \in {Content, Banner}, fails \in BOOLEAN :
            s = Render(Fresh(offers), page, fails, e)
    BY <2>1
  <2>3. Answered(s, offers, e) /\ s.status # 0 /\ s.recorded = s.status
    BY <2>2, PageFacts
  <2> QED
    BY <2>3
<1> HIDE DEF r
<1>3. CASE k = "refused"
  <2>1. s = HttpError(r, 502, e)
    BY <1>3 DEF BriefAnswer, r
  <2>2. Erred(r, s, 502, e)
    BY <1>1, <2>1, HttpErrorFacts DEF Status
  <2>3. Says(s, "error") /\ ~ShowsPage(s) /\ s.status = 502 /\ s.recorded = 502
    BY <1>1, <2>2 DEF Erred, SaysMore, Sent, ShowsPage
  <2>4. Answered(s, offers, e)
    BY <1>1, <2>2, <2>3 DEF Erred, Answered
  <2> QED
    BY <2>3, <2>4
<1>4. CASE k = "redirect"
  <2> DEFINE x == SetType(r, "text")
             h == WriteHeader(x, 302, e)
  <2>1. /\ x \in Answers /\ Sound(x) /\ x.status = 0 /\ x.offers = offers
        /\ x.header.length = None /\ x.body = r.body
    BY <1>1, SetTypeFacts DEF Types
  <2> HIDE DEF x
  <2>2. Headed(x, h, 302, e)
    BY <2>1, WriteHeaderFacts DEF Status
  <2>3. s = Write(h, Content, e)
    BY <1>4 DEF BriefAnswer, r, x
  <2> HIDE DEF h
  <2>4. /\ h \in Answers /\ Sound(h) /\ h.status = 302 /\ h.recorded = 302 /\ h.offers = offers
        /\ h.gz \in {None, e} /\ h.sent.length = None /\ h.body = r.body
    BY <2>1, <2>2 DEF Headed, Sent
  <2>5. Written(h, s, Content, e)
    BY <2>3, <2>4, WriteFacts, NoneAssumption DEF Said
  <2>6. s.status = 302 /\ s.recorded = 302 /\ s.gz \in {None, e} /\ s.sent.length = None
        /\ s.offers = offers
    BY <2>4, <2>5 DEF Written, Sent
  <2>7. ~Says(s, "error")
    <3>1. ~Says(h, "error")
      BY <1>1, <2>4 DEF Says
    <3>2. Content.text # "error"
      BY DEF Content
    <3> QED
      BY <2>5, <3>1, <3>2 DEF Written, SaysMore
  <2>8. Answered(s, offers, e)
    BY <2>5, <2>6, <2>7 DEF Written, Answered
  <2> QED
    BY <2>6, <2>8
<1>5. CASE k = "posted"
  <2>1. s = WriteHeader(r, 303, e)
    BY <1>5 DEF BriefAnswer, r
  <2>2. Headed(r, s, 303, e)
    BY <1>1, <2>1, WriteHeaderFacts DEF Status
  <2>3. s.status = 303 /\ s.recorded = 303 /\ ~Says(s, "error")
    BY <1>1, <2>2 DEF Headed, Sent, Says
  <2>4. Answered(s, offers, e)
    BY <1>1, <2>2, <2>3 DEF Headed, Answered
  <2> QED
    BY <2>3, <2>4
<1>6. CASE k = "gone"
  <2>1. s = r
    BY <1>6 DEF BriefAnswer, r
  <2>2. Answered(s, offers, e)
    BY <1>1, <2>1 DEF Answered
  <2> QED
    BY <1>1, <2>1, <2>2 DEF r
<1> QED
  BY <1>2, <1>3, <1>4, <1>5, <1>6 DEF Brief

\* A static file up to its first write, or what is said instead of it.
LEMMA AssetFacts ==
    ASSUME NEW offers \in BOOLEAN, NEW e \in Encoders, NEW k \in Assets, NEW n \in Nat,
           NEW s, s = AssetAnswer(k, n, Fresh(offers), e)
    PROVE  /\ s \in Answers /\ Sound(s)
           /\ s.offers = offers /\ s.gz \in {None, e}
           /\ s.status # 0 /\ s.recorded = s.status
           /\ Says(s, "error") => s.status >= 400 /\ ~ShowsPage(s)
           /\ k \in Files => /\ ~Says(s, "error")
                             /\ Len(s.body) = 1 /\ s.sent.length \in {None, n}
           /\ k \notin Files => s.sent.length \in {None, Len(s.body)}
<1> DEFINE r == Fresh(offers)
<1>1. /\ r \in Answers /\ Sound(r)
      /\ r.status = 0 /\ r.offers = offers /\ r.gz = None /\ r.recorded = 200
      /\ Len(r.body) = 0 /\ \A t : ~Says(r, t)
      /\ r.header.length = None /\ r.sent.length = None
  BY FreshFacts
<1> HIDE DEF r
<1>2. ASSUME NEW type \in Types, NEW status \in Status \ {0},
             s = Write(WriteHeader([r EXCEPT !.header.type = type, !.header.length = n],
                                   status, e), Content, e),
             k \in Files
      PROVE  /\ s \in Answers /\ Sound(s)
             /\ s.offers = offers /\ s.gz \in {None, e}
             /\ s.status # 0 /\ s.recorded = s.status
             /\ ~Says(s, "error")
             /\ Len(s.body) = 1 /\ s.sent.length \in {None, n}
  <2> DEFINE header == [r.header EXCEPT !.type = type, !.length = n]
             x == [r EXCEPT !.header = header]
             h == WriteHeader(x, status, e)
  <2>1. header \in Headers /\ header.encoding = r.header.encoding /\ header.length = n
    BY <1>1 DEF Answers, Headers
  <2>2. s = Write(h, Content, e)
    BY <1>2
  <2> HIDE DEF header
  <2>3. /\ x \in Answers /\ Sound(x) /\ x.status = 0 /\ x.offers = offers
        /\ x.header.length = n /\ x.body = r.body
    BY <1>1, <2>1, HeaderFacts
  <2> HIDE DEF x
  <2>4. Headed(x, h, status, e)
    BY <2>3, WriteHeaderFacts
  <2> HIDE DEF h
  <2>5. /\ h \in Answers /\ Sound(h) /\ h.status = status /\ h.recorded = status
        /\ h.offers = offers /\ status # 0
        /\ h.gz \in {None, e} /\ h.sent.length \in {None, n} /\ h.body = r.body
    BY <2>3, <2>4 DEF Headed, Sent
  <2>6. Written(h, s, Content, e)
    BY <2>2, <2>5, WriteFacts, NoneAssumption DEF Said
  <2>7. /\ s.status = status /\ s.recorded = status /\ s.gz \in {None, e}
        /\ s.sent.length \in {None, n} /\ s.offers = offers
    BY <2>5, <2>6 DEF Written, Sent
  <2>8. ~Says(s, "error")
    BY <1>1, <2>5, <2>6 DEF Written, SaysMore, Says, Content
  <2>9. s \in Answers /\ Sound(s) /\ Len(s.body) = 1
    BY <1>1, <2>5, <2>6 DEF Written
  <2> QED
    BY <2>5, <2>7, <2>8, <2>9
<1>3. CASE k \in Files
  <2>1. CASE k = "style"
    BY <1>2, <1>3, <2>1 DEF AssetAnswer, r, Types, Status
  <2>2. CASE k = "font"
    BY <1>2, <1>3, <2>2 DEF AssetAnswer, r, Types, Status
  <2>3. CASE k = "part"
    BY <1>2, <1>3, <2>3 DEF AssetAnswer, r, Types, Status
  <2> QED
    BY <1>3, <2>1, <2>2, <2>3 DEF Files
<1>4. CASE k = "unmodified"
  <2>1. s = WriteHeader(r, 304, e) /\ k \notin Files
    BY <1>4 DEF AssetAnswer, r, Files
  <2>2. Headed(r, s, 304, e)
    BY <1>1, <2>1, WriteHeaderFacts DEF Status
  <2>3. s.status = 304 /\ s.recorded = 304 /\ ~Says(s, "error")
    BY <1>1, <2>2 DEF Headed, Sent, Says
  <2> QED
    BY <1>1, <2>1, <2>2, <2>3 DEF Headed
<1>5. CASE k = "no asset"
  <2>1. s = HttpError(r, 404, e) /\ k \notin Files
    BY <1>5 DEF AssetAnswer, r, Files
  <2>2. Erred(r, s, 404, e)
    BY <1>1, <2>1, HttpErrorFacts DEF Status
  <2>3. ~ShowsPage(s) /\ s.status = 404 /\ s.recorded = 404
    BY <1>1, <2>2 DEF Erred, SaysMore, Sent, ShowsPage
  <2> QED
    BY <1>1, <2>1, <2>2, <2>3 DEF Erred
<1> QED
  BY <1>3, <1>4, <1>5 DEF Assets

-----------------------------------------------------------------------------
(* The inductive invariant.                                                *)

\* What is so of a request at a step: k is its kind, r its response, n its writes
\* to come, and bad, weak and log its histories.
Stand(step, k, r, n, bad, weak, log) ==
    /\ n # 0 <=> step = "copy"
    /\ r.gz # None => step \in {"copy", "close", "put"}
    /\ step \in {"close", "put"} => r.gz # None
    /\ step = "handle" => r = Fresh(r.offers)
    /\ step \in {"copy", "close"} => /\ Sound(r) /\ r.status # 0
                                     /\ r.sent.length \in {None, Len(r.body) + n}
    /\ step = "copy" => k \in Files /\ ~Says(r, "error")
    /\ step \in {"put", "sent"} => r.status # 0 /\ Decodes(r)
    /\ step \in {"log", "flush"} => r = Fresh(r.offers) \/ (r.status # 0 /\ Decodes(r))
    /\ step = "recover" => \/ r = Fresh(r.offers)
                           \/ /\ r.status = 404 /\ r.body = <<>>
                              /\ r.sent.encoding = None /\ r.sent.length = None
    /\ bad => step \in {"recover", "flush", "sent"}
    /\ step = "recover" => bad
    /\ weak \/ (bad /\ step # "recover") => Says(r, "error")
    /\ k = "missing" /\ step \in {"close", "put", "log", "flush", "sent"} => Says(r, "error")
    /\ Says(r, "error") => r.status >= 400 /\ ~ShowsPage(r)
    /\ step \in {"copy", "close", "put", "log", "flush", "sent"} /\ ~bad /\ r.status # 0
       => r.recorded = r.status \/ (k = "missing" /\ weak /\ ~r.offers)
    /\ log # 0 => step \in {"flush", "sent"} /\ ~bad /\ log = r.recorded

Stands(p) == Stand(pc[p], kind[p], response[p], left[p], broken[p], flawed[p], logged[p])

\* An encoder is in the pool, with one request, or nowhere.
EncodersApart == /\ \A p \in Requests : response[p].gz \notin pool
                 /\ EncodersExclusive

Inv == TypeOK /\ EncodersApart /\ \A p \in Requests : Stands(p)

-----------------------------------------------------------------------------
(* Steps.                                                                  *)

\* What is as sound as it is long can be decoded.
LEMMA SoundDecodes ==
    ASSUME NEW r \in Answers, Sound(r), r.gz = None, r.sent.length \in {None, Len(r.body)}
    PROVE  Decodes(r)
BY NoneAssumption DEF Sound, Decodes

\* A handler has answered: the encoder is to be closed, or the response is done.
LEMMA AnsweredStands ==
    ASSUME NEW offers, NEW e, NEW s, Answered(s, offers, e),
           s.status # 0 \/ s = Fresh(s.offers),
           NEW k, NEW weak \in BOOLEAN, weak \/ k = "missing" => Says(s, "error"),
           s.status # 0 => s.recorded = s.status \/ (k = "missing" /\ weak /\ ~s.offers),
           NEW step, step \in IF s.gz # None THEN {"close"} ELSE {"log", "flush"}
    PROVE  Stand(step, k, s, 0, FALSE, weak, 0)
<1>1. /\ s \in Answers /\ Sound(s) /\ s.sent.length \in {None, Len(s.body)}
      /\ Says(s, "error") => s.status >= 400 /\ ~ShowsPage(s)
  BY DEF Answered
<1>2. CASE s.gz # None
  <2>1. step = "close" /\ s.status # 0
    BY <1>1, <1>2 DEF Sound
  <2>2. Len(s.body) + 0 = Len(s.body)
    BY <1>1 DEF Answers
  <2> QED
    BY <1>1, <1>2, <2>1, <2>2 DEF Stand
<1>3. CASE s.gz = None
  <2>1. step \in {"log", "flush"}
    BY <1>3
  <2>2. Decodes(s)
    BY <1>1, <1>3, SoundDecodes
  <2> QED
    BY <1>1, <1>3, <2>1, <2>2 DEF Stand
<1> QED
  BY <1>2, <1>3

\* The others stand where they stood.
Alone(p) == \A q \in Requests \ {p} :
                /\ pc'[q] = pc[q] /\ kind'[q] = kind[q] /\ response'[q] = response[q]
                /\ left'[q] = left[q] /\ broken'[q] = broken[q] /\ flawed'[q] = flawed[q]
                /\ logged'[q] = logged[q]

\* A step of one response leaves the others standing.
LEMMA AloneStands ==
    ASSUME Inv, NEW p \in Requests, Alone(p), Stands(p)'
    PROVE  \A q \in Requests : Stands(q)'
<1>1. ASSUME NEW q \in Requests \ {p} PROVE Stands(q)'
  <2>1. Stands(q)
    BY DEF Inv
  <2> QED
    BY <1>1, <2>1 DEF Alone, Stands
<1> QED
  BY <1>1

\* A response keeps its encoder or takes one there is.
LEMMA RespondApart ==
    ASSUME TypeOK, EncodersApart, NEW p \in Requests, NEW s \in Answers, Respond(p, s),
           s.gz = response[p].gz \/ (response[p].gz = None /\ s.gz \in Obtainable \cup {None})
    PROVE  EncodersApart' /\ pool' \subseteq Encoders /\ response' \in [Requests -> Answers]
<1>1. /\ pool' \subseteq pool /\ pool' \subseteq Encoders /\ response' \in [Requests -> Answers]
      /\ \A q \in Requests : response'[q] = IF q = p THEN s ELSE response[q]
  BY DEF TypeOK, Respond
<1>2. None \notin pool
  BY NoneAssumption DEF TypeOK
<1>3. CASE s.gz = response[p].gz
  BY <1>1, <1>3 DEF EncodersApart, EncodersExclusive
<1>4. CASE response[p].gz = None /\ s.gz = None
  BY <1>1, <1>2, <1>4 DEF EncodersApart, EncodersExclusive
<1>5. CASE response[p].gz = None /\ s.gz \in Obtainable /\ s.gz # None
  <2>1. s.gz \notin pool'
    BY <1>5 DEF Respond
  <2>2. \A q \in Requests : response[q].gz # s.gz
    BY <1>5 DEF Obtainable, InUse, EncodersApart
  <2> QED
    BY <1>1, <2>1, <2>2 DEF EncodersApart, EncodersExclusive
<1> QED
  BY <1>1, <1>3, <1>4, <1>5

\* A step of one request keeps the invariant if it keeps its own part of it.
LEMMA InvAlone ==
    ASSUME Inv, NEW p \in Requests, Alone(p), Stands(p)', TypeOK', EncodersApart'
    PROVE  Inv'
BY AloneStands DEF Inv

\* What Fresh answers are besides.
LEMMA FreshStands ==
    ASSUME NEW offers \in BOOLEAN, NEW k, NEW step \in {"idle", "handle"}
    PROVE  Stand(step, k, Fresh(offers), 0, FALSE, FALSE, 0)
<1> DEFINE r == Fresh(offers)
<1>1. /\ r \in Answers /\ Sound(r)
      /\ r.status = 0 /\ r.offers = offers /\ r.gz = None /\ r.recorded = 200
      /\ r.body = <<>> /\ \A t : ~Says(r, t)
  BY FreshFacts
<1>2. r = Fresh(r.offers)
  BY <1>1
<1> HIDE DEF r
<1>3. Stand(step, k, r, 0, FALSE, FALSE, 0)
  BY <1>1, <1>2 DEF Stand
<1> QED
  BY <1>3 DEF r

\* A request arrives.
LEMMA ArriveStep ==
    ASSUME Inv, NEW p \in Requests, NEW k \in Kinds, NEW offers \in BOOLEAN, Arrive(p, k, offers)
    PROVE  Inv'
<1>0. TypeOK /\ EncodersApart /\ Stands(p)
  BY DEF Inv
<1>1. /\ Fresh(offers) \in Answers /\ Fresh(offers).gz = None
      /\ left[p] = 0 /\ response[p].gz = None
  <2>1. left[p] = 0 /\ response[p].gz = None
    BY <1>0 DEF Arrive, Stands, Stand
  <2> QED
    BY <2>1, FreshFacts
<1>2. /\ pc'[p] = "handle" /\ kind'[p] = k /\ response'[p] = Fresh(offers) /\ left'[p] = 0
      /\ ~broken'[p] /\ ~flawed'[p] /\ logged'[p] = 0
      /\ Alone(p)
      /\ TypeOK'
  BY <1>0, <1>1 DEF Arrive, GoTo, TypeOK, Alone, Status
<1>3. EncodersApart'
  <2>1. \A q \in Requests : response'[q].gz = response[q].gz
    BY <1>0, <1>1 DEF Arrive, TypeOK
  <2> QED
    BY <1>0, <2>1 DEF Arrive, EncodersApart, EncodersExclusive
<1>4. Stands(p)'
  <2>1. broken'[p] = FALSE /\ flawed'[p] = FALSE
    BY <1>2 DEF TypeOK
  <2> QED
    BY <1>2, <2>1, FreshStands DEF Stands
<1> QED
  BY <1>2, <1>3, <1>4, InvAlone

\* What a request is before its handler runs.
LEMMA HandleFacts ==
    ASSUME Inv, NEW p \in Requests, pc[p] = "handle"
    PROVE  /\ response[p].offers \in BOOLEAN /\ response[p] = Fresh(response[p].offers)
           /\ response[p].gz = None
           /\ left[p] = 0 /\ broken[p] = FALSE /\ flawed[p] = FALSE /\ logged[p] = 0
<1>1. /\ Stands(p) /\ response[p] \in Answers
      /\ broken[p] \in BOOLEAN /\ flawed[p] \in BOOLEAN /\ left[p] \in Nat
  BY DEF Inv, TypeOK
<1>2. response[p].offers \in BOOLEAN
  BY <1>1 DEF Answers
<1>3. /\ response[p] = Fresh(response[p].offers) /\ response[p].gz = None /\ left[p] = 0
      /\ ~broken[p] /\ logged[p] = 0
      /\ flawed[p] => Says(response[p], "error")
  BY <1>1 DEF Stands, Stand
<1>4. ~Says(response[p], "error")
  BY <1>2, <1>3, FreshFacts
<1> QED
  BY <1>1, <1>2, <1>3, <1>4

\* A handler answers once for all.
LEMMA AnswerStep ==
    ASSUME Inv, NEW p \in Requests, pc[p] = "handle", NEW e \in Obtainable,
           NEW s, Answered(s, response[p].offers, e),
           s.status # 0 \/ s = Fresh(s.offers),
           NEW weak \in BOOLEAN, weak \/ kind[p] = "missing" => Says(s, "error"),
           s.status # 0 => s.recorded = s.status \/ (kind[p] = "missing" /\ weak /\ ~s.offers),
           Respond(p, s), GoTo(p, AfterHandler(p, s)),
           flawed' = [flawed EXCEPT ![p] = weak],
           UNCHANGED <<kind, broken, logged, left>>
    PROVE  Inv'
<1>0. TypeOK /\ EncodersApart
  BY DEF Inv
<1>1. e \in Encoders
  BY <1>0 DEF Obtainable, TypeOK
<1>2. AfterHandler(p, s) \in IF s.gz # None THEN {"close"} ELSE {"log", "flush"}
  BY DEF AfterHandler, AfterLog
<1>3. /\ pc'[p] = AfterHandler(p, s) /\ kind'[p] = kind[p] /\ response'[p] = s /\ left'[p] = 0
      /\ broken'[p] = FALSE /\ flawed'[p] = weak /\ logged'[p] = 0
  BY <1>0, HandleFacts DEF GoTo, Respond, TypeOK
<1>4. Stand(AfterHandler(p, s), kind[p], s, 0, FALSE, weak, 0)
  BY <1>1, <1>2, AnsweredStands
<1>5. Stands(p)'
  BY <1>3, <1>4 DEF Stands
<1>6. /\ EncodersApart' /\ pool' \subseteq Encoders /\ response' \in [Requests -> Answers]
  <2>1. s \in Answers /\ response[p].gz = None /\ s.gz \in Obtainable \cup {None}
    BY HandleFacts DEF Answered
  <2> QED
    BY <1>0, <2>1, RespondApart
<1>7. TypeOK'
  <2>1. AfterHandler(p, s) \in {"close", "log", "flush"}
    BY DEF AfterHandler, AfterLog
  <2> QED
    BY <1>0, <1>6, <2>1 DEF TypeOK, GoTo
<1>8. Alone(p)
  BY <1>0 DEF Alone, GoTo, Respond, TypeOK
<1> QED
  BY <1>5, <1>6, <1>7, <1>8, InvAlone

\* A handler renders a page.
LEMMA ServeRenderedStep ==
    ASSUME Inv, NEW p \in Requests, NEW e \in Obtainable, NEW fails \in BOOLEAN,
           ServeRendered(p, fails, e)
    PROVE  Inv'
<1> DEFINE r == response[p]
           s == RenderedAnswer(kind[p], r, fails, e)
<1>1. /\ pc[p] = "handle" /\ kind[p] \in Rendered
      /\ Respond(p, s) /\ GoTo(p, AfterHandler(p, s))
      /\ flawed' = [flawed EXCEPT ![p] = fails]
      /\ UNCHANGED <<kind, broken, logged, left>>
  BY DEF ServeRendered
<1>2. e \in Encoders
  BY DEF Obtainable, Inv, TypeOK
<1>3. r.offers \in BOOLEAN /\ r = Fresh(r.offers)
  BY <1>1, HandleFacts
<1>4. /\ Answered(s, r.offers, e) /\ s.status # 0
      /\ s.recorded = s.status \/ (kind[p] = "missing" /\ fails /\ ~r.offers)
      /\ fails \/ kind[p] = "missing" => Says(s, "error")
  <2>1. CASE kind[p] = "page"
    <3>1. s = Render(Fresh(r.offers), Content, fails, e)
      BY <1>3, <2>1 DEF RenderedAnswer
    <3> HIDE DEF s, r
    <3> QED
      BY <1>2, <1>3, <2>1, <3>1, PageFacts
  <2>3. CASE kind[p] = "banner"
    <3>1. s = Render(Fresh(r.offers), Banner, fails, e)
      BY <1>3, <2>3 DEF RenderedAnswer
    <3> HIDE DEF s, r
    <3> QED
      BY <1>2, <1>3, <2>3, <3>1, PageFacts
  <2>2. CASE kind[p] = "missing"
    <3>1. s = RenderError(Fresh(r.offers), fails, e)
      BY <1>3, <2>2 DEF RenderedAnswer
    <3> HIDE DEF s, r
    <3> QED
      BY <1>2, <1>3, <2>2, <3>1, MissingFacts
  <2> QED
    BY <1>1, <2>1, <2>2, <2>3 DEF Rendered
<1> HIDE DEF s
<1>5. s.offers = r.offers
  BY <1>4 DEF Answered
<1> QED
  BY <1>1, <1>4, <1>5, AnswerStep

\* A handler answers in a line.
LEMMA ServeBriefStep ==
    ASSUME Inv, NEW p \in Requests, NEW e \in Obtainable, ServeBrief(p, e)
    PROVE  Inv'
<1> DEFINE r == response[p]
           s == BriefAnswer(kind[p], r, e)
<1>1. /\ pc[p] = "handle" /\ kind[p] \in Brief
      /\ Respond(p, s) /\ GoTo(p, AfterHandler(p, s))
      /\ UNCHANGED <<kind, broken, flawed, logged, left>>
  BY DEF ServeBrief
<1>2. e \in Encoders
  BY DEF Obtainable, Inv, TypeOK
<1>3. r.offers \in BOOLEAN /\ r = Fresh(r.offers) /\ flawed[p] = FALSE
  BY <1>1, HandleFacts
<1>4. /\ Answered(s, r.offers, e)
      /\ s.status # 0 => s.recorded = s.status
      /\ s.status = 0 => s = Fresh(r.offers)
  <2>1. s = BriefAnswer(kind[p], Fresh(r.offers), e)
    BY <1>3
  <2> HIDE DEF s, r
  <2> QED
    BY <1>1, <1>2, <1>3, <2>1, BriefFacts
<1> HIDE DEF s
<1>5. s.offers = r.offers
  BY <1>4 DEF Answered
<1>6. flawed' = [flawed EXCEPT ![p] = FALSE]
  BY <1>1, <1>3 DEF Inv, TypeOK
<1>7. /\ UNCHANGED <<kind, broken, logged, left>>
      /\ s.status # 0 \/ s = Fresh(s.offers)
      /\ s.status # 0 => s.recorded = s.status \/ (kind[p] = "missing" /\ FALSE /\ ~s.offers)
  BY <1>1, <1>4, <1>5
<1>8. kind[p] # "missing"
  BY <1>1 DEF Brief
<1> QED
  BY <1>1, <1>4, <1>5, <1>6, <1>7, <1>8, AnswerStep

\* A step of a request that leaves its kind and its histories alone.
LEMMA TurnStep ==
    ASSUME Inv, NEW p \in Requests, NEW s \in Answers, NEW n \in Nat,
           NEW step \in {"copy", "close", "put", "log", "recover", "flush", "sent"},
           pc' = [pc EXCEPT ![p] = step],
           response' = [response EXCEPT ![p] = s],
           left' = [left EXCEPT ![p] = n],
           UNCHANGED <<kind, broken, flawed, logged>>,
           Stand(step, kind[p], s, n, broken[p], flawed[p], logged[p]),
           EncodersApart', pool' \subseteq Encoders
    PROVE  Inv'
<1>0. TypeOK
  BY DEF Inv
<1>1. TypeOK' /\ Alone(p)
  BY <1>0 DEF TypeOK, Alone
<1>2. /\ pc'[p] = step /\ response'[p] = s /\ left'[p] = n /\ kind'[p] = kind[p]
      /\ broken'[p] = broken[p] /\ flawed'[p] = flawed[p] /\ logged'[p] = logged[p]
  BY <1>0 DEF TypeOK
<1>3. Stands(p)'
  BY <1>2 DEF Stands
<1> QED
  BY <1>1, <1>3, InvAlone

\* A handler begins to copy a file.
LEMMA ServeAssetStep ==
    ASSUME Inv, NEW p \in Requests, NEW n \in AssetSizes, NEW e \in Obtainable,
           ServeAsset(p, n, e)
    PROVE  Inv'
<1> DEFINE r == response[p]
           s == AssetAnswer(kind[p], n, r, e)
<1>1. /\ pc[p] = "handle" /\ kind[p] \in Assets /\ Respond(p, s)
      /\ IF kind[p] \in Files /\ n > 1
         THEN GoTo(p, "copy") /\ left' = [left EXCEPT ![p] = n - 1]
         ELSE GoTo(p, AfterHandler(p, s)) /\ UNCHANGED left
      /\ UNCHANGED <<kind, broken, flawed, logged>>
  BY DEF ServeAsset
<1>2. e \in Encoders /\ n \in Nat /\ n # 0
  BY SizesAssumption DEF Obtainable, Inv, TypeOK
<1>3. /\ r.offers \in BOOLEAN /\ r = Fresh(r.offers) /\ r.gz = None
      /\ broken[p] = FALSE /\ flawed[p] = FALSE /\ logged[p] = 0
  BY <1>1, HandleFacts
<1>4. /\ s \in Answers /\ Sound(s)
      /\ s.offers = r.offers /\ s.gz \in {None, e}
      /\ s.status # 0 /\ s.recorded = s.status
      /\ Says(s, "error") => s.status >= 400 /\ ~ShowsPage(s)
      /\ kind[p] \in Files => /\ ~Says(s, "error")
                              /\ Len(s.body) = 1 /\ s.sent.length \in {None, n}
      /\ kind[p] \notin Files => s.sent.length \in {None, Len(s.body)}
  <2>1. s = AssetAnswer(kind[p], n, Fresh(r.offers), e)
    BY <1>3
  <2> HIDE DEF s, r
  <2> QED
    BY <1>1, <1>2, <1>3, <2>1, AssetFacts
<1> HIDE DEF s
<1>5. CASE kind[p] \in Files /\ n > 1
  <2>1. /\ n - 1 \in Nat /\ n - 1 # 0
        /\ s.sent.length \in {None, Len(s.body) + (n - 1)}
    <3>1. Len(s.body) = 1 /\ s.sent.length \in {None, n}
      BY <1>4, <1>5
    <3>2. n - 1 \in Nat /\ n - 1 # 0 /\ 1 + (n - 1) = n
      BY <1>2, <1>5
    <3> QED
      BY <3>1, <3>2
  <2>2. Stand("copy", kind[p], s, n - 1, FALSE, FALSE, 0)
    BY <1>4, <1>5, <2>1 DEF Stand
  <2>3. EncodersApart' /\ pool' \subseteq Encoders
    BY <1>1, <1>3, <1>4, RespondApart DEF Inv
  <2> QED
    <3>1. pc' = [pc EXCEPT ![p] = "copy"] /\ left' = [left EXCEPT ![p] = n - 1]
      BY <1>1, <1>5 DEF GoTo
    <3>2. response' = [response EXCEPT ![p] = s]
      BY <1>1 DEF Respond
    <3>3. Stand("copy", kind[p], s, n - 1, broken[p], flawed[p], logged[p])
      BY <1>3, <2>2
    <3> QED
      BY <1>1, <1>4, <2>1, <2>3, <3>1, <3>2, <3>3, TurnStep
<1>6. CASE ~(kind[p] \in Files /\ n > 1)
  <2>1. s.sent.length \in {None, Len(s.body)}
    <3>1. CASE kind[p] \in Files
      <4>1. n = 1
        BY <1>2, <1>6, <3>1
      <4> QED
        BY <1>4, <3>1, <4>1
    <3> QED
      BY <1>4, <3>1
  <2>2. Answered(s, r.offers, e)
    BY <1>4, <2>1 DEF Answered
  <2>3. flawed' = [flawed EXCEPT ![p] = FALSE]
    BY <1>1, <1>3 DEF Inv, TypeOK
  <2>4. GoTo(p, AfterHandler(p, s)) /\ UNCHANGED <<kind, broken, logged, left>>
    BY <1>1, <1>6
  <2>5. /\ s.status # 0 \/ s = Fresh(s.offers)
        /\ s.status # 0 => s.recorded = s.status \/ (kind[p] = "missing" /\ FALSE /\ ~s.offers)
    BY <1>4
  <2>6. kind[p] # "missing"
    BY <1>1 DEF Assets, Files
  <2> QED
    BY <1>1, <2>2, <2>3, <2>4, <2>5, <2>6, AnswerStep
<1> QED
  BY <1>5, <1>6

\* A handler copies one piece more.
LEMMA CopyMoreStep ==
    ASSUME Inv, NEW p \in Requests, CopyMore(p)
    PROVE  Inv'
<1> DEFINE r == response[p]
           s == Write(r, Content, None)
           n == left[p] - 1
<1>1. /\ pc[p] = "copy" /\ Respond(p, s)
      /\ left' = [left EXCEPT ![p] = n]
      /\ GoTo(p, IF left[p] > 1 THEN "copy" ELSE AfterHandler(p, s))
      /\ UNCHANGED <<kind, broken, flawed, logged>>
  BY DEF CopyMore
<1>2. TypeOK /\ EncodersApart /\ Stands(p)
  BY DEF Inv
<1>3. r \in Answers /\ left[p] \in Nat /\ broken[p] \in BOOLEAN /\ flawed[p] \in BOOLEAN
  BY <1>2 DEF TypeOK
<1>4. /\ left[p] # 0 /\ kind[p] \in Files
      /\ Sound(r) /\ r.status # 0 /\ r.sent.length \in {None, Len(r.body) + left[p]}
      /\ ~Says(r, "error")
      /\ ~broken[p] /\ ~flawed[p] /\ logged[p] = 0
      /\ r.recorded = r.status
  BY <1>1, <1>2, <1>3 DEF Stands, Stand, Files
<1>5. n \in Nat /\ (n = 0 <=> ~(left[p] > 1)) /\ 1 + n = left[p]
  BY <1>3, <1>4
<1>6. Written(r, s, Content, None)
  BY <1>3, <1>4, WriteFacts DEF Said
<1> HIDE DEF s, n
<1>7. /\ s \in Answers /\ Sound(s) /\ s.status = r.status /\ s.status # 0 /\ s.gz = r.gz
      /\ s.recorded = s.status /\ s.offers = r.offers
      /\ Len(s.body) = Len(r.body) + 1 /\ s.sent.length = r.sent.length
  BY <1>4, <1>6 DEF Written, Sent
<1>8. ~Says(s, "error")
  BY <1>4, <1>6 DEF Written, SaysMore, Content
<1>9. s.sent.length \in {None, Len(s.body) + n}
  <2>1. Len(r.body) \in Nat
    BY <1>3 DEF Answers
  <2>2. Len(s.body) + n = Len(r.body) + left[p]
    BY <1>3, <1>5, <1>7, <2>1
  <2> QED
    BY <1>4, <1>7, <2>2
<1>10. EncodersApart' /\ pool' \subseteq Encoders
  BY <1>1, <1>2, <1>7, RespondApart
<1>11. broken[p] = FALSE /\ flawed[p] = FALSE
  BY <1>3, <1>4
<1>12. CASE left[p] > 1
  <2>1. Stand("copy", kind[p], s, n, FALSE, FALSE, 0)
    BY <1>4, <1>5, <1>7, <1>8, <1>9, <1>12 DEF Stand
  <2> QED
    BY <1>1, <1>4, <1>5, <1>7, <1>10, <1>11, <1>12, <2>1, TurnStep DEF GoTo, Respond
<1>13. CASE ~(left[p] > 1)
  <2> DEFINE step == AfterHandler(p, s)
  <2>1. step \in IF s.gz # None THEN {"close"} ELSE {"log", "flush"}
    BY DEF AfterHandler, AfterLog
  <2>2. n = 0 /\ pc' = [pc EXCEPT ![p] = step]
    BY <1>1, <1>5, <1>13 DEF GoTo
  <2> HIDE DEF step
  <2>3. s.sent.length \in {None, Len(s.body)}
    <3>1. Len(s.body) \in Nat
      BY <1>7 DEF Answers
    <3> QED
      BY <1>9, <2>2, <3>1
  <2>4. Answered(s, s.offers, s.gz)
    BY <1>7, <1>8, <2>3 DEF Answered
  <2>7. kind[p] # "missing"
    BY <1>4 DEF Files
  <2>5. Stand(step, kind[p], s, 0, FALSE, FALSE, 0)
    BY <1>7, <2>1, <2>4, <2>7, AnsweredStands
  <2>6. step \in {"close", "log", "flush"}
    BY <2>1
  <2> QED
    BY <1>1, <1>4, <1>5, <1>7, <1>10, <1>11, <2>2, <2>5, <2>6, TurnStep DEF Respond
<1> QED
  BY <1>12, <1>13

\* The status of an error page, with nothing after it.
LEMMA PanicFacts ==
    ASSUME NEW offers \in BOOLEAN, NEW s, s = WriteHeader(Fresh(offers), 404, None)
    PROVE  /\ s \in Answers /\ s.status = 404 /\ s.body = <<>> /\ s.gz = None
           /\ s.sent.encoding = None /\ s.sent.length = None
<1> DEFINE r == Fresh(offers)
           q == [r EXCEPT !.wrote = TRUE, !.passing = TRUE]
<1>1. r \in Answers /\ r.status = 0 /\ r.offers = offers /\ r.gz = None /\ r.body = <<>>
  BY FreshFacts
<1>2. r.header = NoHeader /\ r.wrote = FALSE
  BY DEF Fresh
<1>3. NoHeader.encoding = None /\ NoHeader.length = None /\ NoHeader.type # "text"
  BY NoneAssumption DEF NoHeader, Types
<1> HIDE DEF r
<1>4. /\ q \in Answers /\ q.status = 0 /\ q.gz = None /\ q.body = <<>> /\ q.header = NoHeader
  BY <1>1, <1>2 DEF Answers
<1>5. s = RecorderWriteHeader(IF offers THEN q ELSE r, 404)
  BY <1>1, <1>2, <1>3 DEF WriteHeader, GzipWriteHeader, Passes, r
<1> HIDE DEF q
<1> DEFINE x == IF offers THEN q ELSE r
<1>6. /\ x \in Answers /\ x.status = 0 /\ x.gz = None /\ x.body = <<>> /\ x.header = NoHeader
  BY <1>1, <1>2, <1>4
<1>7. s = RecorderWriteHeader(x, 404) /\ 404 \in Status
  BY <1>5 DEF Status
<1> HIDE DEF x
<1>8. /\ s \in Answers /\ s.status = Sent(x, 404) /\ s.body = x.body /\ s.gz = x.gz
      /\ s.sent = IF x.status = 0 THEN x.header ELSE x.sent
  BY <1>6, <1>7, RecorderWriteHeaderFacts
<1> QED
  BY <1>3, <1>6, <1>8 DEF Sent

\* A handler panics.
LEMMA PanicStep ==
    ASSUME Inv, NEW p \in Requests, Panic(p)
    PROVE  Inv'
<1> DEFINE r == response[p]
           s == response'[p]
<1>1. /\ pc[p] = "handle"
      /\ broken' = [broken EXCEPT ![p] = TRUE]
      /\ GoTo(p, "recover")
      /\ UNCHANGED <<kind, flawed, logged, pool, left>>
  BY DEF Panic
<1>2. TypeOK /\ EncodersApart
  BY DEF Inv
<1>3. /\ r.offers \in BOOLEAN /\ r = Fresh(r.offers) /\ r.gz = None /\ left[p] = 0
      /\ flawed[p] = FALSE /\ logged[p] = 0
  BY <1>1, HandleFacts
<1>4. \/ response' = response
      \/ response' = [response EXCEPT ![p] = WriteHeader(Fresh(r.offers), 404, None)]
  BY <1>3 DEF Panic
<1>5. /\ s \in Answers /\ s.gz = None
      /\ \/ s = Fresh(s.offers)
         \/ /\ s.status = 404 /\ s.body = <<>>
            /\ s.sent.encoding = None /\ s.sent.length = None
      /\ ~Says(s, "error")
      /\ response' = [response EXCEPT ![p] = s]
  <2>1. CASE response' = response
    <3>1. s = r /\ r \in Answers
      BY <1>2, <2>1 DEF TypeOK
    <3>2. ~Says(r, "error")
      BY <1>3, FreshFacts
    <3> QED
      BY <1>2, <1>3, <2>1, <3>1, <3>2 DEF TypeOK
  <2>2. CASE response' = [response EXCEPT ![p] = WriteHeader(Fresh(r.offers), 404, None)]
    <3>1. s = WriteHeader(Fresh(r.offers), 404, None)
      BY <1>2, <2>2 DEF TypeOK
    <3>2. /\ s \in Answers /\ s.status = 404 /\ s.body = <<>> /\ s.gz = None
          /\ s.sent.encoding = None /\ s.sent.length = None
      BY <1>3, <3>1, PanicFacts
    <3>3. ~Says(s, "error")
      BY <3>2 DEF Says
    <3> QED
      BY <2>2, <3>1, <3>2, <3>3
  <2> QED
    BY <1>4, <2>1, <2>2
<1>6. /\ pc'[p] = "recover" /\ kind'[p] = kind[p] /\ left'[p] = 0
      /\ broken'[p] = TRUE /\ flawed'[p] = FALSE /\ logged'[p] = 0
      /\ Alone(p) /\ TypeOK'
  BY <1>1, <1>2, <1>3, <1>5 DEF GoTo, TypeOK, Alone
<1>7. EncodersApart'
  <2>1. \A q \in Requests : response'[q].gz = response[q].gz
    BY <1>2, <1>3, <1>5 DEF TypeOK
  <2> QED
    BY <1>1, <1>2, <2>1 DEF EncodersApart, EncodersExclusive
<1> HIDE DEF s
<1>8. Stand("recover", kind[p], s, 0, TRUE, FALSE, 0)
  BY <1>5 DEF Stand
<1>9. Stands(p)'
  BY <1>6, <1>8 DEF Stands, s
<1> QED
  BY <1>6, <1>7, <1>9, InvAlone

\* An encoder stays where it is.
LEMMA SameEncoders ==
    ASSUME TypeOK, EncodersApart, NEW p \in Requests, NEW s \in Answers,
           response' = [response EXCEPT ![p] = s], s.gz = response[p].gz, pool' = pool
    PROVE  EncodersApart' /\ pool' \subseteq Encoders
<1>1. \A q \in Requests : response'[q].gz = response[q].gz
  BY DEF TypeOK
<1> QED
  BY <1>1 DEF TypeOK, EncodersApart, EncodersExclusive

\* The panic is recovered from.
LEMMA RecoverStep ==
    ASSUME Inv, NEW p \in Requests, Recover(p)
    PROVE  Inv'
<1> DEFINE r == response[p]
           header == [r.header EXCEPT !.length = None, !.type = "text"]
           x == [r EXCEPT !.header = header]
           h == NetWriteHeader(x, 500)
           s == NetWrite(h, Error)
<1>1. /\ pc[p] = "recover"
      /\ response' = [response EXCEPT ![p] = s]
      /\ GoTo(p, "flush")
      /\ UNCHANGED <<kind, broken, flawed, logged, pool, left>>
  <2>1. [r EXCEPT !.header.length = None, !.header.type = "text"] = x
    OBVIOUS
  <2>2. response' = [response EXCEPT ![p] = NetWrite(NetWriteHeader(
            [r EXCEPT !.header.length = None, !.header.type = "text"], 500), Error)]
    BY DEF Recover
  <2> QED
    BY <2>1, <2>2 DEF Recover
<1>2. TypeOK /\ EncodersApart /\ Stands(p)
  BY DEF Inv
<1>3. r \in Answers /\ broken[p] \in BOOLEAN /\ flawed[p] \in BOOLEAN /\ left[p] \in Nat
  BY <1>2 DEF TypeOK
<1>4. /\ left[p] = 0 /\ logged[p] = 0 /\ broken[p] /\ r.gz = None
      /\ \/ r = Fresh(r.offers)
         \/ /\ r.status = 404 /\ r.body = <<>>
            /\ r.sent.encoding = None /\ r.sent.length = None
  BY <1>1, <1>2, <1>3 DEF Stands, Stand
<1>5. /\ header \in Headers /\ header.encoding = r.header.encoding /\ header.length = None
  BY <1>3 DEF Answers, Headers, Types
<1>6. \/ r.status = 0 /\ r.header.encoding = None
      \/ r.status = 404 /\ r.sent.encoding = None /\ r.sent.length = None
  <2>1. CASE r = Fresh(r.offers)
    <3>1. r.status = 0 /\ Sound(r)
      BY <1>3, <2>1, FreshFacts DEF Answers
    <3> QED
      BY <3>1 DEF Sound
  <2> QED
    BY <1>4, <2>1
<1>7. r.body = <<>>
  <2>1. CASE r = Fresh(r.offers)
    BY <1>3, <2>1, FreshFacts DEF Answers
  <2> QED
    BY <1>4, <2>1
<1> HIDE DEF r, header
<1>8. /\ x \in Answers /\ x.header = header /\ x.status = r.status /\ x.sent = r.sent
      /\ x.body = r.body /\ x.gz = r.gz
  BY <1>3, <1>5 DEF Answers
<1> HIDE DEF x
<1>9. /\ h \in Answers /\ h.status = Sent(x, 500) /\ h.header = x.header
      /\ h.body = x.body /\ h.gz = x.gz
      /\ h.sent = IF x.status = 0 THEN x.header ELSE x.sent
  BY <1>8, NetWriteHeaderFacts DEF Status
<1>10. /\ h.status \in {404, 500} /\ h.sent.encoding = None /\ h.sent.length = None
       /\ h.gz = None /\ h.body = <<>>
  BY <1>4, <1>5, <1>6, <1>7, <1>8, <1>9 DEF Sent, r
<1> HIDE DEF h
<1>11. /\ s \in Answers /\ s.status = h.status /\ s.gz = None
       /\ s.body = Append(h.body, Error)
       /\ s.sent.encoding = None /\ s.sent.length = None
  <2>1. Error \in Chunks
    BY DEF Error, Chunks
  <2> QED
    BY <1>9, <1>10, <2>1, NetWriteFacts DEF Sent
<1> HIDE DEF s
<1>12. Says(s, "error") /\ ~ShowsPage(s) /\ Decodes(s) /\ s.status # 0 /\ s.status >= 400
  <2>1. s.body = <<Error>>
    BY <1>10, <1>11
  <2>2. DOMAIN s.body = {1} /\ s.body[1] = Error
    BY <2>1
  <2>3. Error.form = "raw" /\ Error.text = "error"
    BY DEF Error
  <2>4. None # "gzip"
    BY NoneAssumption
  <2> QED
    BY <1>10, <1>11, <2>2, <2>3, <2>4 DEF Says, ShowsPage, Decodes
<1>13. Stand("flush", kind[p], s, 0, broken[p], flawed[p], logged[p])
  BY <1>4, <1>11, <1>12 DEF Stand
<1>14. EncodersApart' /\ pool' \subseteq Encoders
  BY <1>1, <1>2, <1>4, <1>11, SameEncoders DEF r
<1>15. left' = [left EXCEPT ![p] = 0]
  BY <1>1, <1>2, <1>4 DEF TypeOK
<1>16. pc' = [pc EXCEPT ![p] = "flush"] /\ UNCHANGED <<kind, broken, flawed, logged>>
  BY <1>1 DEF GoTo
<1> QED
  BY <1>1, <1>11, <1>13, <1>14, <1>15, <1>16, TurnStep

\* The encoder writes its last bytes.
LEMMA CloseEncoderStep ==
    ASSUME Inv, NEW p \in Requests, CloseEncoder(p)
    PROVE  Inv'
<1> DEFINE r == response[p]
           s == NetWrite(r, Trailer)
<1>1. /\ pc[p] = "close"
      /\ response' = [response EXCEPT ![p] = s]
      /\ GoTo(p, "put")
      /\ UNCHANGED <<kind, broken, flawed, logged, pool, left>>
  BY DEF CloseEncoder
<1>2. TypeOK /\ EncodersApart /\ Stands(p)
  BY DEF Inv
<1>3. r \in Answers /\ broken[p] \in BOOLEAN /\ flawed[p] \in BOOLEAN /\ left[p] \in Nat
  BY <1>2 DEF TypeOK
<1>4. /\ left[p] = 0 /\ logged[p] = 0 /\ ~broken[p] /\ r.gz # None
      /\ Sound(r) /\ r.status # 0
      /\ flawed[p] \/ kind[p] = "missing" => Says(r, "error")
      /\ Says(r, "error") => r.status >= 400 /\ ~ShowsPage(r)
      /\ r.recorded = r.status \/ (kind[p] = "missing" /\ flawed[p] /\ ~r.offers)
  BY <1>1, <1>2, <1>3 DEF Stands, Stand
<1> HIDE DEF r
<1>5. /\ s \in Answers /\ s.status = r.status /\ s.offers = r.offers
      /\ s.gz = r.gz /\ s.recorded = r.recorded
      /\ s.body = Append(r.body, Trailer)
      /\ s.sent.encoding = r.sent.encoding /\ s.sent.length = r.sent.length
      /\ Trailer \in Chunks
  <2>1. Trailer \in Chunks
    BY DEF Trailer, Chunks
  <2> QED
    BY <1>3, <1>4, <2>1, NetWriteFacts DEF Sent
<1> HIDE DEF s
<1>6. /\ SaysMore(r, s, {Trailer.text})
      /\ Len(r.body) \in Nat /\ Len(s.body) = Len(r.body) + 1
      /\ s.body # <<>> /\ s.body[Len(s.body)] = Trailer
      /\ \A i \in DOMAIN r.body : s.body[i] = r.body[i]
      /\ DOMAIN r.body = 1 .. Len(r.body)
  <2>1. s \in Answers /\ Trailer \in Chunks /\ s.body = Append(r.body, Trailer)
    BY <1>5
  <2> QED
    BY <1>3, <2>1, AppendFacts
<1>7. Says(s, "error") <=> Says(r, "error")
  BY <1>6 DEF SaysMore, Trailer
<1>8. ShowsPage(s) <=> ShowsPage(r)
  BY <1>6 DEF SaysMore, Trailer, ShowsPage
<1>9. Decodes(s)
  <2>1. s.sent.encoding = "gzip" /\ s.sent.length = None
    BY <1>4, <1>5 DEF Sound
  <2>2. \A i \in 1 .. Len(s.body) - 1 : s.body[i].form = "gzip"
    <3>1. Len(s.body) - 1 = Len(r.body)
      BY <1>6
    <3>2. \A i \in DOMAIN r.body : r.body[i].form = "gzip"
      BY <1>4 DEF Sound
    <3> QED
      BY <1>6, <3>1, <3>2
  <2> QED
    BY <1>6, <2>1, <2>2 DEF Decodes
<1>10. Stand("put", kind[p], s, 0, broken[p], flawed[p], logged[p])
  BY <1>4, <1>5, <1>7, <1>8, <1>9 DEF Stand
<1>11. EncodersApart' /\ pool' \subseteq Encoders
  BY <1>1, <1>2, <1>5, SameEncoders DEF r
<1>12. left' = [left EXCEPT ![p] = 0]
  BY <1>1, <1>2, <1>4 DEF TypeOK
<1>13. pc' = [pc EXCEPT ![p] = "put"] /\ UNCHANGED <<kind, broken, flawed, logged>>
  BY <1>1 DEF GoTo
<1> QED
  BY <1>1, <1>5, <1>10, <1>11, <1>12, <1>13, TurnStep

\* The encoder goes back to the pool.
LEMMA PutEncoderStep ==
    ASSUME Inv, NEW p \in Requests, PutEncoder(p)
    PROVE  Inv'
<1> DEFINE r == response[p]
           s == [r EXCEPT !.gz = None]
           step == AfterLog(p)
<1>1. /\ pc[p] = "put"
      /\ pool' = pool \cup {r.gz}
      /\ response' = [response EXCEPT ![p] = s]
      /\ pc' = [pc EXCEPT ![p] = step]
      /\ UNCHANGED <<kind, broken, flawed, logged, left>>
  BY DEF PutEncoder, GoTo
<1>2. TypeOK /\ EncodersApart /\ Stands(p)
  BY DEF Inv
<1>3. r \in Answers /\ broken[p] \in BOOLEAN /\ flawed[p] \in BOOLEAN /\ left[p] \in Nat
  BY <1>2 DEF TypeOK
<1>4. /\ left[p] = 0 /\ logged[p] = 0 /\ ~broken[p] /\ r.gz # None
      /\ r.status # 0 /\ Decodes(r)
      /\ flawed[p] \/ kind[p] = "missing" => Says(r, "error")
      /\ Says(r, "error") => r.status >= 400 /\ ~ShowsPage(r)
      /\ r.recorded = r.status \/ (kind[p] = "missing" /\ flawed[p] /\ ~r.offers)
  BY <1>1, <1>2, <1>3 DEF Stands, Stand
<1>5. step \in {"log", "flush"}
  BY DEF AfterLog
<1> HIDE DEF step
<1>6. /\ s \in Answers /\ s.gz = None /\ s.status = r.status /\ s.offers = r.offers
      /\ s.recorded = r.recorded /\ s.body = r.body /\ s.sent = r.sent
  BY <1>3 DEF Answers
<1>7. EncodersApart' /\ pool' \subseteq Encoders
  <2>1. r.gz \in Encoders /\ None \notin pool
    BY <1>2, <1>3, <1>4, NoneAssumption DEF Answers, TypeOK
  <2>2. \A q \in Requests : response'[q].gz = IF q = p THEN None ELSE response[q].gz
    BY <1>1, <1>2, <1>6 DEF TypeOK
  <2>3. \A q \in Requests : q # p => response[q].gz # r.gz
    BY <1>2, <1>4 DEF EncodersApart, EncodersExclusive
  <2>4. pool' = pool \cup {r.gz} /\ pool \subseteq Encoders
    BY <1>1, <1>2 DEF TypeOK
  <2>5. \A q \in Requests : response'[q].gz \notin pool'
    BY <1>2, <1>4, <2>1, <2>2, <2>3, <2>4 DEF EncodersApart
  <2>6. EncodersExclusive'
    BY <1>2, <2>2 DEF EncodersApart, EncodersExclusive
  <2> QED
    BY <2>1, <2>4, <2>5, <2>6 DEF EncodersApart
<1> HIDE DEF s
<1>8. Says(s, "error") <=> Says(r, "error")
  BY <1>6 DEF Says
<1>9. ShowsPage(s) <=> ShowsPage(r)
  BY <1>6 DEF Says, ShowsPage
<1>10. Decodes(s)
  BY <1>4, <1>6 DEF Decodes
<1>11. Stand(step, kind[p], s, 0, broken[p], flawed[p], logged[p])
  BY <1>4, <1>5, <1>6, <1>8, <1>9, <1>10 DEF Stand
<1>12. left' = [left EXCEPT ![p] = 0]
  BY <1>1, <1>2, <1>4 DEF TypeOK
<1>13. step \in {"copy", "close", "put", "log", "recover", "flush", "sent"}
  BY <1>5
<1> QED
  BY <1>1, <1>6, <1>7, <1>11, <1>12, <1>13, TurnStep

\* The pool drops an encoder.
LEMMA PoolForgetsStep ==
    ASSUME Inv, NEW e \in Encoders, PoolForgets(e)
    PROVE  Inv'
<1>1. TypeOK' /\ EncodersApart'
  BY DEF Inv, PoolForgets, TypeOK, EncodersApart, EncodersExclusive
<1>2. ASSUME NEW p \in Requests PROVE Stands(p)'
  BY DEF Inv, PoolForgets, Stands
<1> QED
  BY <1>1, <1>2 DEF Inv

\* The request is logged.
LEMMA LogStep ==
    ASSUME Inv, NEW p \in Requests, Log(p)
    PROVE  Inv'
<1> DEFINE r == response[p]
<1>1. /\ pc[p] = "log"
      /\ logged' = [logged EXCEPT ![p] = r.recorded]
      /\ pc' = [pc EXCEPT ![p] = "flush"]
      /\ UNCHANGED <<kind, response, broken, flawed, pool, left>>
  BY DEF Log, GoTo
<1>2. TypeOK /\ EncodersApart /\ Stands(p)
  BY DEF Inv
<1>3. r \in Answers /\ r.recorded \in Status
      /\ broken[p] \in BOOLEAN /\ flawed[p] \in BOOLEAN /\ left[p] \in Nat
  BY <1>2 DEF TypeOK, Answers
<1>4. /\ pc'[p] = "flush" /\ kind'[p] = kind[p] /\ response'[p] = r /\ left'[p] = left[p]
      /\ broken'[p] = broken[p] /\ flawed'[p] = flawed[p] /\ logged'[p] = r.recorded
      /\ Alone(p) /\ TypeOK' /\ EncodersApart'
  BY <1>1, <1>2, <1>3 DEF TypeOK, Alone, EncodersApart, EncodersExclusive
<1>5. Stand("log", kind[p], r, left[p], broken[p], flawed[p], logged[p])
  BY <1>1, <1>2 DEF Stands
<1> HIDE DEF r
<1>6. Stand("flush", kind[p], r, left[p], broken[p], flawed[p], r.recorded)
  BY <1>3, <1>5 DEF Stand
<1>7. Stands(p)'
  BY <1>4, <1>6 DEF Stands
<1> QED
  BY <1>4, <1>7, InvAlone

\* net/http sends what the handler left to it.
LEMMA FlushStep ==
    ASSUME Inv, NEW p \in Requests, Flush(p)
    PROVE  Inv'
<1> DEFINE r == response[p]
           s == NetWriteHeader(r, 200)
<1>1. /\ pc[p] = "flush"
      /\ response' = [response EXCEPT ![p] = s]
      /\ pc' = [pc EXCEPT ![p] = "sent"]
      /\ UNCHANGED <<kind, broken, flawed, logged, pool, left>>
  BY DEF Flush, GoTo
<1>2. TypeOK /\ EncodersApart /\ Stands(p)
  BY DEF Inv
<1>3. r \in Answers /\ broken[p] \in BOOLEAN /\ flawed[p] \in BOOLEAN /\ left[p] \in Nat
  BY <1>2 DEF TypeOK
<1>4. Stand("flush", kind[p], r, left[p], broken[p], flawed[p], logged[p])
  BY <1>1, <1>2 DEF Stands
<1>5. /\ s \in Answers /\ s.status = Sent(r, 200) /\ s.body = r.body /\ s.offers = r.offers
      /\ s.gz = r.gz /\ s.recorded = r.recorded
      /\ s.sent = IF r.status = 0 THEN r.header ELSE r.sent
  BY <1>3, NetWriteHeaderFacts DEF Status
<1>6. left[p] = 0
  BY <1>3, <1>4 DEF Stand
<1>7. Stand("sent", kind[p], s, left[p], broken[p], flawed[p], logged[p])
  <2>1. CASE r.status = 0
    <3>1. r = Fresh(r.offers)
      BY <1>4, <2>1 DEF Stand
    <3>2. /\ r.body = <<>> /\ r.recorded = 200 /\ r.header = NoHeader
          /\ r.gz = None /\ \A t : ~Says(r, t)
      <4>1. r.offers \in BOOLEAN
        BY <1>3 DEF Answers
      <4> QED
        BY <3>1, <4>1, FreshFacts DEF Fresh
    <3> HIDE DEF r, s
    <3>3. /\ s.status = 200 /\ s.recorded = 200 /\ s.sent = NoHeader /\ s.body = <<>> /\ s.gz = None
      BY <1>5, <2>1, <3>2 DEF Sent
    <3>4. Decodes(s)
      BY <3>3, NoneAssumption DEF Decodes, NoHeader
    <3>5. \A t : ~Says(s, t)
      BY <3>3 DEF Says
    <3>6. ~flawed[p] /\ ~broken[p]
      BY <1>4, <3>2 DEF Stand
    <3> QED
      BY <1>4, <1>5, <1>6, <3>2, <3>3, <3>4, <3>5, <3>6 DEF Stand
  <2>2. CASE r.status # 0
    <3>1. s = r
      BY <2>2 DEF NetWriteHeader
    <3>2. Decodes(r)
      <4>1. r.offers \in BOOLEAN /\ r # Fresh(r.offers)
        BY <1>3, <2>2, FreshFacts DEF Answers
      <4> QED
        BY <1>4, <4>1 DEF Stand
    <3> HIDE DEF r, s
    <3>3. Stand("sent", kind[p], r, left[p], broken[p], flawed[p], logged[p])
      BY <1>4, <1>6, <2>2, <3>2 DEF Stand
    <3> QED
      BY <3>1, <3>3
  <2> QED
    BY <2>1, <2>2
<1> HIDE DEF s
<1>8. EncodersApart' /\ pool' \subseteq Encoders
  BY <1>1, <1>2, <1>5, SameEncoders
<1>9. left' = [left EXCEPT ![p] = left[p]]
  BY <1>1, <1>2 DEF TypeOK
<1> QED
  BY <1>1, <1>3, <1>5, <1>7, <1>8, <1>9, TurnStep

-----------------------------------------------------------------------------
(* The theorems.                                                           *)

\* Nothing has been sent at first.
LEMMA InvInit == Init => Inv
<1> SUFFICES ASSUME Init PROVE Inv
  OBVIOUS
<1>1. Fresh(FALSE) \in Answers /\ Fresh(FALSE).gz = None
  BY FreshFacts
<1>2. TypeOK
  <2>1. response \in [Requests -> Answers]
    BY <1>1 DEF Init
  <2>2. logged \in [Requests -> Status] /\ left \in [Requests -> Nat] /\ pool \subseteq Encoders
    BY DEF Init, Status
  <2>3. broken \in [Requests -> BOOLEAN] /\ flawed \in [Requests -> BOOLEAN]
    BY DEF Init
  <2> QED
    BY <2>1, <2>2, <2>3 DEF Init, TypeOK
<1>3. EncodersApart
  BY <1>1 DEF Init, EncodersApart, EncodersExclusive
<1>4. ASSUME NEW p \in Requests PROVE Stands(p)
  <2>1. Stand("idle", None, Fresh(FALSE), 0, FALSE, FALSE, 0)
    BY FreshStands
  <2> QED
    BY <2>1 DEF Init, Stands
<1> QED
  BY <1>2, <1>3, <1>4 DEF Inv

\* Every step leaves every response standing.
LEMMA InvStep == Inv /\ [Next]_vars => Inv'
<1> SUFFICES ASSUME Inv, [Next]_vars PROVE Inv'
  OBVIOUS
<1>1. ASSUME NEW p \in Requests, NEW k \in Kinds, NEW offers \in BOOLEAN, Arrive(p, k, offers)
      PROVE  Inv'
  BY <1>1, ArriveStep
<1>2. ASSUME NEW p \in Requests, Serve(p) PROVE Inv'
  <2>1. ASSUME NEW e \in Obtainable, NEW fails \in BOOLEAN, ServeRendered(p, fails, e) PROVE Inv'
    BY <2>1, ServeRenderedStep
  <2>2. ASSUME NEW e \in Obtainable, ServeBrief(p, e) PROVE Inv'
    BY <2>2, ServeBriefStep
  <2>3. ASSUME NEW e \in Obtainable, NEW n \in AssetSizes, ServeAsset(p, n, e) PROVE Inv'
    BY <2>3, ServeAssetStep
  <2>4. CASE CopyMore(p)
    BY <2>4, CopyMoreStep
  <2>5. CASE Panic(p)
    BY <2>5, PanicStep
  <2>6. CASE Recover(p)
    BY <2>6, RecoverStep
  <2>7. CASE CloseEncoder(p)
    BY <2>7, CloseEncoderStep
  <2>8. CASE PutEncoder(p)
    BY <2>8, PutEncoderStep
  <2>9. CASE Log(p)
    BY <2>9, LogStep
  <2>10. CASE Flush(p)
    BY <2>10, FlushStep
  <2> QED
    BY <1>2, <2>1, <2>2, <2>3, <2>4, <2>5, <2>6, <2>7, <2>8, <2>9, <2>10 DEF Serve
<1>3. ASSUME NEW e \in Encoders, PoolForgets(e) PROVE Inv'
  BY <1>3, PoolForgetsStep
<1>4. CASE UNCHANGED vars
  BY <1>4 DEF vars, Inv, TypeOK, EncodersApart, EncodersExclusive, Stands
<1> QED
  BY <1>1, <1>2, <1>3, <1>4 DEF Next

\* Responses stand in every behaviour.
LEMMA Invariant == Spec => []Inv
BY InvInit, InvStep, PTL DEF Spec

\* Every variable keeps its type.
THEOREM ResponsesTyped == Spec => []TypeOK
<1>1. Inv => TypeOK
  BY DEF Inv
<1> QED
  BY <1>1, Invariant, PTL

\* A finished response is what its headers say (compress.go:73-137,
\* middleware.go:101-111).
THEOREM ResponsesCoherent == Spec => []ResponseCoherent
<1>1. Inv => ResponseCoherent
  BY DEF Inv, Stands, Stand, ResponseCoherent
<1> QED
  BY <1>1, Invariant, PTL

\* No page of renderError and no text of http.Error goes out under a status of
\* success, nor after a part of the page it should have been; and whatever fails
\* or is not there ends in one of them.  A banner on a page is none
\* (render.go:140-167, middleware.go:101-111, handlers.go:652-657).
THEOREM ResponsesErrorsHaveErrorStatus == Spec => []ErrorsHaveErrorStatus
<1>1. Inv => ErrorsHaveErrorStatus
  BY DEF Inv, Stands, Stand, ErrorsHaveErrorStatus
<1> QED
  BY <1>1, Invariant, PTL

\* Two responses never write through the same encoder, for any number of requests
\* and encoders (compress.go:100-101, 130-137).
THEOREM ResponsesEncodersExclusive == Spec => []EncodersExclusive
<1>1. Inv => EncodersExclusive
  BY DEF Inv, EncodersApart
<1> QED
  BY <1>1, Invariant, PTL

\* The access log tells the status that was sent, but for an error page whose own
\* template fails (middleware.go:62-65, 81-98; handlers.go:652-657).
THEOREM ResponsesLogTellsStatus == Spec => []LogTellsStatus
<1>1. Inv => LogTellsStatus
  BY DEF Inv, Stands, Stand, LogTellsStatus
<1> QED
  BY <1>1, Invariant, PTL
=============================================================================
