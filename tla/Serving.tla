------------------------------- MODULE Serving -------------------------------
(***************************************************************************)
(* The life of the process: run (main.go) loads the configuration, makes   *)
(* the server and runs it (server.go, New and Run) until a signal, after   *)
(* which requests in flight have a while to end; and meanwhile the health  *)
(* cache (server.go) with the probes that fill it (handlers.go,            *)
(* handleRegistryHealth) and the pages that show it (layout).              *)
(*                                                                         *)
(* Time is in ages that are counted up to where they stop to matter.       *)
(***************************************************************************)
EXTENDS Configuration, Integers

CONSTANTS
    Visitors,          \* requests at a time
    Environments,      \* environments of the process: functions from variables
    HealthTTL,         \* thirty seconds
    ProbeTimeout,      \* the longest that Ping takes
    ShutdownTimeout

ASSUME TimesAssumption == /\ {HealthTTL, ProbeTimeout} \subseteq Nat
                          /\ ShutdownTimeout \in Nat \ {0}

VARIABLES
    stage,        \* of run: see Stages
    config,       \* the file, the environment and what was made of them
    listener,     \* of Run: the goroutine that listens
    signalled,    \* SIGINT or SIGTERM has come
    grace,        \* what is left of the shutdown's timeout
    exit,         \* the process's exit status, 0 or 1
    visit,        \* what each request is at
    health,       \* healthCache, by registry
    up,           \* registry: whether it can be reached
    sinceUp, sinceDown,   \* history: how long ago it last could, and could not
    waited,       \* history: time since the shutdown began
    cut           \* history: requests that ended with the process

processVars == <<stage, config, listener, signalled, grace, exit, waited, cut>>
healthVars == <<health, up, sinceUp, sinceDown>>
servingVars == <<processVars, healthVars, visit>>

Stages == {"off", "configured", "ready", "running", "draining", "stopped"}

NoFile == [doc |-> Unset, env |-> Unset, cfg |-> Unset]
Served == IF config.cfg = Unset THEN {} ELSE ToSet(Ids(config.cfg))

AtRest == [step |-> "idle", registry |-> Unset, age |-> 0, left |-> FALSE, verdict |-> Unset]
Never == [state |-> Unset, age |-> 0, left |-> FALSE]

ServingInit == /\ stage = "off" /\ config = NoFile
               /\ listener = "none" /\ signalled = FALSE
               /\ grace = 0 /\ exit = Unset /\ waited = 0 /\ cut = {}
               /\ visit = [v \in Visitors |-> AtRest]
               /\ health = <<>> /\ up = <<>> /\ sinceUp = <<>> /\ sinceDown = <<>>

-----------------------------------------------------------------------------
(* Starting.                                                               *)

Stop(status) == stage' = "stopped" /\ exit' = status

\* config.Load, of whatever is at the path and in the environment.
Load ==
    /\ stage = "off"
    /\ \E doc \in Documents, env \in Environments :
          config' = [doc |-> doc, env |-> env, cfg |-> Parse(doc, env)]
    /\ IF config'.cfg = Unset THEN Stop(1) ELSE stage' = "configured" /\ UNCHANGED exit
    /\ UNCHANGED <<listener, signalled, grace, waited, cut, healthVars, visit>>

\* -check says that the configuration is valid.
CheckOnly == /\ stage = "configured"
             /\ Stop(0)
             /\ UNCHANGED <<config, listener, signalled, grace, waited, cut, healthVars, visit>>

\* registry.New makes a client of every registry, or the server is not made.
ClientsMade(cfg) == \A r \in ToSet(cfg.registries) : BaseURLAccepted(r.url) /\ r.type \in AuthTypes

\* server.New.
New == /\ stage = "configured"
       /\ IF ClientsMade(config.cfg) THEN stage' = "ready" /\ UNCHANGED exit ELSE Stop(1)
       /\ health' = [r \in Served |-> Never]
       /\ up' \in [Served -> BOOLEAN]
       /\ sinceUp' = [r \in Served |-> IF up'[r] THEN 0 ELSE HealthTTL + ProbeTimeout + 1]
       /\ sinceDown' = [r \in Served |-> IF up'[r] THEN HealthTTL + ProbeTimeout + 1 ELSE 0]
       /\ UNCHANGED <<config, listener, signalled, grace, waited, cut, visit>>

-----------------------------------------------------------------------------
(* Run.                                                                    *)

Run == /\ stage = "ready"
       /\ stage' = "running"
       /\ UNCHANGED <<config, listener, signalled, grace, exit, waited, cut, healthVars, visit>>

\* ListenAndServe in its goroutine, unless the shutdown came first.
Listen(result) ==
    /\ stage = "running" /\ listener = "none"
    /\ listener' = result
    /\ UNCHANGED <<stage, config, signalled, grace, exit, waited, cut, healthVars, visit>>

\* It also returns when a later Accept fails for good.
AcceptFails ==
    /\ stage = "running" /\ listener = "up"
    /\ listener' = "failed"
    /\ UNCHANGED <<stage, config, signalled, grace, exit, waited, cut, healthVars, visit>>

\* A signal, once signal.NotifyContext is there to take it.
Signal == /\ stage \in {"ready", "running", "draining"} /\ ~signalled
          /\ signalled' = TRUE
          /\ UNCHANGED <<stage, config, listener, grace, exit, waited, cut, healthVars, visit>>

InFlight == {v \in Visitors : visit[v].step # "idle"}

\* The requests in flight end with the process.
CutOff == cut' = InFlight /\ visit' = [v \in Visitors |-> AtRest]

\* The select of Run: the listener's error, which ends run at once, ...
ListenFailed == /\ stage = "running" /\ listener = "failed"
                /\ Stop(1)
                /\ CutOff
                /\ UNCHANGED <<config, listener, signalled, grace, waited, healthVars>>

\* Mutant: the shutdown's context is derived from the one that is cancelled.
NoGrace == 0

\* The shutdown's context has a timeout of its own.
Grace == ShutdownTimeout

\* ... or the signal.  Shutdown closes the listener.
BeginShutdown == /\ stage = "running" /\ signalled
                 /\ stage' = "draining"
                 /\ listener' = "closed"
                 /\ grace' = Grace
                 /\ waited' = 0
                 /\ UNCHANGED <<config, signalled, exit, cut, healthVars, visit>>

\* Shutdown returns when no connection is busy ...
Drained == /\ stage = "draining" /\ InFlight = {}
           /\ Stop(0)
           /\ UNCHANGED <<config, listener, signalled, grace, waited, cut, healthVars, visit>>

\* ... or with its context's error.
ShutdownTimesOut == /\ stage = "draining" /\ grace = 0
                    /\ Stop(1)
                    /\ CutOff
                    /\ UNCHANGED <<config, listener, signalled, grace, waited, healthVars>>

-----------------------------------------------------------------------------
(* Requests and the health cache.                                          *)

\* Mutant: a verdict is kept until the next one.
CurrentForEver(r) == health[r].state # Unset

\* healthCache.get.
Current(r) == health[r].state # Unset /\ health[r].age <= HealthTTL

\* What layout and handleRegistryHealth take from the cache.
Verdict(r) == IF Current(r) THEN health[r].state ELSE "unknown"

\* Any request but a probe; it takes as long as it takes.
Connect(v) == /\ listener = "up" /\ visit[v] = AtRest
              /\ visit' = [visit EXCEPT ![v].step = "page"]
              /\ UNCHANGED <<processVars, healthVars>>

Finish(v) == /\ visit[v].step = "page"
             /\ visit' = [visit EXCEPT ![v] = AtRest]
             /\ UNCHANGED <<processVars, healthVars>>

\* handleRegistryHealth without a verdict to show: Ping.
Probe(v, r) == /\ listener = "up" /\ visit[v] = AtRest
               /\ Verdict(r) = "unknown"
               /\ visit' = [visit EXCEPT ![v].step = "probe", ![v].registry = r]
               /\ UNCHANGED <<processVars, healthVars>>

\* The visitor goes to another page, and the request's context is cancelled.
GoAway(v) == /\ visit[v].step = "probe" /\ ~visit[v].left
             /\ visit' = [visit EXCEPT ![v].left = TRUE]
             /\ UNCHANGED <<processVars, healthVars>>

\* Ping returns: whether the registry answers, or that the context is cancelled.
Pinged(v) ==
    /\ visit[v].step = "probe"
    /\ \E verdict \in {IF up[visit[v].registry] THEN "ok" ELSE "down"}
                      \cup (IF visit[v].left THEN {"down"} ELSE {}) :
          visit' = [visit EXCEPT ![v].step = "pinged", ![v].verdict = verdict]
    /\ UNCHANGED <<processVars, healthVars>>

\* healthCache.set, whatever is there by now.
Remember(v) ==
    /\ visit[v].step = "pinged"
    /\ health' = [health EXCEPT ![visit[v].registry] =
                    [state |-> visit[v].verdict, age |-> 0, left |-> visit[v].left]]
    /\ visit' = [visit EXCEPT ![v] = AtRest]
    /\ UNCHANGED <<processVars, up, sinceUp, sinceDown>>

ComesOrGoes(r) == /\ up' = [up EXCEPT ![r] = ~@]
                  /\ sinceUp' = [sinceUp EXCEPT ![r] = 0]
                  /\ sinceDown' = [sinceDown EXCEPT ![r] = 0]
                  /\ UNCHANGED <<processVars, health, visit>>

UpTo(bound, n) == IF n < bound THEN n ELSE bound

\* A probe ends within its timeout.
Tick ==
    /\ stage \in {"running", "draining"}
    /\ \A v \in Visitors : visit[v].step \in {"probe", "pinged"} => visit[v].age < ProbeTimeout
    /\ visit' = [v \in Visitors |-> IF visit[v].step \in {"probe", "pinged"}
                                    THEN [visit[v] EXCEPT !.age = @ + 1] ELSE visit[v]]
    /\ health' = [r \in Served |-> [health[r] EXCEPT
                    !.age = IF health[r].state = Unset THEN 0 ELSE UpTo(HealthTTL + 1, @ + 1)]]
    /\ LET Aged(r, n, now) == IF now THEN 0 ELSE UpTo(HealthTTL + ProbeTimeout + 1, n + 1)
       IN  /\ sinceUp' = [r \in Served |-> Aged(r, sinceUp[r], up[r])]
           /\ sinceDown' = [r \in Served |-> Aged(r, sinceDown[r], ~up[r])]
    /\ grace' = IF grace > 0 THEN grace - 1 ELSE 0
    /\ waited' = IF stage = "draining" THEN UpTo(ShutdownTimeout, waited + 1) ELSE waited
    /\ UNCHANGED <<stage, config, listener, signalled, exit, up, cut>>

\* The process is killed, or was stopped, and is started anew: nothing is kept.
StartAgain ==
    /\ stage # "off"
    /\ stage' = "off" /\ config' = NoFile /\ listener' = "none" /\ signalled' = FALSE
    /\ grace' = 0 /\ exit' = Unset /\ waited' = 0 /\ cut' = {}
    /\ visit' = [v \in Visitors |-> AtRest]
    /\ health' = <<>> /\ up' = <<>> /\ sinceUp' = <<>> /\ sinceDown' = <<>>

Starts == CheckOnly \/ New \/ Run \/ ListenFailed
Stops == BeginShutdown \/ Drained \/ ShutdownTimesOut
ProbeGoesOn(v) == Pinged(v) \/ Remember(v)

ServingNext ==
    \/ Load \/ Starts \/ Stops \/ Signal \/ StartAgain
    \/ \E result \in {"up", "failed"} : Listen(result)
    \/ AcceptFails
    \/ \E v \in Visitors : Connect(v) \/ Finish(v) \/ GoAway(v) \/ ProbeGoesOn(v)
    \/ \E v \in Visitors, r \in DOMAIN health : Probe(v, r)
    \/ \E r \in DOMAIN up : ComesOrGoes(r)
    \/ Tick

\* Time goes on, probes time out, and Run goes on; nothing is said of other
\* requests and of signals.
ServingFairness == /\ WF_servingVars(Tick) /\ WF_servingVars(Starts) /\ WF_servingVars(Stops)
                   /\ \A v \in Visitors : WF_servingVars(ProbeGoesOn(v))

ServingSpec == ServingInit /\ [][ServingNext]_servingVars /\ ServingFairness

-----------------------------------------------------------------------------
\* A configuration that is accepted can be served, as -check promises: every
\* client can be made of it, every registry is the one its id finds, the front
\* page has a registry to go to that is the one asked for, and nothing that any
\* scalar or secret refers to was unset (config.go:122-164, 218-372;
\* client.go:106-116, 165-191).
ConfigUsable ==
    config.cfg # Unset =>
        LET cfg == config.cfg
        IN  /\ ClientsMade(cfg)
            /\ \A i \in DOMAIN cfg.registries :
                   LET r == cfg.registries[i]
                   IN  /\ Places(cfg, r.id) = {i} /\ r.id # ""
                       /\ r.type = "bearer" => r.token # ""
                       /\ {r.passwordEnv, r.tokenEnv} \subseteq {""} \cup DOMAIN config.env
            /\ Default(cfg).id = cfg.default
            /\ \A s \in Scalars(config.doc) :
                   s.var \in {""} \cup DOMAIN config.env \/ s.fallback # Unset

\* What a page says of a registry was so at some moment of the verdict's
\* lifetime and its probe, whichever of several probes was remembered last;
\* except that the probe of a visitor who went away says "down"
\* (server.go:220-235, handlers.go:571-586, 687-689).
VerdictHonest ==
    \A r \in DOMAIN health :
        /\ Verdict(r) = "ok" => sinceUp[r] <= HealthTTL + ProbeTimeout
        /\ Verdict(r) = "down" => sinceDown[r] <= HealthTTL + ProbeTimeout \/ health[r].left

\* Once it has been told to stop the process ends, although requests may never
\* end; it cuts a request off only after the timeout, or when its listener fails
\* under it, and says so by its exit status (server.go:165-200, main.go:22-69).
StopsGracefully ==
    /\ [](cut # {} => (waited >= ShutdownTimeout \/ listener = "failed") /\ exit = 1)
    /\ signalled ~> stage \in {"stopped", "off"}
=============================================================================
