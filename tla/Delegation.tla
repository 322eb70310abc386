----------------------------- MODULE Delegation -----------------------------
(***************************************************************************)
(* What a run runs with: how the model, the provider, the endpoint, the     *)
(* iteration cap, the edit limits and the MCP servers of an agent are       *)
(* resolved from flags, config, manifest and credentials                   *)
(* (runner/run.go ResolveModelPrecedence, cmd/squad/run.go and pipeline.go),*)
(* and what a child started by the Task tool takes over from its parent     *)
(* (runner/model.go buildTaskConfig).                                      *)
(*                                                                         *)
(* `frames' is the chain of invocations that are active: the run that was   *)
(* started, the child it waits for, that child's child.  One run follows    *)
(* the other under the same environment and config.                        *)
(***************************************************************************)
EXTENDS DelegationPromise

CONSTANTS
  Manifest,  \* agent -> what its agent.yaml says
  Stages,    \* stages of composed agents: [agent, inline, mode, override, mcp]
  Flags,     \* command lines: [provider, model, url, mode, iter, explicit, dry, mcp]
  Configs,   \* config files: [provider, model, url, token, iter, factor]
  Envs,      \* what is installed and set: sets of binaries and variables
  Modes,     \* the modes a Task call may ask for
  MaxDepth   \* tools.MaxTaskDepth + 1

Agents == DOMAIN Manifest

(* Iterations are numbers; whatever else a manifest, a command line or a     *)
(* config file says may be anything.                                        *)
DelegationAssumption ==
  /\ \A a \in Agents :
       /\ {"models", "iter", "caps", "comments"} \subseteq DOMAIN Manifest[a]
       /\ Manifest[a].models \in Seq(Range(Manifest[a].models))
       /\ Manifest[a].iter \in Int /\ Manifest[a].comments \in BOOLEAN
       /\ \A c \in DOMAIN Manifest[a].caps : Manifest[a].caps[c] \in Int
  /\ \A f \in Flags : f.iter \in Int /\ f.explicit \in BOOLEAN
  /\ \A c \in Configs : c.iter \in Int
  /\ \A s \in Stages : s.agent \in Agents

NoModel == [provider |-> "", model |-> "", url |-> ""]

VARIABLES
  env,     \* the binaries on PATH and the variables that are set
  config,  \* the config file
  last     \* what became of the last attempt to start one

vars == <<env, config, frames, last, edit>>

FirstOf(s) == LET i == SelectInSeq(s, LAMBDA x : x # "")
              IN  IF i = 0 THEN "" ELSE s[i]

-----------------------------------------------------------------------------
(* Providers and their credentials.                                         *)

normalizeProvider(p) ==
  CASE p = "google" -> "gemini"
    [] p = "claude" -> "claude-code"
    [] p = "agy" -> "antigravity"
    [] OTHER -> p

providerAPIKeyEnv ==
  [p \in {"openai", "anthropic", "gemini", "google", "openai-compat"} |->
     CASE p = "openai" -> {"OPENAI"}
       [] p = "anthropic" -> {"ANTHROPIC"}
       [] p \in {"gemini", "google"} -> {"GOOGLE"}
       [] p = "openai-compat" -> {"COMPAT", "OPENAI"}]

KeyMissing(provider, token) ==
  LET p == FirstOf(<<provider, "openai">>)
  IN  IF IsAgenticCLI(p) THEN AgenticCLIBinaries[p] \notin env
      ELSE p \in DOMAIN providerAPIKeyEnv /\ token = "" /\ env \cap providerAPIKeyEnv[p] = {}

(* What the clients of buildLLM need to be admitted: the token or their own *)
(* variable; the CLIs, to be installed.                                     *)
Authenticates(p, token) ==
  CASE IsAgenticCLI(p) -> AgenticCLIBinaries[p] \in env
    [] p = "ollama" -> TRUE
    [] ~IsAgenticCLI(p) /\ p # "ollama" ->
         \/ token # ""
         \/ env \cap providerAPIKeyEnv[FirstOf(<<p, "openai">>)] # {}

Builds(p, url) ==
  \/ p \in {"", "openai", "anthropic", "gemini", "ollama"}
  \/ p = "openai-compat" /\ url # ""

-----------------------------------------------------------------------------
(* ResolveModelPrecedence: the options o and the bundle b of a run decide    *)
(* the model, the provider and the endpoint.                                *)

Primary(b) == IF b.models = <<>> THEN NoModel ELSE b.models[1]

FindModel(b, p, m) ==
  LET i == SelectInSeq(b.models, LAMBDA e : e.provider = p /\ e.model = m)
  IN  IF p = "" \/ m = "" \/ i = 0 THEN NoModel ELSE b.models[i]

manifestModelFor(b, p) ==
  LET i == SelectInSeq(b.models, LAMBDA e : normalizeProvider(e.provider) = p)
  IN  IF i = 0 THEN "" ELSE b.models[i].model

fillBaseURL(o, hit, b) == FirstOf(<<o.url, hit.url, Primary(b).url>>)

applyExplicitModel(o, b) ==
  LET i == SelectInSeq(b.models, LAMBDA e : e.model = o.model)
      hit == IF o.provider # "" \/ i = 0 THEN NoModel ELSE b.models[i]
  IN  [o EXCEPT !.provider = FirstOf(<<@, hit.provider, Primary(b).provider, o.cprovider>>),
                !.url = fillBaseURL(o, hit, b)]

(* The tier NormalizeAntigravityModel appends to a name is left out.         *)
applyAgenticCLIModel(o, b, p) ==
  LET backing == IF p = "claude-code" THEN "anthropic" ELSE "gemini"
  IN  [o EXCEPT !.model = FirstOf(<<manifestModelFor(b, p), manifestModelFor(b, backing)>>)]

UseConfig(o, b) ==
  LET p == FirstOf(<<o.provider, o.cprovider>>)
  IN  [o EXCEPT !.model = o.cmodel, !.provider = p,
                !.url = fillBaseURL(o, FindModel(b, p, o.cmodel), b)]

applyConfigDefault(o, b) ==
  LET r == UseConfig(o, b)
  IN  [r EXCEPT !.warned = b.models # <<>> /\ FindModel(b, r.provider, r.model) = NoModel]

applyConfigDefaultUnauthenticated(o, b) == [UseConfig(o, b) EXCEPT !.warned = TRUE]

(* The first entry of the manifest with credentials, 0 if none has them.    *)
walkManifestForCreds(o, b) ==
  SelectInSeq(b.models, LAMBDA e : ~KeyMissing(e.provider, o.token))

UseEntry(o, b, i) ==
  [o EXCEPT !.model = b.models[i].model, !.provider = FirstOf(<<@, b.models[i].provider>>),
            !.url = fillBaseURL(o, b.models[i], b), !.warned = i > 1]

applyManifestTopUnauthenticated(o, b) == [UseEntry(o, b, 1) EXCEPT !.warned = TRUE]

(* A bundle without models has no primary to fall back to either.           *)
applyLegacyBundleFallback(o, b) ==
  [o EXCEPT !.model = FirstOf(<<@, Primary(b).model>>),
            !.provider = FirstOf(<<@, Primary(b).provider>>),
            !.url = FirstOf(<<@, Primary(b).url>>)]

ChosenByUser(o) == o.model # "" \/ IsAgenticCLI(normalizeProvider(o.provider))

noCredentialsError(o, b) ==
  /\ ~ChosenByUser(o) /\ o.cmodel = "" /\ ~o.dry
  /\ b.models # <<>> /\ walkManifestForCreds(o, b) = 0

ResolveModelPrecedence(o, b) ==
  CASE o.model # "" -> applyExplicitModel(o, b)
    [] o.model = "" /\ ChosenByUser(o) -> applyAgenticCLIModel(o, b, normalizeProvider(o.provider))
    [] ~ChosenByUser(o) /\ o.cmodel # "" /\ ~KeyMissing(o.cprovider, o.token) -> applyConfigDefault(o, b)
    [] ~ChosenByUser(o) /\ (o.cmodel = "" \/ KeyMissing(o.cprovider, o.token)) ->
         LET i == walkManifestForCreds(o, b)
         IN  CASE i # 0 -> UseEntry(o, b, i)
               [] i = 0 /\ o.cmodel # "" -> applyConfigDefaultUnauthenticated(o, b)
               [] i = 0 /\ o.cmodel = "" /\ o.dry /\ b.models # <<>> ->
                    applyManifestTopUnauthenticated(o, b)
               [] OTHER -> applyLegacyBundleFallback(o, b)

-----------------------------------------------------------------------------
(* Iteration budgets; factors are in halves.                                *)

clampInt(n, lo, hi) == IF n < lo THEN lo ELSE IF n > hi THEN hi ELSE n

Known(factor, m) == {k \in {m, "default"} \cap DOMAIN factor : factor[k] > 0}

lookupIterationFactor(factor, m) ==
  IF m \in Known(factor, m) THEN factor[m] ELSE factor["default"]

resolveModelFactor(b, m) ==
  CASE Known(b.factor, m) # {} -> lookupIterationFactor(b.factor, m)
    [] Known(b.factor, m) = {} /\ Known(config.factor, m) # {} ->
         lookupIterationFactor(config.factor, m)
    [] OTHER -> 2

resolveIterationBudget(o, b) ==
  LET base == IF b.iter > 0 THEN b.iter ELSE o.iter
  IN  IF o.explicit THEN o.iter
      ELSE clampInt((base * resolveModelFactor(b, o.model) + 1) \div 2, 10, 1000)

\* Mutant of applyChildIterationCap: the manifest's number is taken as it is.
ChildCapOfManifest(o, parent, b, a) ==
  IF b.iter > 0 THEN [o EXCEPT !.iter = b.iter, !.explicit = TRUE] ELSE o

applyChildIterationCap(o, parent, b, a) ==
  LET cap == ChildMaxIterations(parent, a)
      c == IF cap > 0 THEN [o EXCEPT !.iter = cap, !.explicit = TRUE] ELSE o
  IN  IF b.iter > 0 /\ (c.iter <= 0 \/ b.iter < c.iter)
      THEN [c EXCEPT !.iter = b.iter, !.explicit = TRUE] ELSE c

-----------------------------------------------------------------------------
(* Options and bundles.                                                     *)

newRunOptions(f) ==
  [mode |-> f.mode, provider |-> f.provider, model |-> f.model,
   cprovider |-> IF f.provider = "" THEN config.provider ELSE "",
   cmodel |-> IF f.model = "" THEN config.model ELSE "",
   url |-> FirstOf(<<f.url, config.url>>), token |-> config.token,
   iter |-> clampInt(IF f.explicit THEN f.iter ELSE config.iter, 10, 1000),
   explicit |-> f.explicit, dry |-> f.dry, mcp |-> f.mcp, dir |-> "agents", warned |-> FALSE]

(* The options of a composed agent's stages name no agents directory.       *)
buildComposedRunOpts(f) == [newRunOptions(f) EXCEPT !.dir = ""]

BuildBundle(a) == Manifest[a]

(* The models of an inline stage lose their base_url on the way into the     *)
(* pipeline, and of the rest of a manifest a stage has the edit limits.      *)
BuildBundleInline(a) ==
  [models |-> [i \in DOMAIN Manifest[a].models |-> [Manifest[a].models[i] EXCEPT !.url = ""]],
   comments |-> Manifest[a].comments, iter |-> 0, factor |-> <<>>, caps |-> <<>>,
   task |-> TRUE, needs |-> {}, mcp |-> {}, remote |-> FALSE]

BuildTransformBundle ==
  [models |-> <<>>, comments |-> FALSE, iter |-> 0, factor |-> <<>>, caps |-> <<>>,
   task |-> FALSE, needs |-> {}, mcp |-> {}, remote |-> FALSE]

applyStageMCPOverride(s, b) == IF s.override THEN [b EXCEPT !.mcp = s.mcp] ELSE b

buildAgentBundle(s) ==
  applyStageMCPOverride(s, IF s.inline THEN BuildBundleInline(s.agent) ELSE BuildBundle(s.agent))

effectiveStageMode(top, stage) == IF top = "readonly" THEN "readonly" ELSE stage

Preflight(b) == b.needs \subseteq env

modeRestrictsEdits(m) == m \in {"readonly", "plan"}

-----------------------------------------------------------------------------
Push(frame) == frames' = Append(frames, frame) /\ last' = "started"
Fails(why) == last' = why /\ UNCHANGED frames

NoLimits == [readonly |-> FALSE, comments |-> FALSE]
Limits == IF frames = <<>> THEN NoLimits ELSE Last(frames).limits

\* Mutant of applyReadOnlyMode: the mode of the call decides.
ReadOnlyByMode(limits, m) == [limits EXCEPT !.readonly = modeRestrictsEdits(m)]

applyReadOnlyMode(limits, m) == [limits EXCEPT !.readonly = @ \/ modeRestrictsEdits(m)]

applyEditRestrictions(limits, b) == [limits EXCEPT !.comments = @ \/ b.comments]

(* InvokeModel.  An external CLI gets no limits but those of its own mode    *)
(* and bundle; the frame keeps what was given it.                           *)
InvokeModel(a, flags, o, b) ==
  LET p == normalizeProvider(o.provider)
      cli == IsAgenticCLI(p)
  IN  IF \/ cli /\ (b.remote \/ b.comments)
         \/ p = "antigravity" /\ modeRestrictsEdits(o.mode)
         \/ ~cli /\ ~Builds(p, o.url)
      THEN Fails("refused")
      ELSE Push([agent |-> a, flags |-> flags, opts |-> o, bundle |-> b, provider |-> p,
                 limits |-> applyEditRestrictions(applyReadOnlyMode(Limits, o.mode), b),
                 cap |-> IF cli THEN 0 ELSE resolveIterationBudget(o, b),
                 mcp |-> IF cli THEN {} ELSE b.mcp \cup o.mcp])

Init ==
  /\ env \in Envs
  /\ config \in Configs
  /\ frames = <<>>
  /\ last = "none"
  /\ edit = Nothing

(* `squad run --agent a': prepareBundle, then InvokeModel.                   *)
ExecuteRun(a, f) ==
  /\ frames = <<>>
  /\ LET b == BuildBundle(a)
         o == ResolveModelPrecedence(newRunOptions(f), b)
     IN  CASE noCredentialsError(newRunOptions(f), b) -> Fails("no credentials")
           [] ~noCredentialsError(newRunOptions(f), b) /\ f.dry -> Fails("dry run")
           [] ~noCredentialsError(newRunOptions(f), b) /\ ~f.dry /\ ~Preflight(b) -> Fails("tool missing")
           [] OTHER -> InvokeModel(a, f, o, b)
  /\ edit' = Nothing /\ UNCHANGED <<env, config>>

(* `squad run --system' with no agent: the built-in transform.              *)
Transform(f) ==
  /\ frames = <<>> /\ ~f.dry
  /\ LET o == [newRunOptions(f) EXCEPT !.mode = "readonly"]
     IN  InvokeModel("transform", f, ResolveModelPrecedence(o, BuildTransformBundle), BuildTransformBundle)
  /\ edit' = Nothing /\ UNCHANGED <<env, config>>

(* The agent of a composed agent's stage (buildRunAgentFunc).                *)
RunStage(s, f) ==
  /\ frames = <<>> /\ ~f.dry
  /\ LET b == buildAgentBundle(s)
         o == [buildComposedRunOpts(f) EXCEPT !.mode = effectiveStageMode(f.mode, s.mode)]
     IN  IF noCredentialsError(o, b) THEN Fails("no credentials")
         ELSE InvokeModel(s.agent, f, ResolveModelPrecedence(o, b), b)
  /\ edit' = Nothing /\ UNCHANGED <<env, config>>

applyChildModelOverrides(o, b) ==
  [o EXCEPT !.model = FirstOf(<<Primary(b).model, @>>),
            !.provider = FirstOf(<<Primary(b).provider, @>>),
            !.url = FirstOf(<<@, Primary(b).url>>)]

(* The Task tool: a child is built from the directory of its parent and      *)
(* invoked with a copy of its parent's options.                             *)
Task(a, m) ==
  /\ frames # <<>> /\ Len(frames) < MaxDepth
  /\ LET parent == Last(frames)
         b == BuildBundle(a)
         o == [parent.opts EXCEPT !.mode = m]
     IN  /\ ~IsAgenticCLI(parent.provider) /\ parent.bundle.task
         /\ IF parent.opts.dir = ""
            THEN Fails("no manifest")
            ELSE InvokeModel(a, parent.flags,
                   applyChildModelOverrides(applyChildIterationCap(o, parent.bundle, b, a), b), b)
  /\ edit' = Nothing /\ UNCHANGED <<env, config>>

(* An edit of code or of a comment.  Squad's tools look at the limits, a CLI *)
(* has what its mode leaves it.                                             *)
Edit(what) ==
  /\ frames # <<>>
  /\ LET fr == Last(frames)
         cli == IsAgenticCLI(fr.provider)
     IN  IF cli THEN ~modeRestrictsEdits(fr.opts.mode)
         ELSE ~fr.limits.readonly /\ (fr.limits.comments => what = "comment")
  /\ edit' = what
  /\ UNCHANGED <<env, config, frames, last>>

Return ==
  /\ frames # <<>>
  /\ frames' = Front(frames)
  /\ last' = "none"
  /\ edit' = Nothing /\ UNCHANGED <<env, config>>

Next ==
  \/ \E a \in Agents, f \in Flags : ExecuteRun(a, f)
  \/ \E f \in Flags : Transform(f)
  \/ \E s \in Stages, f \in Flags : RunStage(s, f)
  \/ \E a \in Agents, m \in Modes : Task(a, m)
  \/ \E what \in {"code", "comment"} : Edit(what)
  \/ Return

Spec == Init /\ [][Next]_vars

-----------------------------------------------------------------------------
TypeOK ==
  /\ env \in Envs /\ config \in Configs
  /\ Len(frames) <= MaxDepth
  /\ edit \in {Nothing, "code", "comment"}
  /\ last \in {"none", "started", "refused", "dry run", "no credentials", "tool missing", "no manifest"}

(* A run for which the user named neither model nor provider has the        *)
(* credentials of the provider it calls, or the user was warned             *)
(* (ResolveModelPrecedence).  Excepted are the spellings KeyStatus does not  *)
(* know and a token, which is taken for any provider's.                     *)
StartsAuthenticated ==
  frames # <<>> =>
    LET fr == frames[1]
    IN  \/ fr.flags.model # "" \/ fr.flags.provider # "" \/ fr.opts.token # ""
        \/ fr.bundle.models = <<>>
        \/ fr.opts.provider \in {"claude", "agy"}
        \/ Authenticates(fr.provider, fr.opts.token) \/ fr.opts.warned

-----------------------------------------------------------------------------
(* Claims of comments and documents that the code does not keep.            *)

(* model.go: InvokeModel is the chokepoint "so readonly and manifest         *)
(* edit-restriction enforcement applies uniformly here".                    *)
LimitsCoverClis == \A i \in DOMAIN frames : Allowed(frames[i], edit)

(* run.go: the config default model "belongs to a different API provider and *)
(* must not be paired with" another.                                        *)
PairsMatch ==
  \A i \in DOMAIN frames :
    LET fr == frames[i]
        pairs == {<<fr.bundle.models[k].provider, fr.bundle.models[k].model>> : k \in DOMAIN fr.bundle.models}
    IN  \/ fr.flags.model # "" \/ fr.opts.model = "" \/ IsAgenticCLI(fr.provider)
        \/ <<fr.opts.provider, fr.opts.model>> \in pairs \cup {<<config.provider, config.model>>}

(* model.go: child agents' base URL is propagated from their manifest.       *)
UrlsBelong ==
  \A i \in DOMAIN frames :
    LET fr == frames[i]
    IN  \/ fr.flags.url # "" \/ config.url # ""
        \/ \A k \in DOMAIN fr.bundle.models :
             fr.bundle.models[k].model = fr.opts.model => fr.opts.url = fr.bundle.models[k].url

(* apikey.go: an entry for an alias keeps fallback selection from picking a  *)
(* provider whose credential is absent.                                     *)
AliasesNeedCredentials ==
  frames # <<>> =>
    LET fr == frames[1]
    IN  \/ fr.flags.model # "" \/ fr.flags.provider # "" \/ fr.bundle.models = <<>>
        \/ Authenticates(fr.provider, fr.opts.token) \/ fr.opts.warned

(* model.go: "child agents inherit the unscaled base and scale once against  *)
(* their own model".                                                        *)
ChildrenScaleOnce ==
  \A i \in 2..Len(frames) :
    LET fr == frames[i]
    IN  \/ fr.flags.explicit \/ IsAgenticCLI(fr.provider) \/ fr.bundle.iter = 0
        \/ \E k \in 1..(i - 1) : ChildMaxIterations(frames[k].bundle, frames[k + 1].agent) # 0
        \/ fr.cap = clampInt((fr.bundle.iter * resolveModelFactor(fr.bundle, fr.opts.model) + 1) \div 2, 10, 1000)

(* model.go: an agent in mode plan "changes nothing", a stage as well.        *)
PlanRestrictsStages ==
  frames # <<>> /\ modeRestrictsEdits(frames[1].flags.mode) => edit = Nothing

(* creating-agents.md: "The runner verifies each is on PATH before invoking   *)
(* the model".                                                              *)
ToolsArePresent == \A i \in DOMAIN frames : Preflight(frames[i].bundle)

(* An agent finds the agents it delegates to, as a stage as well.            *)
ChildrenAreFound == last # "no manifest"

(* creating-agents.md: later entries are fallbacks when the credentials of   *)
(* the first are missing.                                                   *)
ChildrenFallBack ==
  \A i \in 2..Len(frames) :
    \/ Authenticates(frames[i].provider, frames[i].opts.token)
    \/ walkManifestForCreds(frames[i].opts, frames[i].bundle) = 0

(* composed.go: an empty mcp_servers means "inherit from the parent manifest". *)
EmptyInherits ==
  \A i \in DOMAIN frames : \A s \in Stages :
    s.agent = frames[i].agent /\ ~s.inline /\ s.mcp = {} /\ frames[i].opts.dir = ""
    /\ ~IsAgenticCLI(frames[i].provider)
    => Manifest[s.agent].mcp \subseteq frames[i].mcp

=============================================================================
