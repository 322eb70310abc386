------------------------- MODULE PreparationValues -------------------------
(* The values with which Skills, Sources, ShardSplit, Delegation and         *)
(* Commands are checked, each alone and in MCPreparation.                    *)
EXTENDS Integers

-----------------------------------------------------------------------------
(* Skills: one name in two scopes (the repository's is 0, the user's 1, the  *)
(* shared one 2) and a second skill, of which one or the other restricts the *)
(* tools; a link, a file of each skill and one that several have.            *)

SkillAt(d, s, n, t) == [dir |-> d, scope |-> s, atRoot |-> FALSE, base |-> n,
                      name |-> n, allowed |-> t, parses |-> TRUE]

FreeSkill == SkillAt("repo/x", 0, "x", {})
StrictSkill == SkillAt("home/x", 1, "x", {"Read"})
OtherSkill == SkillAt("shared/y", 2, "y", {"Read", "Grep"})
LoneSkill == [SkillAt("clone", 2, "y", {"Edit"}) EXCEPT !.atRoot = TRUE, !.base = "clone"]
NestedSkill == [LoneSkill EXCEPT !.atRoot = FALSE]
BrokenSkill == [StrictSkill EXCEPT !.parses = FALSE]

MCDisks == {<<FreeSkill, StrictSkill, OtherSkill>>, <<StrictSkill, OtherSkill, LoneSkill>>,
            <<BrokenSkill, NestedSkill, LoneSkill>>}

AnySkills == [enabled |-> TRUE, scopes |-> {}, allow |-> {}, deny |-> {},
          cliAllow |-> {}, cliDeny |-> {}]
MCSkillConfigs == [a \in {"main", "sub"} |-> AnySkills]
MCSubDenies == [a \in {"main", "sub"} |-> IF a = "sub" THEN [AnySkills EXCEPT !.deny = {"y"}] ELSE AnySkills]
MCAllowed == [a \in {"main", "sub"} |-> [AnySkills EXCEPT !.allow = {"x"}, !.cliDeny = {"x"}]]

LoadCall(n) == [tool |-> "Skill", arg |-> n]
ReadCall(d, f) == [tool |-> "Read", arg |-> [dir |-> d, file |-> f]]
EditCall == [tool |-> "Edit", arg |-> [dir |-> "wd", file |-> "main"]]

GlobCall == [tool |-> "Glob", arg |-> [dir |-> "wd", file |-> "main"]]

MCTools == {"Read", "Edit", "Grep", "Glob"}
MCSerial == {"Edit"}
MCBatches == {<<LoadCall("x"), ReadCall("not found", "guide")>>, <<LoadCall("y"), LoadCall("x")>>,
              <<LoadCall("y"), GlobCall>>, <<EditCall>>, <<LoadCall("x"), EditCall>>,
              <<ReadCall("home/x", "guide"), [tool |-> "Grep", arg |-> [dir |-> "not found", file |-> "link"]]>>}
MCFiles == {<<"wd", "main">>, <<"repo/x", "guide">>, <<"home/x", "guide">>,
            <<"shared/y", "table">>, <<"shared/y", "link">>}
MCOutside == {<<"shared/y", "link">>}

-----------------------------------------------------------------------------
(* Sources: sources of agents and of skills, and a directory that is         *)
(* registered both ways.                                                     *)

Op(cmd, kind, name, url, ref) ==
  [cmd |-> cmd, kind |-> kind, name |-> name, url |-> url, ref |-> ref, force |-> FALSE, alt |-> FALSE]
Forced(o) == [o EXCEPT !.force = TRUE]

MCUrls == {"official", "u", "file"}
MCFileUrl == [p \in {"dir"} |-> "file"]
MCOther == [repos |-> {}, paths |-> {}, token |-> "none"]

UpdateOf(k) == Op("update", k, "none", "none", "")
MCSourceCommands ==
  {Op("add", "skills", "team", "u", ""), Op("add", "skills", "team", "u", "side"),
   Op("pin", "skills", "team", "none", "tag"), Op("pin", "skills", "team", "none", ""),
   Op("pin", "skills", "team", "none", "gone"), Op("pin", "agents", "official", "none", "tag"),
   UpdateOf("skills"), Forced(UpdateOf("skills")), Forced(UpdateOf("agents")),
   Op("remove", "skills", "u", "none", "")}
MCPlaces ==
  {Op("path", "skills", "dir", "none", ""), Op("add", "skills", "local", "file", ""),
   Op("add", "agents", "mine", "u", ""), Op("remove", "agents", "official", "none", ""),
   Op("remove", "skills", "dir", "none", ""), UpdateOf("agents")}
MCTokens == {Op("set", "agents", "none", "none", ""), UpdateOf("agents")}
MCInit == {Forced(Op("init", "agents", "none", "none", "")), Op("add", "agents", "mine", "u", "")}
MCBranch == {Op("add", "skills", "team", "u", "main"), Forced(UpdateOf("skills"))}
MCShared == {Op("add", "skills", "team", "u", "tag"), Op("add", "skills", "fresh", "u", ""),
             Forced(UpdateOf("skills"))}
MCEverything == MCSourceCommands \cup MCPlaces \cup MCTokens \cup MCInit
                \cup {[UpdateOf("agents") EXCEPT !.alt = TRUE]}

-----------------------------------------------------------------------------
(* ShardSplit: a.go, a/b.go, a/c.go, d.go, and vendor/x.go, which is skipped. *)

FiveFiles    == 1..5
Directories  == <<1, 2, 2, 1, 3>>
VendoredFile == {5}

-----------------------------------------------------------------------------
(* Delegation: an agent of comments only, one with caps for its children,    *)
(* one on a CLI, and a leaf.                                                 *)

Entry(p, m, u) == [provider |-> p, model |-> m, url |-> u]
Leaf == [models |-> <<Entry("anthropic", "sonnet", ""), Entry("openai", "gpt", "")>>,
         comments |-> FALSE, iter |-> 0, factor |-> <<>>, caps |-> <<>>,
         task |-> TRUE, needs |-> {}, mcp |-> {"files"}, remote |-> FALSE]

MCManifest ==
  [lead    |-> [Leaf EXCEPT !.caps = [scan |-> 30]],
   docs    |-> [Leaf EXCEPT !.comments = TRUE, !.iter = 40],
   scan    |-> [Leaf EXCEPT !.models = <<Entry("openai-compat", "oss", "host"), Entry("google", "flash", "")>>,
                            !.iter = 50, !.factor = [oss |-> 6, default |-> 0], !.needs = {"bandit"}, !.remote = TRUE],
   tool    |-> [Leaf EXCEPT !.models = <<Entry("claude", "opus", "")>>, !.task = FALSE]]

MCStages ==
  {[agent |-> "lead", inline |-> FALSE, mode |-> "edit", override |-> TRUE, mcp |-> {}],
   [agent |-> "scan", inline |-> TRUE, mode |-> "", override |-> FALSE, mcp |-> {}],
   [agent |-> "docs", inline |-> FALSE, mode |-> "readonly", override |-> TRUE, mcp |-> {"web"}]}

NoFlags == [provider |-> "", model |-> "", url |-> "", mode |-> "", iter |-> 0,
          explicit |-> FALSE, dry |-> FALSE, mcp |-> {}]
MCFlags ==
  {NoFlags, [NoFlags EXCEPT !.mode = "readonly"], [NoFlags EXCEPT !.mode = "plan"],
   [NoFlags EXCEPT !.explicit = TRUE, !.iter = 25], [NoFlags EXCEPT !.dry = TRUE],
   [NoFlags EXCEPT !.provider = "anthropic", !.mcp = {"web"}], [NoFlags EXCEPT !.model = "gpt"],
   [NoFlags EXCEPT !.provider = "claude"]}

NoConfigFile == [provider |-> "openai", model |-> "", url |-> "", token |-> "", iter |-> 100, factor |-> <<>>]
MCConfigFiles ==
  {NoConfigFile, [NoConfigFile EXCEPT !.model = "gpt", !.factor = [sonnet |-> 1]],
   [NoConfigFile EXCEPT !.iter = 5, !.provider = "anthropic", !.model = "sonnet"],
   [NoConfigFile EXCEPT !.token = "key"]}

MCEnvs == {{}, {"OPENAI"}, {"ANTHROPIC"}, {"GOOGLE", "bandit"}, {"OPENAI", "ANTHROPIC", "claude", "bandit"}}
MCModes == {"", "edit", "readonly"}

-----------------------------------------------------------------------------
(* Commands: a read, a failing command, one that never ends, one that leaves *)
(* a server and one that is refused.                                         *)

PlainCommand == [line |-> <<"other">>, ends |-> TRUE, exit |-> 0, child |-> "none"]
MCShellCommands == {[PlainCommand EXCEPT !.line = <<"cd", "read">>],
                    [PlainCommand EXCEPT !.exit = 1, !.child = "ends"],
                    [PlainCommand EXCEPT !.ends = FALSE],
                    [PlainCommand EXCEPT !.child = "stays"],
                    [PlainCommand EXCEPT !.line = <<"refused">>]}
MCKinds == {"local", "docker", "ssm", "kubectl"}
=============================================================================
