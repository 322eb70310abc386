--------------------------- MODULE SkillsPromise ---------------------------
(* What an agent is promised about the skills it has loaded: see Skills.     *)
EXTENDS Integers, Sequences

CONSTANTS Main, Sub   \* the agents of a session

Agents == {Main, Sub}
NoOwner == "no runtime"

VARIABLES
  live,     \* agents that run
  entries,  \* SkillRuntime.Entries of an agent
  stack,    \* SkillRuntime.Stack of an agent
  batch,    \* the calls an agent executes: [tool, arg, pc, got]
  told      \* history: the names of the skills whose text an agent was given

NamesOf(s) == {s[i].name : i \in DOMAIN s}

(* WithSkillRuntime leaves the context alone for an agent without skills,   *)
(* so that it acts under the runtime of the agent that started it.          *)
Owner(a) == IF entries[a] # {} THEN a
            ELSE IF entries[Main] # {} THEN Main ELSE NoOwner

Allows(e, t) == e.allowed = {} \/ t \in e.allowed

(* A call that starts is allowed by every skill the runtime has told of.    *)
StartsAreAllowed ==
  \A a \in Agents : \A i \in DOMAIN batch[a] :
    /\ batch[a][i].pc = "new" /\ batch[a][i].tool # "Skill" /\ Owner(a) # NoOwner
    /\ i \in DOMAIN batch'[a] /\ batch'[a][i].pc = "runs"
    => \A e \in entries[Owner(a)] :
         e.name \in told[Owner(a)] => Allows(e, batch[a][i].tool)

(* Once an agent was given the text of a skill, no call it makes reaches a  *)
(* tool the skill's allowed-tools leave out: not in the batches that follow,*)
(* not after a resume, and not in a sub-agent that acts under its runtime   *)
(* (tools/tools.go executeToolCall).                                        *)
RestrictionsHold == [][StartsAreAllowed]_<<live, entries, stack, batch, told>>

(* A skill whose text an agent was given is on its stack whenever the agent *)
(* runs, so that its files stay in reach, through batches, crashes and      *)
(* resumes, unless the skill is gone from the catalog (runner/model.go      *)
(* rehydrateSkillStack).                                                    *)
LoadsSurvive ==
  \A a \in live : \A e \in entries[a] : e.name \in told[a] => e.name \in NamesOf(stack[a])

=============================================================================
