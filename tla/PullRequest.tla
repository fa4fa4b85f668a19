----------------------------- MODULE PullRequest -----------------------------
(***************************************************************************)
(* The open_pr tool (tools/vcs.py): switch to a branch, stage the given    *)
(* paths, commit if anything is staged, push, and open a pull request.     *)
(* Any git or GitHub call can fail, with or without having done its work;  *)
(* the tool then raises, and the agent calls it again, with the same or    *)
(* with other arguments, and writes files in between.  A git killed by the *)
(* timeout can also leave its index.lock behind.  Calls do not             *)
(* overlap: the tool server handles one line at a time.  What git and      *)
(* GitHub do is external, modelled from how the tool uses them; nobody     *)
(* else pushes to the branches or closes their pull requests.              *)
(***************************************************************************)
EXTENDS Naturals, Sequences

CONSTANTS
  Branches,    \* feature branches: names that match BRANCH_PATTERN
  Paths,       \* paths of files that pass _confine and _reject_protected
  Main,        \* the base branch, checked out at the start
  NoPull,      \* no call yet, or none since a file was written
  MaxVersion,  \* bound: versions of a file
  MaxGitFaults \* bound: transient failures

VARIABLES
  work,        \* the files of the workspace: path -> version, 0 if absent
  index,       \* git's index, likewise
  head,        \* the current branch
  tree,        \* local branches: the files of their tip
  commits,     \* local branches: how many commits the tool made on them
  start,       \* local branches: the branch they were created from
  remote,      \* pushed branches: the files of their tip
  prs,         \* branches with an open pull request
  locked,      \* whether .git/index.lock was left behind
  pull,        \* the running call, or the last one
  step,        \* its next step, or idle
  reached,     \* how many of its steps have done their work, over all its
               \* attempts since anything else was written or asked for
  given,       \* the paths given so far for each branch
  gitFaults    \* transient failures so far

git == <<work, index, head, tree, commits, start, remote, prs>>
pullVars == <<git, locked, pull, step, reached, given, gitFaults>>

ASSUME PullRequestAssumption ==
  /\ Main \notin Branches
  /\ {MaxVersion, MaxGitFaults} \subseteq Nat

Calls == [branch : Branches, paths : (SUBSET Paths) \ {{}}]

\* f with the value v for k, which may be new.
With(f, k, v) == [x \in DOMAIN f \cup {k} |-> IF x = k THEN v ELSE f[x]]

\* The workspace is a clean checkout of the base branch, some files of which
\* exist already.
PullInit ==
  \E t \in [Paths -> 0..1] :
    /\ work = t /\ index = t
    /\ head    = Main
    /\ tree    = [b \in {Main} |-> t]
    /\ commits = [b \in {Main} |-> 0]
    /\ start   = [b \in {Main} |-> Main]
    /\ remote  = [b \in {Main} |-> t]
    /\ prs     = {}
    /\ locked  = FALSE
    /\ pull = NoPull /\ step = "idle" /\ reached = 0
    /\ given   = [b \in Branches |-> {}]
    /\ gitFaults = 0

\* The agent writes a file between two calls; it has no tool that deletes one.
Write(p) ==
  /\ step = "idle"
  /\ work[p] < MaxVersion
  /\ work' = [work EXCEPT ![p] = @ + 1]
  /\ pull' = NoPull
  /\ reached' = 0
  /\ UNCHANGED <<index, head, tree, commits, start, remote, prs, locked, step, given, gitFaults>>

\* Somebody removes the lock file.
Unlock ==
  /\ step = "idle"
  /\ locked
  /\ locked' = FALSE
  /\ UNCHANGED <<git, pull, step, reached, given, gitFaults>>

\* A call passes the checks at the top of __call__; any other is refused
\* before git runs, which changes nothing.
Call(c) ==
  /\ step = "idle"
  /\ pull'    = c
  /\ step'    = "switch"
  /\ reached' = IF c = pull THEN reached ELSE 0
  /\ given'   = [given EXCEPT ![c.branch] = @ \cup c.paths]
  /\ UNCHANGED <<git, locked, gitFaults>>

-----------------------------------------------------------------------------
(* The steps of __call__: what each does, and when git or GitHub refuses.  *)

Differ(b) == {p \in Paths : tree[b][p] # tree[head][p]}
Clean(p) == index[p] = tree[head][p] /\ work[p] = tree[head][p]

\* git switch takes over the files in which the branches differ, unless one
\* has local changes other than the target's staged content; the changes of
\* all other files, staged or not, are carried along.
CanSwitch == pull.branch \in DOMAIN tree =>
  \A p \in Differ(pull.branch) : Clean(p) \/ index[p] = tree[pull.branch][p]

SwitchTo(b) ==
  LET taken == {p \in Differ(b) : Clean(p)}
      Over(files) == [p \in Paths |-> IF p \in taken THEN tree[b][p] ELSE files[p]]
  IN  /\ work' = Over(work) /\ index' = Over(index)
      /\ UNCHANGED <<tree, commits, start>>

\* git switch -c: the new branch starts where the workspace is.
SwitchNew(b) ==
  /\ tree'    = With(tree, b, tree[head])
  /\ commits' = With(commits, b, 0)
  /\ start'   = With(start, b, head)
  /\ UNCHANGED <<work, index>>

Switch ==
  /\ IF pull.branch \in DOMAIN tree THEN SwitchTo(pull.branch) ELSE SwitchNew(pull.branch)
  /\ head' = pull.branch
  /\ UNCHANGED <<remote, prs>>

\* Mutant of Added: everything is staged (git add --all).
AddedAll == Paths

Added == pull.paths

\* git add refuses a path that matches no file.
CanAdd == \A p \in pull.paths : work[p] # 0 \/ index[p] # 0

Add ==
  /\ index' = [p \in Paths |-> IF p \in Added THEN work[p] ELSE index[p]]
  /\ UNCHANGED <<work, head, tree, commits, start, remote, prs>>

\* Mutant of HasStaged: the tool commits whether anything is staged or not.
CommitAlways == TRUE

\* git diff --cached --name-only prints something.
HasStaged == index # tree[head]

Commit ==
  /\ IF HasStaged
     THEN /\ tree'    = [tree EXCEPT ![head] = index]
          /\ commits' = [commits EXCEPT ![head] = @ + 1]
     ELSE UNCHANGED <<tree, commits>>
  /\ UNCHANGED <<work, index, head, start, remote, prs>>

\* Mutant of Push: a branch that is on the remote already is not pushed.
PushOnce ==
  /\ remote' = IF pull.branch \in DOMAIN remote THEN remote
               ELSE With(remote, pull.branch, tree[head])
  /\ UNCHANGED <<work, index, head, tree, commits, start, prs>>

Push ==
  /\ remote' = With(remote, pull.branch, tree[pull.branch])
  /\ UNCHANGED <<work, index, head, tree, commits, start, prs>>

\* Mutant of CanOpen: 422 is an error like any other.
CanOpenFirst == pull.branch \notin prs /\ remote[pull.branch] # remote[Main]

\* GitHub answers 422 if the branch has an open pull request, which is then
\* looked up and returned, and also if it has nothing to merge; then the
\* lookup finds none and the tool raises.
CanOpen == pull.branch \in prs \/ remote[pull.branch] # remote[Main]

Open ==
  /\ prs' = prs \cup {pull.branch}
  /\ UNCHANGED <<work, index, head, tree, commits, start, remote>>

-----------------------------------------------------------------------------
steps == <<"switch", "add", "commit", "push", "open">>
At == CHOOSE k \in 1..5 : steps[k] = step

\* A left-over index.lock stops every git command that writes the index;
\* switch -c does not.
NeedsLock ==
  \/ step = "switch" /\ pull.branch \in DOMAIN tree
  \/ step = "add"
  \/ step = "commit" /\ HasStaged

Refused ==
  \/ locked /\ NeedsLock
  \/ step = "switch" /\ ~CanSwitch
  \/ step = "add" /\ ~CanAdd
  \/ step = "open" /\ ~CanOpen

\* The step at hand does its work.
Work ==
  /\ ~Refused
  /\ \/ step = "switch" /\ Switch
     \/ step = "add" /\ Add
     \/ step = "commit" /\ Commit
     \/ step = "push" /\ Push
     \/ step = "open" /\ Open
  /\ reached' = IF reached < At THEN At ELSE reached

Advance ==
  /\ Work
  /\ step' = IF step = "open" THEN "idle" ELSE steps[At + 1]
  /\ UNCHANGED <<locked, pull, given, gitFaults>>

\* The tool raises ValueError: the step is refused, or fails before or after
\* its work (a timeout, a lost answer, a lookup that fails after a 422), and
\* a git that held the lock may leave it behind.
Raise ==
  /\ step # "idle"
  /\ \/ Refused /\ UNCHANGED <<git, locked, reached, gitFaults>>
     \/ /\ gitFaults < MaxGitFaults
        /\ gitFaults' = gitFaults + 1
        /\ Work \/ UNCHANGED <<git, reached>>
        /\ locked' \in (IF NeedsLock THEN {locked, TRUE} ELSE {locked})
  /\ step' = "idle"
  /\ UNCHANGED <<pull, given>>

PullNext ==
  \/ \E p \in Paths : Write(p)
  \/ Unlock
  \/ \E c \in Calls : Call(c)
  \/ Advance
  \/ Raise

PullSpec == PullInit /\ [][PullNext]_pullVars

-----------------------------------------------------------------------------
\* A call all of whose steps did their work has published it, whatever failed
\* on the way: its paths are on the remote branch as they are in the workspace,
\* and the branch has a pull request (vcs.py: "a retry after a transient error
\* is safe").
ReturnedIsPublished ==
  reached = Len(steps) =>
    /\ pull.branch \in prs
    /\ \A p \in pull.paths : remote[pull.branch][p] = work[p]

\* Repeating such a call commits and publishes nothing, also if the repetition
\* fails half way (vcs.py: "an already-committed change is not re-committed,
\* and a pull request that already exists is returned").
RepeatChangesNothing ==
  [][reached = Len(steps) => UNCHANGED <<tree, commits, remote, prs>>]_pullVars

\* A repetition gets at least as far as the attempts before it: no step that
\* has done its work is refused when the call is made again, unless git left
\* its lock behind (vcs.py: "The flow is idempotent").
RetryGetsAsFar ==
  step # "idle" /\ At <= reached /\ ~locked => ~Refused

\* A branch changes a file that was never given for it only if it was created
\* from another feature branch, or an earlier call failed and left its files
\* staged: switch -c starts from the current branch, and commit takes the
\* whole index.
ForeignFilesNeedCause ==
  \A b \in DOMAIN tree \ {Main} :
    gitFaults = 0 /\ start[b] = Main =>
      {p \in Paths : tree[b][p] # tree[Main][p]} \subseteq given[b]
=============================================================================
