---------------------------- MODULE GitOperations -----------------------------
(***************************************************************************)
(* The bridge's wrappers of git: packages/bridge/src/git/operations.ts.    *)
(*                                                                         *)
(* gitStatus() runs three commands one after the other.  The wrappers that *)
(* change the repository run one command each, and may come between these. *)
(* What a command makes of the repository is git's affair: the model lets  *)
(* it change the parts that command can change.  A path is a sequence of   *)
(* characters, and so is a line that git prints.                           *)
(***************************************************************************)
EXTENDS Naturals, Sequences

CONSTANTS
    Char,      \* the characters git prints
    Paths,     \* the paths there may be, in the order git lists them
    Codes,     \* what git may say of a path: see Clean and Untracked
    Branch,
    Counts,    \* commits ahead of the upstream branch, and behind it
    None       \* no commit yet, no upstream branch

PathSet == {Paths[i] : i \in DOMAIN Paths}

\* The two columns of `git status --porcelain`: index and worktree.  The blank
\* is what both have of a file that did not change.
Space == "space"
Clean == <<Space, Space>>
Untracked == <<"?", "?">>

\* A commit takes what is in the index out of it.
Committed(c) == IF c = Untracked THEN Untracked ELSE <<Space, c[2]>>

\* A path is not empty, and only what git does not track has question marks.
ASSUME PathAssumption == Space \in Char /\ Paths \in Seq(Seq(Char) \ {<<>>})
ASSUME CodeAssumption ==
    /\ Codes \subseteq Char \X Char
    /\ \A c \in Codes : c[1] = "?" \/ c[2] = "?" => c = Untracked
    /\ \A c \in Codes : Committed(c) \in Codes

VARIABLES
    head,      \* the branch, or None before the first commit
    counts,    \* or None
    files,     \* the code of each path
    step,      \* of gitStatus(): the command that runs, "idle" or "returned"
    result,    \* of gitStatus(), as far as it is known
    changed,   \* history: the repository changed since gitStatus() was called
    stale,     \* history: it changed since the files were listed
    failed     \* history: a command of this call failed, which it need not have

repoVars == <<head, counts, files>>
statusVars == <<step, result, changed, stale, failed>>
gitVars == <<repoVars, statusVars>>

NoStatus == [branch |-> None, counts |-> <<0, 0>>, dirty |-> FALSE,
             staged |-> <<>>, modified |-> <<>>, untracked |-> <<>>]

GitInit ==
    /\ head \in Branch \cup {None}
    /\ counts \in IF head = None THEN {None} ELSE Counts \cup {None}
    /\ files \in [PathSet -> Codes]
    /\ step = "idle" /\ result = NoStatus
    /\ changed = FALSE /\ stale = FALSE /\ failed = FALSE

-----------------------------------------------------------------------------
(* What git prints, and what is made of it.                                *)

\* The elements of a sequence that are in a set, pushed one after the other
\* (SelectSeq is no help in a proof: the provers do not know what it is).
Among(s, S) ==
    LET upTo[i \in 0 .. Len(s)] ==
            IF i = 0 THEN <<>>
            ELSE IF s[i] \in S THEN Append(upTo[i - 1], s[i]) ELSE upTo[i - 1]
    IN  upTo[Len(s)]

\* What is not clean, with what git does not track last.
Listed ==
    Among(Paths, {p \in PathSet : files[p] \notin {Clean, Untracked}})
        \o Among(Paths, {p \in PathSet : files[p] = Untracked})

Printed == [i \in DOMAIN Listed |-> files[Listed[i]] \o <<Space>> \o Listed[i]]

\* stdout.trim(): a path that ends in a blank is quoted, so all it can remove
\* is the blank of an unchanged index at the start of the first line.
Trimmed(lines) ==
    IF lines # <<>> /\ lines[1][1] = Space THEN <<Tail(lines[1])>> \o Tail(lines) ELSE lines

\* line.slice(3) of the lines whose first two characters are as wanted.
PathsOf(lines, Test(_, _)) ==
    LET wanted == {i \in DOMAIN lines : Test(lines[i][1], lines[i][2])}
        chosen == Among(lines, {lines[i] : i \in wanted})
    IN  [i \in DOMAIN chosen |-> SubSeq(chosen[i], 4, Len(chosen[i]))]

\* Mutant: what git does not track counts as staged.
IsStagedUntracked(index, worktree) == index # Space

IsStaged(index, worktree) == index \notin {"?", Space}

IsModified(index, worktree) == worktree \in {"M", "D"}

IsUntracked(index, worktree) == index = "?" /\ worktree = "?"

-----------------------------------------------------------------------------
(* gitStatus().  A command also fails when it takes 30 s or prints too much. *)

GitStatus ==
    /\ step \in {"idle", "returned"}
    /\ step' = "rev-parse" /\ result' = NoStatus
    /\ changed' = FALSE /\ stale' = FALSE /\ failed' = FALSE
    /\ UNCHANGED repoVars

\* The branch: without one the answer is given at once.
BranchRead ==
    /\ step = "rev-parse" /\ head # None
    /\ result' = [result EXCEPT !.branch = head]
    /\ step' = "rev-list"
    /\ UNCHANGED <<repoVars, changed, stale, failed>>

BranchUnknown ==
    /\ step = "rev-parse"
    /\ step' = "returned"
    /\ failed' = (head # None)
    /\ UNCHANGED <<repoVars, result, changed, stale>>

\* The counts stay 0 without an upstream branch.
CountsRead ==
    /\ step = "rev-list"
    /\ \/ /\ counts # None
          /\ result' = [result EXCEPT !.counts = counts]
          /\ UNCHANGED failed
       \/ UNCHANGED result /\ failed' = (counts # None)
    /\ step' = "status"
    /\ UNCHANGED <<repoVars, changed, stale>>

FilesRead ==
    LET lines == Trimmed(Printed)
        staged == PathsOf(lines, IsStaged)
        modified == PathsOf(lines, IsModified)
        untracked == PathsOf(lines, IsUntracked)
    IN  /\ step = "status"
        /\ result' = [result EXCEPT !.staged = staged, !.modified = modified,
                                    !.untracked = untracked,
                                    !.dirty = staged # <<>> \/ modified # <<>> \/ untracked # <<>>]
        /\ step' = "returned"
        /\ UNCHANGED <<repoVars, changed, stale, failed>>

\* The lists stay empty, and the repository looks clean.
FilesUnread ==
    /\ step = "status"
    /\ step' = "returned"
    /\ failed' = TRUE
    /\ UNCHANGED <<repoVars, result, changed, stale>>

-----------------------------------------------------------------------------
(* The other wrappers: one command each.  One that fails changes nothing, or *)
(* leaves files in conflict (ChangesFiles).  The rest of them only print.    *)

Ran == changed' = TRUE /\ stale' = (step = "returned") /\ UNCHANGED <<step, result, failed>>

\* gitAdd, gitStash, gitStashPop; the agent and the user who edit files, too.
ChangesFiles ==
    files' \in [PathSet -> Codes] /\ UNCHANGED <<head, counts>> /\ Ran

\* gitCommit, which makes the first commit of a branch too.
GitCommit ==
    /\ head' \in IF head = None THEN Branch ELSE {head}
    /\ counts' \in IF counts = None THEN {None} ELSE Counts
    /\ files' = [p \in PathSet |-> Committed(files[p])]
    /\ Ran

\* gitPush: the counts alone.
GitPush == counts # None /\ counts' \in Counts /\ UNCHANGED <<head, files>> /\ Ran

\* gitPull and gitResetToRemote, of a branch that has an upstream branch.
ChangesToUpstream ==
    /\ head # None /\ counts # None
    /\ counts' \in Counts
    /\ files' \in [PathSet -> Codes]
    /\ UNCHANGED head /\ Ran

\* gitBranchCreate and gitBranchSwitch keep the changes that are not committed.
ChangesBranch ==
    /\ head # None
    /\ head' \in Branch /\ counts' \in Counts \cup {None}
    /\ UNCHANGED files /\ Ran

GitNext ==
    \/ GitStatus \/ BranchRead \/ BranchUnknown \/ CountsRead \/ FilesRead \/ FilesUnread
    \/ ChangesFiles \/ GitCommit \/ GitPush \/ ChangesToUpstream \/ ChangesBranch

GitSpec == GitInit /\ [][GitNext]_gitVars

-----------------------------------------------------------------------------
(* Correctness.                                                            *)

\* The files that git says some of these codes of.
FilesWith(listed, codes) == Among(listed, {p \in PathSet : files[p] \in codes})
StagedCodes == {c \in Codes \ {Untracked} : c[1] # Space}
ModifiedCodes == {c \in Codes : c[2] \in {"M", "D"}}

\* What gitStatus() returns is what git said, if no command failed: the branch
\* and the counts of this moment unless another command ran meanwhile, and the
\* files as they were listed.  The exception is a first file that is unchanged
\* in the index: trim() eats its first column, so it is reported as staged,
\* without the first character of its path (operations.ts:47, 56, 84-96).
StatusReadsGit ==
    LET misread == Listed # <<>> /\ files[Listed[1]][1] = Space
        rest == IF misread THEN Tail(Listed) ELSE Listed
    IN  step = "returned" /\ ~failed =>
            /\ ~changed => /\ result.branch = head
                           /\ head # None /\ counts # None => result.counts = counts
            /\ ~stale /\ result.branch # None =>
                /\ result.staged = (IF misread THEN <<Tail(Listed[1])>> ELSE <<>>)
                                   \o FilesWith(rest, StagedCodes)
                /\ result.modified = FilesWith(rest, ModifiedCodes)
                /\ result.untracked = FilesWith(rest, {Untracked})
                /\ result.dirty <=> Listed # <<>>
===============================================================================
