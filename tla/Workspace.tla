------------------------------ MODULE Workspace -------------------------------
(***************************************************************************)
(* How the bridge finds the repository it works in, and its GitHub name:   *)
(* packages/bridge/src/workspace/scanner.ts, as `crc start` and            *)
(* `crc status` call it, with an absolute path.                            *)
(*                                                                         *)
(* A path is the sequence of its names, so the root directory is <<>>.     *)
(***************************************************************************)
EXTENDS Naturals, Sequences, SequencesExt

CONSTANTS
    Name,      \* names of directories
    MaxDepth,  \* bound on the length of a path
    Configs,   \* what a .git/config may say: its sections with a URL, in order
    NoValue    \* null or undefined

Directory == UNION {[1 .. n -> Name] : n \in 0 .. MaxDepth}

\* null is neither a path nor a URL.
ASSUME WorkspaceAssumption ==
    /\ MaxDepth \in Nat
    /\ NoValue \notin Directory
    /\ \A c \in Configs : \A i \in DOMAIN c : c[i].url # NoValue

VARIABLES
    dotGit,    \* per directory, what its .git is: "none", "dir" or "file"
    config,    \* .git/config of the repositories
    found      \* what detectWorkspace() returned last

workspaceVars == <<dotGit, config, found>>

WorkspaceInit ==
    /\ dotGit \in [Directory -> {"none", "dir", "file"}]
    /\ config \in Configs
    /\ found = NoValue

\* Mutant: the walk goes up before it looks.
FindFromParent(start) ==
    LET walk[p \in Directory] ==
            IF p = <<>> THEN NoValue
            ELSE IF dotGit[Front(p)] # "none" THEN Front(p) ELSE walk[Front(p)]
    IN  walk[start]

\* findGitRoot(): the walk stops at the root directory and does not look there.
FindGitRoot(start) ==
    LET walk[p \in Directory] ==
            IF p = <<>> THEN NoValue
            ELSE IF dotGit[p] # "none" THEN p ELSE walk[Front(p)]
    IN  walk[start]

\* A host is given in two pieces where it only ends in github.com.  What a colon
\* follows, as in git@host:owner/name, is github.com and no more; what a slash
\* follows need only end so.
AtGitHub(url) ==
    IF url.colon THEN url.host = <<"github.com">> ELSE Last(url.host) = "github.com"

\* extractGitHubSlug().  The name of a repository is given in the parts its dots
\* divide it into, the last of which may be "git"; the first is taken, and it is
\* empty if the name starts with a dot.
Slug(url) ==
    IF AtGitHub(url) /\ url.name[1] # "" THEN <<url.owner, url.name[1]>> ELSE NoValue

\* The first URL in the file, whatever section it is in.  Where .git is a file
\* (a worktree, a submodule) there is no .git/config.
RemoteUrl(root) ==
    IF dotGit[root] = "dir" /\ config # <<>> THEN config[1].url ELSE NoValue

DetectWorkspace(start) ==
    LET root == FindGitRoot(start)
        url == IF root = NoValue THEN NoValue ELSE RemoteUrl(root)
        top == IF root = NoValue THEN start ELSE root
    IN  [start |-> start,
         root |-> top,
         name |-> IF top = <<>> THEN "unknown" ELSE Last(top),
         remoteUrl |-> url,
         githubSlug |-> IF url = NoValue THEN NoValue ELSE Slug(url),
         isGitRepo |-> root # NoValue]

Detect(start) ==
    /\ found' = DetectWorkspace(start)
    /\ UNCHANGED <<dotGit, config>>

WorkspaceNext == \E start \in Directory : Detect(start)

WorkspaceSpec == WorkspaceInit /\ [][WorkspaceNext]_workspaceVars

-----------------------------------------------------------------------------
(* Correctness.                                                            *)

\* The repositories a directory is in.  One at the root directory is not seen.
Enclosing(start) ==
    {p \in Directory : p # <<>> /\ IsPrefix(p, start) /\ dotGit[p] # "none"}

\* The workspace is the innermost repository around the directory, or else the
\* directory.  Its URL is origin's if origin comes first in the file, and the
\* slug names the repository if there is no dot in its name but the one of
\* ".git"; otherwise another section's URL and a name cut short are shown.  No
\* slug is made of a URL elsewhere, unless its host ends in github.com
\* (scanner.ts:39-86, 92-106).
DetectsWorkspace ==
    found # NoValue =>
        LET around == Enclosing(found.start)
            origin == {i \in DOMAIN config : config[i].section = "origin"}
        IN  /\ found.isGitRepo <=> around # {}
            /\ around = {} => found.root = found.start /\ found.remoteUrl = NoValue
            /\ around # {} => /\ found.root \in around
                              /\ \A p \in around : Len(p) <= Len(found.root)
            /\ 1 \in origin /\ found.isGitRepo /\ dotGit[found.root] = "dir" =>
                  LET url == config[1].url
                  IN  /\ found.remoteUrl = url
                      /\ url.host = <<"github.com">> /\ url.name[1] # ""
                            /\ (url.name = <<url.name[1]>> \/ url.name = <<url.name[1], "git">>)
                         => found.githubSlug = <<url.owner, url.name[1]>>
                      /\ found.githubSlug # NoValue =>
                            Last(url.host) = "github.com" /\ found.githubSlug[1] = url.owner
===============================================================================
