------------------------------- MODULE MCLocal --------------------------------
(***************************************************************************)
(* The parts of the system that keep to themselves, side by side: a        *)
(* behaviour is one of a single part, since they share no state and each   *)
(* is checked on its own properties.                                       *)
(***************************************************************************)
EXTENDS ThreadScreen, ThreadStorage, GitOperations, Workspace, PairScreen,
    SessionCrypto

VARIABLE part  \* the part this behaviour is of

localVars == <<part, screenVars, storageVars, gitVars, workspaceVars, pairVars, cryptoVars>>

\* The initial state of a part that stands still.
GitAtRest ==
    /\ head = None /\ counts = None /\ files = [p \in PathSet |-> Clean]
    /\ step = "idle" /\ result = NoStatus /\ changed = FALSE /\ stale = FALSE /\ failed = FALSE
WorkspaceAtRest ==
    dotGit = [d \in Directory |-> "none"] /\ config = <<>> /\ found = NoValue

Init ==
    /\ part \in {"screen", "storage", "git", "workspace", "pair", "crypto"}
    /\ ScreenInit /\ PairInit
    /\ StorageInit /\ (part # "storage" => ~tables)
    /\ CryptoInit /\ (part # "crypto" => ~code.small /\ ~code.blanks)
    /\ IF part = "git" THEN GitInit ELSE GitAtRest
    /\ IF part = "workspace" THEN WorkspaceInit ELSE WorkspaceAtRest

Next ==
    \/ /\ part = "screen" /\ ScreenNext
       /\ UNCHANGED <<part, storageVars, gitVars, workspaceVars, pairVars, cryptoVars>>
    \/ /\ part = "storage" /\ StorageNext
       /\ UNCHANGED <<part, screenVars, gitVars, workspaceVars, pairVars, cryptoVars>>
    \/ /\ part = "git" /\ GitNext
       /\ UNCHANGED <<part, screenVars, storageVars, workspaceVars, pairVars, cryptoVars>>
    \/ /\ part = "workspace" /\ WorkspaceNext
       /\ UNCHANGED <<part, screenVars, storageVars, gitVars, pairVars, cryptoVars>>
    \/ /\ part = "pair" /\ PairNext
       /\ UNCHANGED <<part, screenVars, storageVars, gitVars, workspaceVars, cryptoVars>>
    \/ /\ part = "crypto" /\ CryptoNext
       /\ UNCHANGED <<part, screenVars, storageVars, gitVars, workspaceVars, pairVars>>

Spec == Init /\ [][Next]_localVars

-----------------------------------------------------------------------------
(* The instance.                                                           *)

CONSTANTS t1, t2

MCLists == {<<t1, t2>>}

MCTexts == {<<>>, <<1, 2>>}

MCChars == {Space, "?", "M", "T", "a", "b", "1", "2"}
MCPaths == <<<<"a", "1">>, <<"b", "2">>>>
MCCodes == {Clean, Untracked, <<Space, "M">>, <<"M", "M">>, <<Space, "T">>}
MCCounts == {<<0, 1>>, <<1, 0>>}

RemoteOf(section, colon, host, name) ==
    [section |-> section,
     url |-> [colon |-> colon, host |-> host, owner |-> "crc", name |-> name]]
MCConfigs ==
    {<<>>,
     <<RemoteOf("origin", TRUE, <<"github.com">>, <<"app", "git">>)>>,
     <<RemoteOf("submodule", FALSE, <<"github.com">>, <<"lib">>),
       RemoteOf("origin", FALSE, <<"example.org">>, <<"app", "git">>)>>,
     <<RemoteOf("origin", FALSE, <<"github.com">>, <<"app", "js", "git">>)>>,
     <<RemoteOf("origin", FALSE, <<"github.com">>, <<"", "github">>)>>,
     <<RemoteOf("origin", TRUE, <<"my", "github.com">>, <<"app", "git">>)>>,
     <<RemoteOf("origin", FALSE, <<"my", "github.com">>, <<"app">>)>>}
===============================================================================
