-------------------------- MODULE BridgeToolsProofs ---------------------------
(***************************************************************************)
(* Theorems about the tools the bridge calls on the developer's machine:   *)
(* that the scanner finds the innermost repository, however deep the       *)
(* directories and whatever is in them, and that gitStatus() returns what  *)
(* git printed, whatever the paths and their codes.  Both rest on what a   *)
(* loop computes: induction over the number of its turns, as an induction  *)
(* over a set of natural numbers.                                          *)
(***************************************************************************)
EXTENDS GitOperations, Workspace, SequenceTheorems, WellFoundedInduction, TLAPS

-----------------------------------------------------------------------------
(* Natural numbers.                                                        *)

\* A set of natural numbers that is not empty has a least element.
LEMMA LeastElement ==
    ASSUME NEW T \in SUBSET Nat, T # {}
    PROVE  \E x \in T : \A y \in T : x <= y
<1> DEFINE less == OpToRel(<, Nat)
<1>1. IsWellFoundedOn(less, Nat)
    BY NatLessThanWellFounded
<1>2. PICK x \in T : \A y \in T : ~ (<<y, x>> \in less)
    <2> HIDE DEF less
    <2> QED
        BY <1>1, WFMin
<1>3. \A y \in T : y \in Nat /\ x \in Nat /\ (y < x => <<y, x>> \in less)
    BY DEF OpToRel
<1> HIDE DEF less
<1>4. \A y \in T : ~ (y < x)
    BY <1>2, <1>3
<1> QED
    BY <1>4, x \in Nat

\* Induction over the natural numbers, of a set of them.
LEMMA SetInduction ==
    ASSUME NEW S, 0 \in S, \A n \in Nat : n \in S => n + 1 \in S
    PROVE  Nat \subseteq S
<1> SUFFICES ASSUME Nat \ S # {} PROVE FALSE
    OBVIOUS
<1>1. PICK x \in Nat \ S : \A y \in Nat \ S : x <= y
    BY LeastElement
<1>2. x # 0 /\ x - 1 \in Nat /\ x - 1 < x /\ x - 1 + 1 = x
    OBVIOUS
<1> QED
    BY <1>1, <1>2

-----------------------------------------------------------------------------
(* The scanner: findGitRoot() walks up from a directory.                   *)

\* A path is a sequence of names, and so is its parent.
LEMMA PathFacts ==
    ASSUME NEW p \in Directory
    PROVE  /\ p \in Seq(Name) /\ Len(p) \in Nat
           /\ p # <<>> => Front(p) \in Directory /\ Len(Front(p)) = Len(p) - 1
                          /\ \A i \in 1 .. Len(p) - 1 : Front(p)[i] = p[i]
<1>1. PICK n \in 0 .. MaxDepth : p \in [1 .. n -> Name]
    BY DEF Directory
<1>2. n \in Nat
    BY <1>1, WorkspaceAssumption
<1>3. p \in Seq(Name) /\ Len(p) = n
    BY <1>1, <1>2
<1>4. ASSUME p # <<>> PROVE /\ Front(p) \in Directory /\ Len(Front(p)) = Len(p) - 1
                            /\ \A i \in 1 .. Len(p) - 1 : Front(p)[i] = p[i]
    <2>1. n - 1 \in 0 .. MaxDepth
        BY <1>1, <1>3, <1>4, WorkspaceAssumption
    <2>2. \A i \in 1 .. n - 1 : p[i] \in Name
        BY <1>1, <1>2
    <2>3. /\ Front(p) \in Seq(Name) /\ Len(Front(p)) = n - 1
          /\ \A i \in 1 .. n - 1 : Front(p)[i] = p[i]
        <3>1. n - 1 \in Int /\ (1 <= n - 1 \/ n - 1 = 0)
            BY <1>2, <2>1
        <3> QED
            BY <1>2, <1>3, <2>2, <3>1, SubSeqProperties DEF Front
    <2>4. Front(p) \in [1 .. n - 1 -> Name]
        BY <2>3
    <2> QED
        BY <1>3, <2>1, <2>3, <2>4 DEF Directory
<1> QED
    BY <1>3, <1>4

\* What a prefix is, name by name.
LEMMA PrefixFacts ==
    ASSUME NEW p \in Directory, NEW q \in Directory
    PROVE  IsPrefix(q, p) <=> Len(q) <= Len(p) /\ \A i \in 1 .. Len(q) : q[i] = p[i]
<1>1. p \in Seq(Name) /\ q \in Seq(Name) /\ Len(p) \in Nat /\ Len(q) \in Nat
    BY PathFacts
<1>2. /\ Len(q) <= Len(p) => Len(SubSeq(p, 1, Len(q))) = Len(q)
      /\ \A i \in 1 .. Len(q) : Len(q) <= Len(p) => SubSeq(p, 1, Len(q))[i] = p[i]
      /\ Len(q) <= Len(p) => SubSeq(p, 1, Len(q)) \in Seq(Name)
    BY <1>1, SubSeqProperties
<1>3. SubSeq(q, 1, Len(q)) = q
    BY <1>1
<1>4. ASSUME Len(q) <= Len(p), \A i \in 1 .. Len(q) : q[i] = p[i]
      PROVE  q = SubSeq(p, 1, Len(q))
    <2> DEFINE s == SubSeq(p, 1, Len(q))
    <2>1. s \in Seq(Name) /\ Len(q) = Len(s) /\ \A i \in 1 .. Len(q) : q[i] = s[i]
        BY <1>2, <1>4
    <2> HIDE DEF s
    <2>2. q = s
        BY <1>1, <2>1, SeqEqual
    <2> QED
        BY <2>2 DEF s
<1>5. ASSUME Len(q) <= Len(p), q = SubSeq(p, 1, Len(q)), NEW i \in 1 .. Len(q)
      PROVE  q[i] = p[i]
    BY <1>2, <1>5
<1> DEFINE cut == SubSeq(p, 1, Len(q))
<1>6. IsPrefix(q, p) <=> Len(q) <= Len(p) /\ q = cut
    BY <1>3 DEF IsPrefix
<1> HIDE DEF cut
<1>7. Len(q) <= Len(p) /\ q = cut => \A i \in 1 .. Len(q) : q[i] = p[i]
    BY <1>5 DEF cut
<1>8. Len(q) <= Len(p) /\ (\A i \in 1 .. Len(q) : q[i] = p[i]) => q = cut
    BY <1>4 DEF cut
<1> QED
    BY <1>6, <1>7, <1>8

\* The innermost repository around a directory.
Innermost(p) ==
    IF Enclosing(p) = {} THEN NoValue
    ELSE CHOOSE q \in Enclosing(p) : \A r \in Enclosing(p) : Len(r) <= Len(q)

Step(w, p) ==
    IF p = <<>> THEN NoValue ELSE IF dotGit[p] # "none" THEN p ELSE w[Front(p)]

LEMMA InnermostStep ==
    ASSUME NEW p \in Directory
    PROVE  Innermost(p) = IF p = <<>> THEN NoValue
                          ELSE IF dotGit[p] # "none" THEN p ELSE Innermost(Front(p))
<1>1. p \in Seq(Name) /\ Len(p) \in Nat /\ \A q \in Directory : q \in Seq(Name) /\ Len(q) \in Nat
    BY PathFacts
<1>2. CASE p = <<>>
    <2>1. \A q \in Directory : IsPrefix(q, p) => q = <<>>
        BY <1>1, <1>2 DEF IsPrefix
    <2> QED
        BY <1>2, <2>1 DEF Innermost, Enclosing
<1>3. CASE p # <<>> /\ dotGit[p] # "none"
    <2>1. p \in Enclosing(p)
        BY <1>1, <1>3 DEF Enclosing, IsPrefix
    <2>2. \A q \in Enclosing(p) : Len(q) <= Len(p)
        BY DEF Enclosing, IsPrefix
    <2>3. \A q \in Enclosing(p) : (Len(p) <= Len(q)) => q = p
        <3> SUFFICES ASSUME NEW q \in Enclosing(p), Len(p) <= Len(q) PROVE q = p
            OBVIOUS
        <3>1. q \in Directory /\ Len(q) = Len(p) /\ \A i \in 1 .. Len(q) : q[i] = p[i]
            BY <1>1, PrefixFacts, <2>2 DEF Enclosing
        <3> QED
            BY <1>1, <3>1, SeqEqual
    <2> QED
        BY <1>3, <2>1, <2>2, <2>3 DEF Innermost
<1>4. CASE p # <<>> /\ dotGit[p] = "none"
    <2>1. /\ Front(p) \in Directory /\ Len(Front(p)) = Len(p) - 1
          /\ \A i \in 1 .. Len(p) - 1 : Front(p)[i] = p[i]
        BY <1>4, PathFacts
    <2>2. \A q \in Directory : dotGit[q] # "none" => (IsPrefix(q, p) <=> IsPrefix(q, Front(p)))
        <3> SUFFICES ASSUME NEW q \in Directory, dotGit[q] # "none"
                     PROVE  IsPrefix(q, p) <=> IsPrefix(q, Front(p))
            OBVIOUS
        <3>1. /\ IsPrefix(q, p) <=> Len(q) <= Len(p) /\ \A i \in 1 .. Len(q) : q[i] = p[i]
              /\ IsPrefix(q, Front(p)) <=>
                     Len(q) <= Len(p) - 1 /\ \A i \in 1 .. Len(q) : q[i] = Front(p)[i]
            BY <2>1, PrefixFacts
        <3>2. IsPrefix(q, p) => Len(q) # Len(p)
            BY <1>1, <1>4, <3>1, SeqEqual
        <3> QED
            BY <1>1, <2>1, <3>1, <3>2
    <2>3. Enclosing(p) = Enclosing(Front(p))
        BY <2>2 DEF Enclosing
    <2> QED
        BY <1>4, <2>3 DEF Innermost
<1> QED
    BY <1>2, <1>3, <1>4

LEMMA WalkFindsInnermost ==
    ASSUME NEW start \in Directory
    PROVE  FindGitRoot(start) = Innermost(start)
<1> DEFINE Eq(w) == w = [p \in Directory |-> Step(w, p)]
           walk == CHOOSE w : Eq(w)
           inner == [p \in Directory |-> Innermost(p)]
<1>1. FindGitRoot(start) = walk[start]
    BY DEF FindGitRoot, Step
<1>2. Eq(inner)
    <2>1. \A p \in Directory : p # <<>> => Front(p) \in Directory
        BY PathFacts
    <2>2. \A p \in Directory : Innermost(p) = Step(inner, p)
        BY <2>1, InnermostStep DEF Step
    <2> QED
        BY <2>2
<1>3. Eq(walk)
    <2> HIDE DEF Eq, inner
    <2> QED
        BY <1>2
<1>4. \A p \in Directory : walk[p] = Step(walk, p)
    BY <1>3
<1> DEFINE agreeing == {n \in Nat : \A p \in Directory : Len(p) = n => walk[p] = Innermost(p)}
<1> HIDE DEF walk, Eq, inner
<1>5. 0 \in agreeing
    <2>1. \A p \in Directory : Len(p) = 0 => p = <<>>
        BY PathFacts
    <2> QED
        BY <1>4, <2>1, InnermostStep DEF Step
<1>6. \A n \in Nat : n \in agreeing => n + 1 \in agreeing
    <2> SUFFICES ASSUME NEW n \in Nat, n \in agreeing, NEW p \in Directory, Len(p) = n + 1
                 PROVE  walk[p] = Innermost(p)
        OBVIOUS
    <2>1. p # <<>>
        OBVIOUS
    <2>2. Front(p) \in Directory /\ Len(Front(p)) = n
        BY <2>1, PathFacts
    <2>3. walk[Front(p)] = Innermost(Front(p))
        BY <2>2
    <2> QED
        BY <1>4, <2>1, <2>3, InnermostStep DEF Step
<1>7. Nat \subseteq agreeing
    <2> HIDE DEF agreeing
    <2> QED
        BY <1>5, <1>6, SetInduction
<1>8. Len(start) \in Nat
    BY PathFacts
<1> QED
    BY <1>1, <1>7, <1>8

\* If a directory is in a repository, its innermost one is the longest path.
LEMMA InnermostIsLongest ==
    ASSUME NEW p \in Directory, Enclosing(p) # {}
    PROVE  /\ Innermost(p) \in Enclosing(p)
           /\ \A r \in Enclosing(p) : Len(r) <= Len(Innermost(p))
<1> DEFINE short == {Len(p) - Len(r) : r \in Enclosing(p)}
<1>1. /\ Len(p) \in Nat
      /\ \A r \in Enclosing(p) : Len(r) \in Nat /\ Len(r) <= Len(p)
    BY PathFacts DEF Enclosing, IsPrefix
<1>2. short \in SUBSET Nat /\ short # {}
    BY <1>1
<1>3. PICK x \in short : \A y \in short : x <= y
    BY <1>2, LeastElement
<1>4. PICK q \in Enclosing(p) : x = Len(p) - Len(q)
    OBVIOUS
<1>5. ASSUME NEW r \in Enclosing(p) PROVE Len(r) <= Len(q)
    <2>1. Len(p) - Len(q) <= Len(p) - Len(r)
        BY <1>3, <1>4
    <2> QED
        BY <1>1, <2>1
<1> QED
    BY <1>5 DEF Innermost

\* What was found is what detectWorkspace() makes of the files, which stay.
WorkspaceInv ==
    /\ config \in Configs
    /\ found # NoValue => found.start \in Directory /\ found = DetectWorkspace(found.start)

THEOREM WorkspaceDetected == WorkspaceSpec => []DetectsWorkspace
<1>1. WorkspaceInit => WorkspaceInv
    BY DEF WorkspaceInit, WorkspaceInv
<1>2. WorkspaceInv /\ [WorkspaceNext]_workspaceVars => WorkspaceInv'
    <2> SUFFICES ASSUME WorkspaceInv, [WorkspaceNext]_workspaceVars PROVE WorkspaceInv'
        OBVIOUS
    <2>1. UNCHANGED <<dotGit, config>>
        BY DEF WorkspaceNext, Detect, workspaceVars
    <2>2. \A d : DetectWorkspace(d)' = DetectWorkspace(d)
        BY <2>1 DEF DetectWorkspace, FindGitRoot, RemoteUrl, Slug, AtGitHub
    <2>3. ASSUME NEW start \in Directory, Detect(start) PROVE WorkspaceInv'
        <3>1. found' = DetectWorkspace(start) /\ found'.start = start
            BY <2>3 DEF Detect, DetectWorkspace
        <3>2. DetectWorkspace(start)' = DetectWorkspace(start)
            BY <2>2
        <3>3. found' = DetectWorkspace(found.start)'
            BY <3>1, <3>2
        <3> QED
            BY <2>1, <3>1, <3>3 DEF WorkspaceInv
    <2>4. CASE UNCHANGED workspaceVars
        BY <2>1, <2>2, <2>4 DEF WorkspaceInv, workspaceVars
    <2> QED
        BY <2>3, <2>4 DEF WorkspaceNext
<1>3. WorkspaceInv => DetectsWorkspace
    <2> SUFFICES ASSUME WorkspaceInv, found # NoValue PROVE DetectsWorkspace
        BY DEF DetectsWorkspace
    <2> DEFINE start == found.start
               root == Innermost(start)
    <2>1. start \in Directory /\ found = DetectWorkspace(start)
        BY DEF WorkspaceInv
    <2>2. FindGitRoot(start) = root
        BY <2>1, WalkFindsInnermost
    <2>3. /\ Enclosing(start) = {} => root = NoValue
          /\ Enclosing(start) # {} => /\ root \in Enclosing(start) /\ root # NoValue
                                      /\ \A p \in Enclosing(start) : Len(p) <= Len(root)
        <3>1. Enclosing(start) = {} => root = NoValue
            BY DEF Innermost
        <3>2. ASSUME Enclosing(start) # {}
              PROVE  /\ root \in Enclosing(start)
                     /\ \A p \in Enclosing(start) : Len(p) <= Len(root)
            BY <2>1, <3>2, InnermostIsLongest
        <3>3. NoValue \notin Enclosing(start)
            BY WorkspaceAssumption DEF Enclosing
        <3> QED
            BY <3>1, <3>2, <3>3
    <2> HIDE DEF start, root
    <2>4. /\ found.isGitRepo = (root # NoValue)
          /\ found.root = IF root = NoValue THEN start ELSE root
          /\ found.remoteUrl = IF root = NoValue THEN NoValue ELSE RemoteUrl(root)
          /\ found.githubSlug = IF found.remoteUrl = NoValue THEN NoValue
                                ELSE Slug(found.remoteUrl)
        BY <2>1, <2>2 DEF DetectWorkspace
    <2>5. ASSUME 1 \in DOMAIN config, found.isGitRepo, dotGit[found.root] = "dir"
          PROVE  found.remoteUrl = config[1].url /\ found.githubSlug = Slug(config[1].url)
        <3>1. config # <<>> /\ config[1].url # NoValue
            BY <2>5, WorkspaceAssumption DEF WorkspaceInv
        <3> QED
            BY <2>4, <2>5, <3>1 DEF RemoteUrl
    <2>6. found.isGitRepo <=> Enclosing(start) # {}
        BY <2>3, <2>4
    <2>7. ASSUME NEW url
          PROVE  /\ url.host = <<"github.com">> /\ url.name[1] # "" => Slug(url) = <<url.owner, url.name[1]>>
                 /\ Slug(url) # NoValue => Last(url.host) = "github.com" /\ Slug(url)[1] = url.owner
        <3>1. url.host = <<"github.com">> => Last(url.host) = "github.com"
            BY DEF Last
        <3> QED
            BY <3>1 DEF Slug, AtGitHub
    <2> QED
        BY <2>3, <2>4, <2>5, <2>6, <2>7 DEF DetectsWorkspace, start
<1> QED
    BY <1>1, <1>2, <1>3, PTL DEF WorkspaceSpec

-----------------------------------------------------------------------------
(* The loops of gitStatus() that gather paths.                             *)

\* What Among() computes, one element after the other.
Gathers(f, n, E, s, S) ==
    /\ \A i \in 0 .. n : f[i] \in Seq(E)
    /\ f[0] = <<>>
    /\ \A i \in Nat : i < n =>
          f[i + 1] = IF s[i + 1] \in S THEN Append(f[i], s[i + 1]) ELSE f[i]

LEMMA AmongUnfolds ==
    ASSUME NEW E, NEW s \in Seq(E), NEW S, NEW n \in Nat, Len(s) = n
    PROVE  \E f : Gathers(f, n, E, s, S) /\ Among(s, S) = f[n]
<1> DEFINE Turn(w, i) == IF i = 0 THEN <<>>
                         ELSE IF s[i] \in S THEN Append(w[i - 1], s[i]) ELSE w[i - 1]
           Eq(w) == w = [i \in 0 .. n |-> Turn(w, i)]
           upTo == CHOOSE w : Eq(w)
<1>1. \A i \in 1 .. n : s[i] \in E
    OBVIOUS
<1>2. \E w : Eq(w)
    <2> DEFINE Begun(w, m) == \A i \in 0 .. m : w[i] = Turn(w, i)
               reached == {m \in Nat : \E w : w = [i \in 0 .. m |-> w[i]] /\ Begun(w, m)}
    <2>1. 0 \in reached
        <3> DEFINE w == [i \in 0 .. 0 |-> <<>>]
        <3>1. w = [i \in 0 .. 0 |-> w[i]] /\ Begun(w, 0)
            OBVIOUS
        <3> QED
            BY <3>1
    <2>2. ASSUME NEW m \in Nat, m \in reached PROVE m + 1 \in reached
        <3>1. PICK w : w = [i \in 0 .. m |-> w[i]] /\ Begun(w, m)
            BY <2>2
        <3> DEFINE v == [i \in 0 .. m + 1 |-> IF i = m + 1 THEN Turn(w, i) ELSE w[i]]
        <3>2. \A i \in 0 .. m : v[i] = w[i]
            OBVIOUS
        <3>3. v[m + 1] = Turn(w, m + 1)
            OBVIOUS
        <3>4. v = [i \in 0 .. m + 1 |-> v[i]]
            OBVIOUS
        <3> HIDE DEF v
        <3>5. ASSUME NEW i \in 0 .. m + 1 PROVE v[i] = Turn(v, i) 
            <4>1. i = 0 \/ i - 1 \in 0 .. m
                OBVIOUS
            <4>2. Turn(v, i) = Turn(w, i)
                BY <3>2, <4>1
            <4>3. i \in 0 .. m \/ i = m + 1
                OBVIOUS
            <4> QED
                BY <3>1, <3>2, <3>3, <4>2, <4>3
        <3> QED
            BY <3>4, <3>5
    <2>3. n \in reached
        <3> HIDE DEF reached
        <3> QED
            BY <1>1, <2>1, <2>2, SetInduction
    <2>4. PICK w : w = [i \in 0 .. n |-> w[i]] /\ Begun(w, n)
        BY <2>3
    <2> HIDE DEF Turn
    <2> QED
        BY <2>4
<1>3. Eq(upTo)
    <2> HIDE DEF Eq
    <2> QED
        BY <1>2
<1>4. Among(s, S) = upTo[n]
    BY DEF Among
<1>5. upTo = [i \in 0 .. n |-> Turn(upTo, i)]
    BY <1>3
<1> HIDE DEF upTo
<1>6. \A i \in 0 .. n : upTo[i] = Turn(upTo, i)
    BY <1>5
<1> DEFINE typed == {m \in Nat : m <= n => upTo[m] \in Seq(E)}
<1>7. 0 \in typed
    <2>1. upTo[0] = <<>>
        BY <1>1, <1>6
    <2>2. upTo[0] \in Seq(E)
        BY <2>1
    <2> QED
        BY <2>2
<1>8. ASSUME NEW m \in Nat, m \in typed PROVE m + 1 \in typed
    <2> SUFFICES ASSUME m + 1 <= n PROVE upTo[m + 1] \in Seq(E)
        OBVIOUS
    <2>1. upTo[m] \in Seq(E) /\ m + 1 \in 0 .. n /\ s[m + 1] \in E
        BY <1>1, <1>8
    <2>2. upTo[m + 1] = IF s[m + 1] \in S THEN Append(upTo[m], s[m + 1]) ELSE upTo[m]
        BY <1>6, <2>1
    <2> QED
        BY <2>1, <2>2
<1>9. \A m \in 0 .. n : upTo[m] \in Seq(E)
    <2> HIDE DEF typed
    <2>1. Nat \subseteq typed
        BY <1>7, <1>8, SetInduction
    <2> QED
        BY <1>1, <2>1 DEF typed
<1>10. Gathers(upTo, n, E, s, S)
    <2>1. 0 \in 0 .. n /\ \A i \in Nat : i < n => i + 1 \in 0 .. n /\ i + 1 # 0 /\ i + 1 - 1 = i
        OBVIOUS
    <2> QED
        BY <1>6, <1>9, <2>1 DEF Gathers
<1> QED
    BY <1>4, <1>10

\* It keeps the order, so what is alike in two sequences is so in what it keeps.
Alike(s, t, g) == Len(s) = Len(t) /\ \A k \in 1 .. Len(s) : g[s[k]] = t[k]

LEMMA AmongAlike ==
    ASSUME NEW E, NEW s \in Seq(E), NEW S, NEW F, NEW t \in Seq(F), NEW T, NEW g,
           Alike(s, t, g), \A i \in 1 .. Len(s) : s[i] \in S <=> t[i] \in T
    PROVE  /\ Among(s, S) \in Seq(E) /\ Among(t, T) \in Seq(F)
           /\ Alike(Among(s, S), Among(t, T), g)
<1>1. PICK n \in Nat : Len(s) = n /\ Len(t) = n
    BY DEF Alike
<1>2. /\ \A i \in 1 .. n : s[i] \in E /\ t[i] \in F
      /\ \A i \in 1 .. n : (s[i] \in S <=> t[i] \in T) /\ g[s[i]] = t[i]
    BY <1>1 DEF Alike
<1>3. PICK f : Gathers(f, n, E, s, S) /\ Among(s, S) = f[n]
    BY <1>1, AmongUnfolds
<1>4. PICK h : Gathers(h, n, F, t, T) /\ Among(t, T) = h[n]
    BY <1>1, AmongUnfolds
<1> DEFINE alike == {m \in Nat : m <= n => Alike(f[m], h[m], g)}
<1>5. 0 \in alike
    BY <1>3, <1>4 DEF Gathers, Alike
<1>6. ASSUME NEW m \in Nat, m \in alike PROVE m + 1 \in alike
    <2> SUFFICES ASSUME m + 1 <= n PROVE Alike(f[m + 1], h[m + 1], g)
        OBVIOUS
    <2>1. m \in Nat /\ m < n /\ m \in 0 .. n /\ m + 1 \in 1 .. n /\ Alike(f[m], h[m], g)
        BY <1>6
    <2>2. /\ f[m] \in Seq(E) /\ h[m] \in Seq(F) /\ s[m + 1] \in E /\ t[m + 1] \in F
          /\ s[m + 1] \in S <=> t[m + 1] \in T
          /\ g[s[m + 1]] = t[m + 1]
        BY <1>2, <1>3, <1>4, <2>1 DEF Gathers
    <2>3. /\ f[m + 1] = IF s[m + 1] \in S THEN Append(f[m], s[m + 1]) ELSE f[m]
          /\ h[m + 1] = IF t[m + 1] \in T THEN Append(h[m], t[m + 1]) ELSE h[m]
        BY <1>3, <1>4, <2>1 DEF Gathers
    <2>4. ASSUME NEW u \in Seq(E), NEW v \in Seq(F), NEW x \in E, NEW y \in F,
                 Alike(u, v, g), g[x] = y
          PROVE  Alike(Append(u, x), Append(v, y), g)
        <3>1. Len(u) \in Nat /\ Len(v) = Len(u)
            BY <2>4 DEF Alike
        <3>2. /\ Len(Append(u, x)) = Len(u) + 1 /\ Append(u, x)[Len(u) + 1] = x
              /\ \A k \in 1 .. Len(u) : Append(u, x)[k] = u[k]
            BY AppendProperties
        <3>3. /\ Len(Append(v, y)) = Len(u) + 1 /\ Append(v, y)[Len(u) + 1] = y
              /\ \A k \in 1 .. Len(u) : Append(v, y)[k] = v[k]
            BY <3>1, AppendProperties
        <3>4. \A k \in 1 .. Len(u) + 1 : k \in 1 .. Len(u) \/ k = Len(u) + 1
            BY <3>1
        <3> QED
            BY <2>4, <3>2, <3>3, <3>4 DEF Alike
    <2> QED
        BY <2>1, <2>2, <2>3, <2>4
<1>7. n \in alike
    <2> HIDE DEF alike
    <2> QED
        BY <1>5, <1>6, SetInduction
<1>8. f[n] \in Seq(E) /\ h[n] \in Seq(F)
    BY <1>3, <1>4 DEF Gathers
<1> QED
    BY <1>3, <1>4, <1>7, <1>8

\* Its result starts with the first element of the sequence, if that is kept.
LEMMA AmongOfFirst ==
    ASSUME NEW E, NEW x \in E, NEW s \in Seq(E), NEW S
    PROVE  /\ Among(s, S) \in Seq(E)
           /\ x \in S => Among(Cons(x, s), S) = Cons(x, Among(s, S))
           /\ x \notin S => Among(Cons(x, s), S) = Among(s, S)
<1>1. PICK n \in Nat : Len(s) = n
    OBVIOUS
<1>2. PICK t : t = <<x>> \o s
    OBVIOUS
<1>3. PICK first : first = IF x \in S THEN <<x>> ELSE <<>>
    OBVIOUS
<1>4. /\ t \in Seq(E) /\ Len(t) = n + 1 /\ t[1] = x /\ first \in Seq(E)
      /\ \A i \in 1 .. n : t[i + 1] = s[i] /\ s[i] \in E
    BY <1>1, <1>2, <1>3
<1>5. PICK f : Gathers(f, n, E, s, S) /\ Among(s, S) = f[n]
    BY <1>1, AmongUnfolds
<1>6. PICK h : Gathers(h, n + 1, E, t, S) /\ Among(t, S) = h[n + 1]
    BY <1>4, AmongUnfolds
<1> DEFINE after == {m \in Nat : m <= n => h[m + 1] = first \o f[m]}
<1>7. 0 \in after
    <2>1. f[0] = <<>> /\ h[0] = <<>>
        BY <1>5, <1>6 DEF Gathers
    <2>2. h[0 + 1] = IF t[0 + 1] \in S THEN Append(h[0], t[0 + 1]) ELSE h[0]
        <3>1. 0 \in Nat /\ 0 < n + 1
            OBVIOUS
        <3> QED
            BY <1>6, <3>1 DEF Gathers
    <2>3. Append(<<>>, x) = <<x>> /\ t[0 + 1] = x
        BY <1>4
    <2>4. h[0 + 1] = first
        BY <1>3, <2>1, <2>2, <2>3, Zenon
    <2>5. first \o f[0] = first
        BY <1>4, <2>1, ConcatEmptySeq
    <2>6. h[0 + 1] = first \o f[0]
        BY <2>4, <2>5
    <2> QED
        BY <2>6
<1>8. ASSUME NEW m \in Nat, m \in after PROVE m + 1 \in after
    <2> SUFFICES ASSUME m + 1 <= n PROVE h[m + 1 + 1] = first \o f[m + 1]
        OBVIOUS
    <2>1. /\ m \in Nat /\ m < n /\ m \in 0 .. n /\ m + 1 \in 1 .. n
          /\ m + 1 \in Nat /\ m + 1 < n + 1 /\ h[m + 1] = first \o f[m]
        BY <1>8
    <2>2. f[m] \in Seq(E) /\ t[m + 1 + 1] = s[m + 1] /\ s[m + 1] \in E
        BY <1>4, <1>5, <2>1 DEF Gathers
    <2>3. /\ h[m + 1 + 1] = IF s[m + 1] \in S THEN Append(h[m + 1], s[m + 1]) ELSE h[m + 1]
          /\ f[m + 1] = IF s[m + 1] \in S THEN Append(f[m], s[m + 1]) ELSE f[m]
        <3>1. h[m + 1 + 1] = IF t[m + 1 + 1] \in S THEN Append(h[m + 1], t[m + 1 + 1])
                             ELSE h[m + 1]
            BY <1>6, <2>1 DEF Gathers
        <3>2. f[m + 1] = IF s[m + 1] \in S THEN Append(f[m], s[m + 1]) ELSE f[m]
            BY <1>5, <2>1 DEF Gathers
        <3> QED
            BY <2>2, <3>1, <3>2, Zenon
    <2>4. ASSUME NEW u \in Seq(E), NEW y \in E
          PROVE  Append(first \o u, y) = first \o Append(u, y)
        <3>1. first \o u \in Seq(E) /\ <<y>> \in Seq(E)
            BY <1>4
        <3>2. Append(first \o u, y) = (first \o u) \o <<y>> /\ Append(u, y) = u \o <<y>>
            BY <3>1, AppendIsConcat
        <3>3. (first \o u) \o <<y>> = first \o (u \o <<y>>)
            BY <1>4, <3>1, ConcatAssociative
        <3> QED
            BY <3>2, <3>3
    <2> QED
        BY <2>1, <2>2, <2>3, <2>4
<1>9. n \in after
    <2> HIDE DEF after
    <2> QED
        BY <1>7, <1>8, SetInduction
<1>10. f[n] \in Seq(E)
    BY <1>5 DEF Gathers
<1>11. h[n + 1] = first \o f[n]
    BY <1>9
<1>12. Among(t, S) = first \o Among(s, S) /\ Among(s, S) \in Seq(E)
    BY <1>5, <1>6, <1>10, <1>11
<1>13. <<>> \o Among(s, S) = Among(s, S)
    BY <1>12, ConcatEmptySeq
<1>14. CASE x \in S
    BY <1>2, <1>3, <1>12, <1>14, Zenon DEF Cons
<1>15. CASE x \notin S
    BY <1>2, <1>3, <1>12, <1>13, <1>15, Zenon DEF Cons
<1> QED
    BY <1>14, <1>15

-----------------------------------------------------------------------------
(* What git prints, and what is read of it.                                *)

\* The repository, as git sees it.
FilesOK == files \in [PathSet -> Codes]

\* What line.slice(3) leaves of a line.
LEMMA FromFourth ==
    ASSUME NEW C, NEW s \in Seq(C), NEW n \in Nat, Len(s) = n + 3
    PROVE  /\ SubSeq(s, 4, Len(s)) \in Seq(C) /\ Len(SubSeq(s, 4, Len(s))) = n
           /\ \A i \in 1 .. n : SubSeq(s, 4, Len(s))[i] = s[i + 3]
<1>1. PICK k \in Int, m \in Int : k = 4 /\ m = n + 3
    OBVIOUS
<1>2. \A i \in k .. m : s[i] \in C
    BY <1>1
<1>3. /\ SubSeq(s, k, m) \in Seq(C)
      /\ Len(SubSeq(s, k, m)) = IF k <= m THEN m - k + 1 ELSE 0
      /\ \A i \in 1 .. m - k + 1 : SubSeq(s, k, m)[i] = s[k + i - 1]
    BY <1>2, SubSeqProperties
<1>4. PICK r : r = SubSeq(s, k, m)
    OBVIOUS
<1>5. Len(r) = n
    BY <1>1, <1>3, <1>4
<1>6. \A i \in 1 .. n : r[i] = s[i + 3]
    <2> SUFFICES ASSUME NEW i \in 1 .. n PROVE r[i] = s[i + 3]
        OBVIOUS
    <2>1. i \in 1 .. m - k + 1 /\ k + i - 1 = i + 3
        BY <1>1
    <2> QED
        BY <1>3, <1>4, <2>1
<1> QED
    BY <1>1, <1>3, <1>4, <1>5, <1>6

\* A line of two columns, a blank and the rest, with and without its first
\* character.
LEMMA LineParts ==
    ASSUME NEW C, NEW a \in C, NEW b \in C, NEW d \in C, NEW p \in Seq(C), p # <<>>,
           NEW l, l = <<a, b>> \o <<d>> \o p
    PROVE  /\ l \in Seq(C) /\ Tail(l) \in Seq(C)
           /\ l # <<>> /\ l[1] = a /\ l[2] = b /\ SubSeq(l, 4, Len(l)) = p
           /\ Tail(l)[1] = b /\ Tail(l)[2] = d
           /\ SubSeq(Tail(l), 4, Len(Tail(l))) = Tail(p)
<1>1. PICK n \in Nat : Len(p) = n /\ n > 0
    OBVIOUS
<1>2. PICK h : h = <<a, b>> \o <<d>>
    OBVIOUS
<1>3. h \in Seq(C) /\ Len(h) = 3 /\ h[1] = a /\ h[2] = b /\ h[3] = d
    BY <1>2
<1>4. /\ l \in Seq(C) /\ Len(l) = n + 3
      /\ l[1] = a /\ l[2] = b /\ l[3] = d
      /\ \A i \in 1 .. n : l[i + 3] = p[i]
    <2>1. l = h \o p
        BY <1>2
    <2> QED
        BY <1>1, <1>3, <2>1
<1>5. SubSeq(l, 4, Len(l)) = p
    <2>1. PICK s : s = SubSeq(l, 4, Len(l))
        OBVIOUS
    <2>2. /\ s \in Seq(C) /\ Len(s) = n
          /\ \A i \in 1 .. n : s[i] = l[i + 3]
        BY <1>4, <2>1, FromFourth
    <2>3. \A i \in 1 .. n : s[i] = p[i]
        BY <1>4, <2>2
    <2>4. s = p
        BY <1>1, <2>2, <2>3, SeqEqual
    <2> QED
        BY <2>1, <2>4
<1>6. PICK t : t = Tail(l)
    OBVIOUS
<1>7. /\ t \in Seq(C) /\ Len(t) = n + 2
      /\ \A i \in 1 .. n + 2 : t[i] = l[i + 1]
    BY <1>4, <1>6
<1>8. /\ Tail(p) \in Seq(C) /\ Len(Tail(p)) = n - 1
      /\ \A i \in 1 .. n - 1 : Tail(p)[i] = p[i + 1]
    BY <1>1
<1>9. SubSeq(t, 4, Len(t)) = Tail(p)
    <2>1. PICK s : s = SubSeq(t, 4, Len(t))
        OBVIOUS
    <2>2. PICK m \in Nat : m = n - 1 /\ Len(t) = m + 3
        BY <1>1, <1>7
    <2>3. /\ s \in Seq(C) /\ Len(s) = m
          /\ \A i \in 1 .. m : s[i] = t[i + 3]
        BY <1>7, <2>1, <2>2, FromFourth
    <2>4. \A i \in 1 .. m : s[i] = Tail(p)[i]
        <3> SUFFICES ASSUME NEW i \in 1 .. m PROVE s[i] = Tail(p)[i]
            OBVIOUS
        <3>1. s[i] = t[i + 3] /\ i + 3 \in 1 .. n + 2
            BY <2>2, <2>3
        <3>2. t[i + 3] = l[i + 3 + 1]
            BY <1>7, <3>1
        <3>3. i + 3 + 1 = (i + 1) + 3 /\ i + 1 \in 1 .. n
            BY <2>2
        <3>4. l[(i + 1) + 3] = p[i + 1]
            BY <1>4, <3>3
        <3> QED
            BY <1>8, <2>2, <3>1, <3>2, <3>3, <3>4
    <2>5. s = Tail(p)
        BY <1>8, <2>2, <2>3, <2>4, SeqEqual
    <2> QED
        BY <2>1, <2>5
<1> QED
    BY <1>1, <1>4, <1>5, <1>6, <1>7, <1>9

\* A sequence is one of its elements.
LEMMA RangeSeq ==
    ASSUME NEW X, NEW s \in Seq(X)
    PROVE  s \in Seq({s[i] : i \in DOMAIN s})
    OBVIOUS

\* What git prints of a path, with and without its first character.
LEMMA LineOfPath ==
    ASSUME NEW p \in PathSet, NEW c \in Codes
    PROVE  \E l \in Seq(Char) :
              /\ l = c \o <<Space>> \o p
              /\ Tail(l) \in Seq(Char) /\ l # <<>> /\ l[1] = c[1] /\ l[2] = c[2]
              /\ SubSeq(l, 4, Len(l)) = p
              /\ Tail(l)[1] = c[2] /\ Tail(l)[2] = Space
              /\ SubSeq(Tail(l), 4, Len(Tail(l))) = Tail(p)
<1>1. p \in Seq(Char) /\ p # <<>>
    BY PathAssumption DEF PathSet
<1>2. PICK a \in Char, b \in Char : c = <<a, b>>
    BY CodeAssumption
<1>3. PICK d \in Char : d = Space
    BY PathAssumption
<1>4. PICK l : l = <<a, b>> \o <<d>> \o p
    OBVIOUS
<1>5. /\ l \in Seq(Char) /\ Tail(l) \in Seq(Char)
      /\ l # <<>> /\ l[1] = a /\ l[2] = b /\ SubSeq(l, 4, Len(l)) = p
      /\ Tail(l)[1] = b /\ Tail(l)[2] = d
      /\ SubSeq(Tail(l), 4, Len(Tail(l))) = Tail(p)
    BY <1>1, <1>4, LineParts
<1>6. c[1] = a /\ c[2] = b
    BY <1>2
<1> QED
    BY <1>2, <1>3, <1>4, <1>5, <1>6, Zenon

\* What git lists: paths of the repository that are not clean.
LEMMA ListedPaths ==
    ASSUME FilesOK
    PROVE  /\ Listed \in Seq(PathSet)
           /\ \A i \in 1 .. Len(Listed) : files[Listed[i]] \in Codes \ {Clean}
<1> DEFINE S == {p \in PathSet : files[p] \notin {Clean, Untracked}}
           T == {p \in PathSet : files[p] = Untracked}
<1>1. Paths \in Seq(PathSet)
    BY PathAssumption, RangeSeq DEF PathSet
<1>2. PICK n \in Nat : Len(Paths) = n
    BY <1>1
<1>4. ASSUME NEW U \in SUBSET PathSet PROVE Among(Paths, U) \in Seq(U)
    <2>1. PICK f : Gathers(f, n, PathSet, Paths, U) /\ Among(Paths, U) = f[n]
        BY <1>1, <1>2, AmongUnfolds
    <2> DEFINE kept == {m \in Nat : m <= n => f[m] \in Seq(U)}
    <2>2. 0 \in kept
        BY <2>1 DEF Gathers
    <2>3. ASSUME NEW m \in Nat, m \in kept PROVE m + 1 \in kept
        <3> SUFFICES ASSUME m + 1 <= n PROVE f[m + 1] \in Seq(U)
            OBVIOUS
        <3>1. f[m] \in Seq(U) /\ m < n
            BY <2>3
        <3>2. f[m + 1] = IF Paths[m + 1] \in U THEN Append(f[m], Paths[m + 1]) ELSE f[m]
            BY <2>1, <3>1 DEF Gathers
        <3> QED
            BY <3>1, <3>2
    <2>4. n \in kept
        <3> HIDE DEF kept
        <3> QED
            BY <2>2, <2>3, SetInduction
    <2> QED
        BY <2>1, <2>4
<1>5. PICK u : u = Among(Paths, S)
    OBVIOUS
<1>6. PICK v : v = Among(Paths, T)
    OBVIOUS
<1>7. u \in Seq(S \cup T) /\ v \in Seq(S \cup T)
    BY <1>4, <1>5, <1>6
<1>8. Listed = u \o v
    BY <1>5, <1>6 DEF Listed
<1>9. Listed \in Seq(S \cup T)
    BY <1>7, <1>8
<1>10. Clean # Untracked
    BY DEF Clean, Untracked, Space
<1>11. S \cup T \subseteq PathSet /\ \A p \in S \cup T : files[p] \in Codes \ {Clean}
    BY <1>10 DEF FilesOK
<1> HIDE DEF S, T
<1> QED
    BY <1>9, <1>11

\* The first listed path, if trim() eats its blank, and the lines of the others.
Misread == Listed # <<>> /\ files[Listed[1]][1] = Space
Rest == IF Misread THEN Tail(Listed) ELSE Listed
RestLines == [i \in DOMAIN Rest |-> files[Rest[i]] \o <<Space>> \o Rest[i]]
FirstLine == Tail(files[Listed[1]] \o <<Space>> \o Listed[1])

LEMMA RestOfLines ==
    ASSUME FilesOK
    PROVE  /\ Rest \in Seq(PathSet) /\ RestLines \in Seq(Seq(Char))
           /\ Len(RestLines) = Len(Rest)
           /\ \A i \in 1 .. Len(Rest) :
                 /\ files[Rest[i]] \in Codes
                 /\ RestLines[i][1] = files[Rest[i]][1] /\ RestLines[i][2] = files[Rest[i]][2]
                 /\ SubSeq(RestLines[i], 4, Len(RestLines[i])) = Rest[i]
<1>1. Rest \in Seq(PathSet)
    <2>1. Listed \in Seq(PathSet)
        BY ListedPaths
    <2> QED
        BY <2>1 DEF Rest, Misread
<1>2. PICK n \in Nat : Len(Rest) = n /\ DOMAIN Rest = 1 .. n
    BY <1>1
<1>3. \A i \in 1 .. n : Rest[i] \in PathSet /\ files[Rest[i]] \in Codes
    BY <1>1, <1>2 DEF FilesOK
<1>4. DOMAIN RestLines = 1 .. n
    BY <1>2 DEF RestLines
<1>5. ASSUME NEW i \in 1 .. n
      PROVE  /\ RestLines[i] \in Seq(Char)
             /\ RestLines[i][1] = files[Rest[i]][1] /\ RestLines[i][2] = files[Rest[i]][2]
             /\ SubSeq(RestLines[i], 4, Len(RestLines[i])) = Rest[i]
    <2>1. PICK p \in PathSet, c \in Codes : p = Rest[i] /\ c = files[Rest[i]]
        BY <1>3
    <2>2. RestLines[i] = c \o <<Space>> \o p
        BY <1>2, <2>1 DEF RestLines
    <2>3. PICK l \in Seq(Char) :
              /\ l = c \o <<Space>> \o p /\ l[1] = c[1] /\ l[2] = c[2]
              /\ SubSeq(l, 4, Len(l)) = p
        BY LineOfPath
    <2> QED
        BY <2>1, <2>2, <2>3, Zenon
<1>6. RestLines \in Seq(Seq(Char)) /\ Len(RestLines) = n
    <2>1. RestLines \in [1 .. n -> Seq(Char)]
        <3>1. RestLines = [i \in 1 .. n |-> RestLines[i]]
            BY <1>2 DEF RestLines
        <3> QED
            BY <1>5, <3>1
    <2> QED
        BY <2>1
<1> QED
    BY <1>1, <1>2, <1>3, <1>5, <1>6

\* What the loop reads: the lines of all the paths, or the first cut short.
LEMMA LinesRead ==
    ASSUME FilesOK
    PROVE  /\ ~Misread => Trimmed(Printed) = RestLines
           /\ Misread => /\ Trimmed(Printed) = Cons(FirstLine, RestLines)
                         /\ FirstLine \in Seq(Char)
                         /\ FirstLine[1] \notin {"?", Space} /\ FirstLine[2] = Space
                         /\ SubSeq(FirstLine, 4, Len(FirstLine)) = Tail(Listed[1])
<1>1. PICK L \in Seq(PathSet) : L = Listed
    BY ListedPaths
<1>2. PICK n \in Nat : Len(L) = n /\ DOMAIN L = 1 .. n
    BY <1>1
<1>3. \A i \in 1 .. n : L[i] \in PathSet /\ files[L[i]] \in Codes \ {Clean}
    BY <1>1, <1>2, ListedPaths
<1>4. ASSUME NEW i \in 1 .. n
      PROVE  /\ Printed[i] = files[L[i]] \o <<Space>> \o L[i]
             /\ Printed[i] \in Seq(Char) /\ Printed[i][1] = files[L[i]][1]
    <2>1. PICK p \in PathSet, c \in Codes : p = L[i] /\ c = files[L[i]]
        BY <1>3
    <2>2. Printed[i] = c \o <<Space>> \o p
        BY <1>1, <1>2, <2>1 DEF Printed
    <2>3. PICK l \in Seq(Char) : l = c \o <<Space>> \o p /\ l[1] = c[1]
        BY LineOfPath
    <2> QED
        BY <2>1, <2>2, <2>3, Zenon
<1>5. Printed \in Seq(Seq(Char)) /\ Len(Printed) = n /\ DOMAIN Printed = 1 .. n
    <2>1. DOMAIN Printed = 1 .. n /\ Printed = [i \in 1 .. n |-> Printed[i]]
        BY <1>1, <1>2 DEF Printed
    <2>2. Printed \in [1 .. n -> Seq(Char)]
        BY <1>4, <2>1
    <2> QED
        BY <2>1, <2>2
<1>6. L # <<>> <=> Printed # <<>>
    BY <1>1, <1>2, <1>5
<1>7. L # <<>> => 1 \in 1 .. n
    BY <1>1, <1>2
<1>8. Misread <=> Printed # <<>> /\ Printed[1][1] = Space
    BY <1>1, <1>4, <1>6, <1>7 DEF Misread
<1>9. CASE ~Misread
    <2>1. Trimmed(Printed) = Printed
        BY <1>8, <1>9 DEF Trimmed
    <2>2. Printed = RestLines
        BY <1>9 DEF Printed, RestLines, Rest
    <2> QED
        BY <1>9, <2>1, <2>2
<1>10. CASE Misread
    <2>1. PICK p \in PathSet, c \in Codes \ {Clean} : p = L[1] /\ c = files[L[1]]
        BY <1>1, <1>3, <1>7, <1>10 DEF Misread
    <2>2. PICK l \in Seq(Char) :
              /\ l = c \o <<Space>> \o p /\ Tail(l) \in Seq(Char)
              /\ Tail(l)[1] = c[2] /\ Tail(l)[2] = Space
              /\ SubSeq(Tail(l), 4, Len(Tail(l))) = Tail(p)
        BY LineOfPath
    <2>3. l = Printed[1] /\ FirstLine = Tail(l)
        BY <1>1, <1>4, <1>7, <1>10, <2>1, <2>2 DEF Misread, FirstLine
    <2>4. c[1] = Space
        BY <1>1, <1>10, <2>1 DEF Misread
    <2>5. c[2] \notin {"?", Space}
        <3>1. PICK a \in Char, b \in Char : c = <<a, b>>
            BY CodeAssumption
        <3>2. a = Space /\ c[2] = b
            BY <2>4, <3>1
        <3>3. b # Space
            BY <3>1, <3>2 DEF Clean
        <3>4. b = "?" => c = Untracked
            BY <3>2, CodeAssumption
        <3>5. c = Untracked => c[1] = "?"
            BY DEF Untracked
        <3> QED
            BY <2>4, <3>2, <3>3, <3>4, <3>5 DEF Space
    <2>6. Trimmed(Printed) = <<FirstLine>> \o Tail(Printed)
        BY <1>8, <1>10, <2>3 DEF Trimmed
    <2>7. Tail(Printed) = RestLines
        <3>1. Rest = Tail(L) /\ n \in Nat \ {0}
            BY <1>1, <1>2, <1>7, <1>10 DEF Rest, Misread
        <3>2. /\ Tail(Printed) \in Seq(Seq(Char)) /\ Len(Tail(Printed)) = n - 1
              /\ \A i \in 1 .. n - 1 : Tail(Printed)[i] = Printed[i + 1]
            BY <1>5, <3>1
        <3>3. /\ Rest \in Seq(PathSet) /\ Len(Rest) = n - 1
              /\ \A i \in 1 .. n - 1 : Rest[i] = L[i + 1]
            BY <1>2, <3>1
        <3>4. RestLines \in Seq(Seq(Char)) /\ Len(RestLines) = n - 1
            BY <3>3, RestOfLines
        <3>5. ASSUME NEW i \in 1 .. n - 1 PROVE Tail(Printed)[i] = RestLines[i]
            <4>1. i + 1 \in 1 .. n /\ i \in DOMAIN Rest
                BY <3>3
            <4>2. Tail(Printed)[i] = files[L[i + 1]] \o <<Space>> \o L[i + 1]
                BY <1>4, <3>2, <4>1
            <4>3. RestLines[i] = files[Rest[i]] \o <<Space>> \o Rest[i]
                BY <4>1 DEF RestLines
            <4> QED
                BY <3>3, <4>2, <4>3
        <3> QED
            BY <3>2, <3>4, <3>5, SeqEqual
    <2> QED
        BY <1>1, <1>10, <2>1, <2>2, <2>3, <2>5, <2>6, <2>7 DEF Cons
<1> QED
    BY <1>9, <1>10

\* The paths of some lines: line.slice(3).
Slices(lines) == [i \in DOMAIN lines |-> SubSeq(lines[i], 4, Len(lines[i]))]

\* Lines chosen by what is in their columns are paths chosen by their code.
LEMMA RestChosen ==
    ASSUME FilesOK, NEW W, NEW codes,
           \A i \in 1 .. Len(Rest) : RestLines[i] \in W <=> files[Rest[i]] \in codes
    PROVE  /\ Among(RestLines, W) \in Seq(Seq(Char))
           /\ FilesWith(Rest, codes) \in Seq(PathSet)
           /\ Slices(Among(RestLines, W)) = FilesWith(Rest, codes)
<1>1. PICK n \in Nat : Len(Rest) = n /\ Len(RestLines) = n
    BY RestOfLines
<1>2. /\ Rest \in Seq(PathSet) /\ RestLines \in Seq(Seq(Char))
      /\ \A i \in 1 .. n : Rest[i] \in PathSet /\ RestLines[i] \in Seq(Char)
      /\ \A i \in 1 .. n : SubSeq(RestLines[i], 4, Len(RestLines[i])) = Rest[i]
    BY <1>1, RestOfLines
<1>3. PICK T : T = {p \in PathSet : files[p] \in codes}
    OBVIOUS
<1>4. PICK g : g = [l \in Seq(Char) |-> SubSeq(l, 4, Len(l))]
    OBVIOUS
<1>5. \A i \in 1 .. n : (RestLines[i] \in W <=> Rest[i] \in T) /\ g[RestLines[i]] = Rest[i]
    BY <1>1, <1>2, <1>3, <1>4
<1>6. PICK u : u = Among(RestLines, W)
    OBVIOUS
<1>7. PICK v : v = Among(Rest, T)
    OBVIOUS
<1>8. u \in Seq(Seq(Char)) /\ v \in Seq(PathSet) /\ Alike(u, v, g)
    <2>1. PICK s : s = RestLines
        OBVIOUS
    <2>2. PICK t : t = Rest
        OBVIOUS
    <2> DEFINE E == Seq(Char)
    <2>3. /\ s \in Seq(E) /\ t \in Seq(PathSet) /\ Alike(s, t, g)
          /\ \A i \in 1 .. Len(s) : s[i] \in W <=> t[i] \in T
        BY <1>1, <1>2, <1>5, <2>1, <2>2 DEF Alike
    <2>4. u = Among(s, W) /\ v = Among(t, T)
        BY <1>6, <1>7, <2>1, <2>2
    <2> HIDE DEF E
    <2>5. u \in Seq(E) /\ v \in Seq(PathSet) /\ Alike(u, v, g)
        BY <2>3, <2>4, AmongAlike
    <2> QED
        BY <2>5 DEF E
<1>9. Slices(u) = v
    <2>1. \A k \in 1 .. Len(u) : SubSeq(u[k], 4, Len(u[k])) = v[k]
        <3> SUFFICES ASSUME NEW k \in 1 .. Len(u) PROVE SubSeq(u[k], 4, Len(u[k])) = v[k]
            OBVIOUS
        <3>1. u[k] \in Seq(Char)
            BY <1>8
        <3>2. g[u[k]] = SubSeq(u[k], 4, Len(u[k]))
            BY <1>4, <3>1
        <3> QED
            BY <1>8, <3>2 DEF Alike
    <2>2. DOMAIN u = 1 .. Len(v) /\ v = [k \in 1 .. Len(v) |-> v[k]] /\ Len(u) = Len(v)
        BY <1>8 DEF Alike
    <2> QED
        BY <2>1, <2>2 DEF Slices
<1> QED
    BY <1>3, <1>6, <1>7, <1>8, <1>9 DEF FilesWith

\* The same of all the lines.
LEMMA LinesChosen ==
    ASSUME FilesOK, NEW lines, lines = Trimmed(Printed), NEW W, NEW codes,
           \A i \in 1 .. Len(Rest) : RestLines[i] \in W <=> files[Rest[i]] \in codes
    PROVE  Slices(Among(lines, W)) =
               (IF Misread /\ FirstLine \in W THEN <<Tail(Listed[1])>> ELSE <<>>)
                   \o FilesWith(Rest, codes)
<1>1. PICK u : u = Among(RestLines, W)
    OBVIOUS
<1>2. PICK v : v = FilesWith(Rest, codes)
    OBVIOUS
<1>3. u \in Seq(Seq(Char)) /\ v \in Seq(PathSet) /\ Slices(u) = v
    BY <1>1, <1>2, RestChosen
<1>4. <<>> \o v = v /\ <<>> \o u = u
    BY <1>3, ConcatEmptySeq
<1>5. CASE ~Misread
    <2>1. lines = RestLines
        BY <1>5, LinesRead
    <2> QED
        BY <1>1, <1>2, <1>3, <1>4, <1>5, <2>1
<1>6. CASE Misread
    <2>1. /\ lines = Cons(FirstLine, RestLines) /\ FirstLine \in Seq(Char)
          /\ SubSeq(FirstLine, 4, Len(FirstLine)) = Tail(Listed[1])
          /\ RestLines \in Seq(Seq(Char))
        BY <1>6, LinesRead, RestOfLines
    <2>2. /\ FirstLine \in W => Among(lines, W) = Cons(FirstLine, u)
          /\ FirstLine \notin W => Among(lines, W) = u
        <3>1. PICK E : E = Seq(Char)
            OBVIOUS
        <3>2. PICK x \in E : x = FirstLine
            BY <2>1, <3>1
        <3>3. PICK r \in Seq(E) : r = RestLines
            BY <2>1, <3>1
        <3>4. x \in W => Among(Cons(x, r), W) = Cons(x, Among(r, W))
            BY AmongOfFirst
        <3>5. x \notin W => Among(Cons(x, r), W) = Among(r, W)
            BY AmongOfFirst
        <3> QED
            BY <1>1, <2>1, <3>2, <3>3, <3>4, <3>5
    <2>3. CASE FirstLine \notin W
        BY <1>2, <1>3, <1>4, <1>6, <2>2, <2>3
    <2>4. CASE FirstLine \in W
        <3>1. PICK a : a = FirstLine
            OBVIOUS
        <3>2. PICK s : s = Tail(Listed[1])
            OBVIOUS
        <3>3. a \in Seq(Char) /\ SubSeq(a, 4, Len(a)) = s
            BY <2>1, <3>1, <3>2
        <3>4. PICK w : w = <<a>> \o u
            OBVIOUS
        <3>5. PICK n \in Nat : Len(u) = n /\ Len(v) = n /\ DOMAIN u = 1 .. n
            BY <1>3 DEF Slices
        <3>6. /\ DOMAIN w = 1 .. n + 1 /\ w[1] = a
              /\ \A i \in 2 .. n + 1 : w[i] = u[i - 1]
            BY <1>3, <3>3, <3>4, <3>5
        <3>7. PICK x : x = <<s>> \o v
            OBVIOUS
        <3>8. /\ x = [i \in 1 .. n + 1 |-> x[i]] /\ x[1] = s
              /\ \A i \in 2 .. n + 1 : x[i] = v[i - 1]
            <4>1. s \in {s} \cup PathSet /\ v \in Seq({s} \cup PathSet)
                BY <1>3
            <4>2. <<s>> \in Seq({s} \cup PathSet) /\ Len(<<s>>) = 1 /\ <<s>>[1] = s
                OBVIOUS
            <4>3. /\ x \in Seq({s} \cup PathSet) /\ Len(x) = n + 1
                  /\ \A i \in 1 .. n + 1 : x[i] = IF i <= 1 THEN <<s>>[i] ELSE v[i - 1]
                BY <3>5, <3>7, <4>1, <4>2, ConcatProperties
            <4> QED
                BY <4>2, <4>3
        <3>9. \A i \in 1 .. n : v[i] = SubSeq(u[i], 4, Len(u[i]))
            BY <1>3, <3>5 DEF Slices
        <3>10. \A i \in 1 .. n + 1 : x[i] = SubSeq(w[i], 4, Len(w[i]))
            <4> SUFFICES ASSUME NEW i \in 1 .. n + 1 PROVE x[i] = SubSeq(w[i], 4, Len(w[i]))
                OBVIOUS
            <4>1. CASE i = 1
                BY <3>3, <3>6, <3>8, <4>1
            <4>2. CASE i # 1
                <5>1. i \in 2 .. n + 1 /\ i - 1 \in 1 .. n
                    BY <4>2
                <5> QED
                    BY <3>6, <3>8, <3>9, <5>1
            <4> QED
                BY <4>1, <4>2
        <3>11. Slices(w) = x
            BY <3>6, <3>8, <3>10 DEF Slices
        <3> QED
            BY <1>2, <1>6, <2>2, <2>4, <3>1, <3>2, <3>4, <3>7, <3>11, Zenon DEF Cons
    <2> QED
        BY <2>3, <2>4
<1> QED
    BY <1>5, <1>6

\* Every line is read, the first as it is cut.
LEMMA LinesThere ==
    ASSUME FilesOK, NEW lines, lines = Trimmed(Printed)
    PROVE  /\ \A i \in 1 .. Len(Rest) : \E j \in DOMAIN lines : lines[j] = RestLines[i]
           /\ Misread => \E j \in DOMAIN lines : lines[j] = FirstLine
<1>1. PICK n \in Nat : Len(Rest) = n /\ Len(RestLines) = n /\ RestLines \in Seq(Seq(Char))
    BY RestOfLines
<1>2. CASE ~Misread
    <2>1. lines = RestLines
        BY <1>2, LinesRead
    <2>2. DOMAIN lines = 1 .. n
        BY <1>1, <2>1
    <2> QED
        BY <1>1, <1>2, <2>1, <2>2
<1>3. CASE Misread
    <2>1. lines = Cons(FirstLine, RestLines) /\ FirstLine \in Seq(Char)
        BY <1>3, LinesRead
    <2>2. /\ DOMAIN lines = 1 .. n + 1 /\ lines[1] = FirstLine
          /\ \A i \in 1 .. n : lines[i + 1] = RestLines[i]
        BY <1>1, <2>1 DEF Cons
    <2>3. 1 \in 1 .. n + 1 /\ \A i \in 1 .. n : i + 1 \in 1 .. n + 1
        OBVIOUS
    <2> QED
        BY <1>1, <2>2, <2>3
<1> QED
    BY <1>2, <1>3

\* The three lists are what git said, but for the first line that was cut.
LEMMA ListsRead ==
    ASSUME FilesOK, NEW lines, lines = Trimmed(Printed)
    PROVE  /\ PathsOf(lines, IsStaged) = (IF Misread THEN <<Tail(Listed[1])>> ELSE <<>>)
                                             \o FilesWith(Rest, StagedCodes)
           /\ PathsOf(lines, IsModified) = FilesWith(Rest, ModifiedCodes)
           /\ PathsOf(lines, IsUntracked) = FilesWith(Rest, {Untracked})
<1>1. PICK n \in Nat : Len(Rest) = n
    BY RestOfLines
<1>2. \A i \in 1 .. n : /\ files[Rest[i]] \in Codes
                        /\ RestLines[i][1] = files[Rest[i]][1]
                        /\ RestLines[i][2] = files[Rest[i]][2]
    BY <1>1, RestOfLines
<1>3. /\ \A i \in 1 .. n : \E j \in DOMAIN lines : lines[j] = RestLines[i]
      /\ Misread => \E j \in DOMAIN lines : lines[j] = FirstLine
    BY <1>1, LinesThere
<1>4. Misread => FirstLine[1] \notin {"?", Space} /\ FirstLine[2] = Space
    BY LinesRead
<1>5. Untracked[1] = "?" /\ Untracked[2] = "?"
    BY DEF Untracked
<1>6. FilesWith(Rest, {Untracked}) \in Seq(PathSet) /\ FilesWith(Rest, ModifiedCodes) \in Seq(PathSet)
    <2>1. PICK m \in Nat : Len(Rest) = m /\ Rest \in Seq(PathSet)
        BY RestOfLines
    <2>2. ASSUME NEW S PROVE Among(Rest, S) \in Seq(PathSet)
        <3>1. PICK f : Gathers(f, m, PathSet, Rest, S) /\ Among(Rest, S) = f[m]
            BY <2>1, AmongUnfolds
        <3> QED
            BY <3>1 DEF Gathers
    <2> QED
        BY <2>2 DEF FilesWith
<1>7. PathsOf(lines, IsStaged) = (IF Misread THEN <<Tail(Listed[1])>> ELSE <<>>)
                                             \o FilesWith(Rest, StagedCodes)
    <2> DEFINE wanted == {i \in DOMAIN lines : IsStaged(lines[i][1], lines[i][2])}
    <2>1. PICK W : W = {lines[i] : i \in wanted}
        OBVIOUS
    <2>2. PathsOf(lines, IsStaged) = Slices(Among(lines, W))
        BY <2>1 DEF PathsOf, Slices
    <2>3. \A j \in DOMAIN lines : lines[j] \in W <=> lines[j][1] \notin {"?", Space}
        BY <2>1 DEF IsStaged
    <2>4. \A i \in 1 .. n : RestLines[i] \in W <=> RestLines[i][1] \notin {"?", Space}
        BY <1>3, <2>3
    <2>5. Misread => FirstLine \in W
        BY <1>3, <1>4, <2>3
    <2>6. \A c \in Codes : c[1] \notin {"?", Space} <=> c \in StagedCodes
        BY <1>5, CodeAssumption DEF StagedCodes
    <2>7. \A i \in 1 .. Len(Rest) : RestLines[i] \in W <=> files[Rest[i]] \in StagedCodes
        BY <1>1, <1>2, <2>4, <2>6
    <2> QED
        BY <2>2, <2>5, <2>7, LinesChosen
<1>8. PathsOf(lines, IsModified) = FilesWith(Rest, ModifiedCodes)
    <2> DEFINE wanted == {i \in DOMAIN lines : IsModified(lines[i][1], lines[i][2])}
    <2>1. PICK W : W = {lines[i] : i \in wanted}
        OBVIOUS
    <2>2. PathsOf(lines, IsModified) = Slices(Among(lines, W))
        BY <2>1 DEF PathsOf, Slices
    <2>3. \A j \in DOMAIN lines : lines[j] \in W <=> lines[j][2] \in {"M", "D"}
        BY <2>1 DEF IsModified
    <2>4. \A i \in 1 .. n : RestLines[i] \in W <=> RestLines[i][2] \in {"M", "D"}
        BY <1>3, <2>3
    <2>5. Misread => FirstLine \notin W
        BY <1>3, <1>4, <2>3 DEF Space
    <2>6. \A i \in 1 .. Len(Rest) : RestLines[i] \in W <=> files[Rest[i]] \in ModifiedCodes
        BY <1>1, <1>2, <2>4 DEF ModifiedCodes
    <2>8. Slices(Among(lines, W)) = <<>> \o FilesWith(Rest, ModifiedCodes)
        BY <2>5, <2>6, LinesChosen
    <2> QED
        BY <1>6, <2>2, <2>8, ConcatEmptySeq
<1>9. PathsOf(lines, IsUntracked) = FilesWith(Rest, {Untracked})
    <2> DEFINE wanted == {i \in DOMAIN lines : IsUntracked(lines[i][1], lines[i][2])}
    <2>1. PICK W : W = {lines[i] : i \in wanted}
        OBVIOUS
    <2>2. PathsOf(lines, IsUntracked) = Slices(Among(lines, W))
        BY <2>1 DEF PathsOf, Slices
    <2>3. \A j \in DOMAIN lines : lines[j] \in W <=> lines[j][1] = "?" /\ lines[j][2] = "?"
        BY <2>1 DEF IsUntracked
    <2>4. \A i \in 1 .. n : RestLines[i] \in W <=> RestLines[i][1] = "?" /\ RestLines[i][2] = "?"
        BY <1>3, <2>3
    <2>5. Misread => FirstLine \notin W
        BY <1>3, <1>4, <2>3 DEF Space
    <2>6. \A c \in Codes : c[1] = "?" /\ c[2] = "?" <=> c \in {Untracked}
        BY <1>5, CodeAssumption
    <2>7. \A i \in 1 .. Len(Rest) : RestLines[i] \in W <=> files[Rest[i]] \in {Untracked}
        BY <1>1, <1>2, <2>4, <2>6
    <2>8. Slices(Among(lines, W)) = <<>> \o FilesWith(Rest, {Untracked})
        BY <2>5, <2>7, LinesChosen
    <2> QED
        BY <1>6, <2>2, <2>8, ConcatEmptySeq
<1> QED
    BY <1>7, <1>8, <1>9

\* gitStatus() says that something changed just when git listed something.
LEMMA SomethingListed ==
    ASSUME FilesOK, NEW lines, lines = Trimmed(Printed)
    PROVE  Listed # <<>> <=> \/ PathsOf(lines, IsStaged) # <<>>
                             \/ PathsOf(lines, IsModified) # <<>>
                             \/ PathsOf(lines, IsUntracked) # <<>>
<1>1. PICK L \in Seq(PathSet) : L = Listed
    BY ListedPaths
<1>2. /\ PathsOf(lines, IsStaged) = (IF Misread THEN <<Tail(Listed[1])>> ELSE <<>>)
                                        \o FilesWith(Rest, StagedCodes)
      /\ PathsOf(lines, IsModified) = FilesWith(Rest, ModifiedCodes)
      /\ PathsOf(lines, IsUntracked) = FilesWith(Rest, {Untracked})
    BY ListsRead
<1>3. CASE Listed = <<>>
    <2>1. ~Misread /\ Rest = <<>>
        BY <1>3 DEF Misread, Rest
    <2>2. ASSUME NEW codes PROVE FilesWith(<<>>, codes) = <<>>
        <3>1. <<>> \in Seq(PathSet) /\ Len(<<>>) = 0
            OBVIOUS
        <3>2. PICK e \in Seq(PathSet) : e = <<>>
            BY <3>1
        <3>3. PICK n \in Nat : n = 0 /\ Len(e) = n
            BY <3>1, <3>2
        <3>4. PICK S : FilesWith(e, codes) = Among(e, S)
            BY DEF FilesWith
        <3>5. PICK f : Gathers(f, n, PathSet, e, S) /\ Among(e, S) = f[n]
            BY <3>3, AmongUnfolds
        <3> QED
            BY <3>2, <3>3, <3>4, <3>5 DEF Gathers
    <2>3. <<>> \o <<>> = <<>>
        OBVIOUS
    <2> QED
        BY <1>2, <1>3, <2>1, <2>2, <2>3
<1>4. CASE Misread
    <2>1. PICK v \in Seq(PathSet) : v = FilesWith(Rest, StagedCodes)
        <3>1. PICK R \in Seq(PathSet) : R = Rest
            BY RestOfLines
        <3>2. PICK n \in Nat : Len(R) = n
            BY <3>1
        <3>3. PICK S : FilesWith(R, StagedCodes) = Among(R, S)
            BY DEF FilesWith
        <3>4. PICK f : Gathers(f, n, PathSet, R, S) /\ Among(R, S) = f[n]
            BY <3>2, AmongUnfolds
        <3>5. f[n] \in Seq(PathSet)
            BY <3>4 DEF Gathers
        <3> QED
            BY <3>1, <3>3, <3>4, <3>5
    <2>2. PICK s : s = Tail(Listed[1])
        OBVIOUS
    <2>3. <<s>> \o v # <<>>
        <3>1. v \in Seq({s} \cup PathSet) /\ <<s>> \in Seq({s} \cup PathSet) /\ <<s>> # <<>>
            OBVIOUS
        <3> QED
            BY <3>1, ConcatEqualIffEmpty
    <2> QED
        BY <1>2, <1>4, <2>1, <2>2, <2>3 DEF Misread
<1>5. CASE Listed # <<>> /\ ~Misread
    <2>1. Rest = L /\ L # <<>>
        BY <1>1, <1>5 DEF Rest
    <2>2. PICK p \in PathSet : p = L[1] /\ files[p] \in Codes
        BY <1>1, <2>1, ListedPaths
    <2>3. files[p][1] # Space
        BY <1>1, <1>5, <2>2 DEF Misread
    <2>4. Tail(L) \in Seq(PathSet) /\ L = Cons(p, Tail(L))
        <3>0. /\ Tail(L) \in Seq(PathSet) /\ Len(Tail(L)) = Len(L) - 1
              /\ \A i \in 1 .. Len(Tail(L)) : Tail(L)[i] = L[i + 1]
            BY <2>1, HeadTailProperties
        <3>1. PICK r \in Seq(PathSet) : r = Tail(L) /\ Len(r) = Len(L) - 1
                                        /\ \A i \in 1 .. Len(r) : r[i] = L[i + 1]
            BY <3>0
        <3>2. PICK x : x = Cons(p, r)
            OBVIOUS
        <3>3. /\ x \in Seq(PathSet) /\ Len(x) = Len(L) /\ x[1] = L[1]
              /\ \A i \in 1 .. Len(r) : x[i + 1] = L[i + 1]
            BY <2>2, <3>1, <3>2 DEF Cons
        <3>4. \A i \in 1 .. Len(L) : x[i] = L[i]
            <4> SUFFICES ASSUME NEW i \in 1 .. Len(L) PROVE x[i] = L[i]
                OBVIOUS
            <4>1. CASE i = 1
                BY <3>3, <4>1
            <4>2. CASE i # 1
                <5>1. i - 1 \in 1 .. Len(r) /\ (i - 1) + 1 = i
                    BY <3>1, <4>2
                <5> QED
                    BY <3>3, <5>1
            <4> QED
                BY <4>1, <4>2
        <3>5. L = x
            BY <3>3, <3>4, SeqEqual
        <3> QED
            BY <3>1, <3>2, <3>5
    <2>5. ASSUME NEW codes, files[p] \in codes PROVE FilesWith(L, codes) # <<>>
        <3>1. PICK S : S = {q \in PathSet : files[q] \in codes}
            OBVIOUS
        <3>2. p \in S
            BY <2>5, <3>1
        <3>3. PICK r \in Seq(PathSet) : r = Tail(L)
            BY <2>4
        <3>4. Among(Cons(p, r), S) = Cons(p, Among(r, S)) /\ Among(r, S) \in Seq(PathSet)
            BY <3>2, AmongOfFirst
        <3>5. PICK a \in Seq(PathSet) : a = Among(r, S)
            BY <3>4
        <3>6. Cons(p, a) # <<>>
            BY DEF Cons
        <3> QED
            BY <2>4, <3>1, <3>3, <3>4, <3>5, <3>6 DEF FilesWith
    <2>6. files[p] \in {Untracked} \/ files[p] \in StagedCodes
        BY <2>2, <2>3 DEF StagedCodes
    <2>7. PathsOf(lines, IsStaged) = FilesWith(L, StagedCodes)
        <3>1. PICK R \in Seq(PathSet) : R = Rest
            BY RestOfLines
        <3>2. PICK n \in Nat : Len(R) = n
            BY <3>1
        <3>3. PICK S : FilesWith(R, StagedCodes) = Among(R, S)
            BY DEF FilesWith
        <3>4. PICK f : Gathers(f, n, PathSet, R, S) /\ Among(R, S) = f[n]
            BY <3>2, AmongUnfolds
        <3>5. FilesWith(R, StagedCodes) \in Seq(PathSet)
            BY <3>3, <3>4 DEF Gathers
        <3> QED
            BY <1>2, <1>5, <2>1, <3>1, <3>5, ConcatEmptySeq
    <2> QED
        BY <1>2, <1>5, <2>1, <2>5, <2>6, <2>7
<1> QED
    BY <1>3, <1>4, <1>5 DEF Misread

-----------------------------------------------------------------------------
(* gitStatus().                                                            *)

\* What gitStatus() knows after each of its commands, and that the listing is
\* the last of them: while a status runs, nothing changed since it listed.
GitInv ==
    /\ FilesOK
    /\ result = [branch |-> result.branch, counts |-> result.counts, dirty |-> result.dirty,
                 staged |-> result.staged, modified |-> result.modified,
                 untracked |-> result.untracked]
    /\ stale => step = "returned"
    /\ step = "rev-parse" => result = NoStatus
    /\ step \in {"rev-list", "status"} /\ ~changed => head # None /\ result.branch = head
    /\ step = "status" /\ ~failed /\ ~changed /\ counts # None => result.counts = counts
    /\ StatusReadsGit

\* The three lists and the flag, as StatusReadsGit wants them.
Reads(r) ==
    /\ r.staged = (IF Misread THEN <<Tail(Listed[1])>> ELSE <<>>)
                      \o FilesWith(Rest, StagedCodes)
    /\ r.modified = FilesWith(Rest, ModifiedCodes)
    /\ r.untracked = FilesWith(Rest, {Untracked})
    /\ r.dirty <=> Listed # <<>>

LEMMA StatusIs ==
    StatusReadsGit <=>
        (step = "returned" /\ ~failed =>
            /\ ~changed => /\ result.branch = head
                           /\ head # None /\ counts # None => result.counts = counts
            /\ ~stale /\ result.branch # None => Reads(result))
    BY DEF StatusReadsGit, Reads, Rest, Misread

\* What is listed depends on the files alone.
LEMMA SameListed ==
    ASSUME files' = files
    PROVE  \A r : Reads(r)' <=> Reads(r)
<1>1. Listed' = Listed
    BY DEF Listed
<1>2. (Misread <=> Misread') /\ Rest' = Rest
    BY <1>1 DEF Misread, Rest
<1>3. \A s, codes : FilesWith(s, codes)' = FilesWith(s, codes)
    BY DEF FilesWith
<1> QED
    BY <1>1, <1>2, <1>3 DEF Reads

\* gitStatus() returns what git said, if no command failed.
THEOREM GitStatusReadsGit == GitSpec => []StatusReadsGit
<1>1. GitInit => GitInv
    BY DEF GitInit, GitInv, NoStatus, FilesOK, StatusReadsGit
<1>2. GitInv /\ [GitNext]_gitVars => GitInv'
    <2> SUFFICES ASSUME GitInv, [GitNext]_gitVars PROVE GitInv'
        OBVIOUS
    <2> DEFINE Shape == result = [branch |-> result.branch, counts |-> result.counts,
                                  dirty |-> result.dirty, staged |-> result.staged,
                                  modified |-> result.modified, untracked |-> result.untracked]
    <2>0. Shape
        BY DEF GitInv
    <2>1. CASE GitStatus
        <3>1. Shape'
            BY <2>1 DEF GitStatus, NoStatus
        <3> QED
            BY <2>1, <3>1 DEF GitStatus, GitInv, FilesOK, StatusReadsGit, repoVars
    <2>2. CASE BranchRead
        <3>1. Shape' /\ result'.branch = head
            BY <2>0, <2>2 DEF BranchRead
        <3> QED
            BY <2>2, <3>1 DEF BranchRead, GitInv, FilesOK, StatusReadsGit, repoVars
    <2>3. CASE BranchUnknown
        <3>1. Shape'
            BY <2>0, <2>3 DEF BranchUnknown
        <3>2. result'.branch = None
            BY <2>3 DEF BranchUnknown, GitInv, NoStatus
        <3>3. ~failed' => head' = None
            BY <2>3 DEF BranchUnknown, repoVars
        <3>4. StatusReadsGit'
            BY <3>2, <3>3 DEF StatusReadsGit
        <3> QED
            BY <2>3, <3>1, <3>4 DEF BranchUnknown, GitInv, FilesOK, repoVars
    <2>4. CASE CountsRead
        <3>1. /\ Shape' /\ result'.branch = result.branch
              /\ ~failed' /\ counts # None => result'.counts = counts
            BY <2>0, <2>4 DEF CountsRead
        <3> QED
            BY <2>4, <3>1 DEF CountsRead, GitInv, FilesOK, StatusReadsGit, repoVars
    <2>5. CASE FilesRead
        <3> DEFINE lines == Trimmed(Printed)
                   staged == PathsOf(lines, IsStaged)
                   modified == PathsOf(lines, IsModified)
                   untracked == PathsOf(lines, IsUntracked)
        <3>1. PICK S : S = staged
            OBVIOUS
        <3>2. PICK M : M = modified
            OBVIOUS
        <3>3. PICK U : U = untracked
            OBVIOUS
        <3>4. PICK D \in BOOLEAN : D <=> S # <<>> \/ M # <<>> \/ U # <<>>
            OBVIOUS
        <3>5. result' = [result EXCEPT !.staged = S, !.modified = M, !.untracked = U,
                                       !.dirty = D]
            BY <2>5, <3>1, <3>2, <3>3, <3>4 DEF FilesRead
        <3>6. /\ Shape' /\ result'.branch = result.branch /\ result'.counts = result.counts
              /\ result'.staged = S /\ result'.modified = M /\ result'.untracked = U
              /\ result'.dirty = D
            BY <2>0, <3>5
        <3>7. step = "status" /\ step' = "returned"
              /\ UNCHANGED <<head, counts, files, changed, stale, failed>>
            BY <2>5 DEF FilesRead, repoVars
        <3> HIDE DEF lines
        <3>8. /\ S = (IF Misread THEN <<Tail(Listed[1])>> ELSE <<>>)
                         \o FilesWith(Rest, StagedCodes)
              /\ M = FilesWith(Rest, ModifiedCodes)
              /\ U = FilesWith(Rest, {Untracked})
              /\ D <=> Listed # <<>>
            <4>1. FilesOK
                BY DEF GitInv
            <4>2. PICK l : l = lines
                OBVIOUS
            <4>3. l = Trimmed(Printed)
                BY <4>2 DEF lines
            <4>4. Listed # <<>> <=> \/ PathsOf(l, IsStaged) # <<>>
                                    \/ PathsOf(l, IsModified) # <<>>
                                    \/ PathsOf(l, IsUntracked) # <<>>
                BY <4>1, <4>3, SomethingListed
            <4> QED
                BY <3>1, <3>2, <3>3, <3>4, <4>1, <4>2, <4>3, <4>4, ListsRead
        <3>9. Reads(result')
            BY <3>6, <3>8 DEF Reads
        <3>10. Reads(result)'
            BY <3>7, <3>9, SameListed
        <3>11. StatusReadsGit'
            <4>1. ~failed /\ ~changed => /\ result.branch = head
                                         /\ counts # None => result.counts = counts
                BY <3>7 DEF GitInv
            <4>2. StatusReadsGit' <=>
                    (step' = "returned" /\ ~failed' =>
                        /\ ~changed' => /\ result'.branch = head'
                                        /\ head' # None /\ counts' # None => result'.counts = counts'
                        /\ ~stale' /\ result'.branch # None => Reads(result)')
                BY DEF StatusReadsGit, Reads, Rest, Misread
            <4> QED
                BY <3>6, <3>7, <3>10, <4>1, <4>2
        <3> QED
            BY <3>6, <3>7, <3>11 DEF GitInv, FilesOK
    <2>6. CASE FilesUnread
        BY <2>0, <2>6 DEF FilesUnread, GitInv, FilesOK, StatusReadsGit, repoVars
    <2>7. ASSUME files' \in [PathSet -> Codes], Ran PROVE GitInv'
        <3>1. Shape'
            BY <2>0, <2>7 DEF Ran
        <3> QED
            BY <2>7, <3>1 DEF Ran, GitInv, FilesOK, StatusReadsGit
    <2>8. CASE ChangesFiles
        BY <2>7, <2>8 DEF ChangesFiles
    <2>9. CASE GitCommit
        <3>1. files' \in [PathSet -> Codes]
            BY <2>9, CodeAssumption DEF GitCommit, GitInv, FilesOK
        <3> QED
            BY <2>7, <2>9, <3>1 DEF GitCommit
    <2>10. CASE GitPush
        BY <2>7, <2>10 DEF GitPush, GitInv, FilesOK
    <2>11. CASE ChangesToUpstream
        BY <2>7, <2>11 DEF ChangesToUpstream
    <2>12. CASE ChangesBranch
        BY <2>7, <2>12 DEF ChangesBranch, GitInv, FilesOK
    <2>13. CASE UNCHANGED gitVars
        <3>1. /\ UNCHANGED <<step, result, changed, stale, failed>>
              /\ UNCHANGED <<head, counts, files>>
            BY <2>13 DEF gitVars, repoVars, statusVars
        <3>2. StatusReadsGit'
            <4>1. Reads(result)' <=> Reads(result)
                BY <3>1, SameListed
            <4>2. StatusReadsGit' <=>
                    (step' = "returned" /\ ~failed' =>
                        /\ ~changed' => /\ result'.branch = head'
                                        /\ head' # None /\ counts' # None => result'.counts = counts'
                        /\ ~stale' /\ result'.branch # None => Reads(result)')
                BY DEF StatusReadsGit, Reads, Rest, Misread
            <4>3. StatusReadsGit
                BY DEF GitInv
            <4> QED
                BY <3>1, <4>1, <4>2, <4>3, StatusIs
        <3> QED
            BY <3>1, <3>2 DEF GitInv, FilesOK
    <2> QED
        BY <2>1, <2>2, <2>3, <2>4, <2>5, <2>6, <2>8, <2>9, <2>10, <2>11, <2>12, <2>13 DEF GitNext
<1>3. GitInv => StatusReadsGit
    BY DEF GitInv
<1> QED
    BY <1>1, <1>2, <1>3, PTL DEF GitSpec
===============================================================================
