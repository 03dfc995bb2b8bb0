------------------------------- MODULE Browse -------------------------------
(***************************************************************************)
(* A human looks at a run's worktree through the hub while an agent still  *)
(* works in it: the request (edge/src/ws-client.ts, worktree-list-request, *)
(* worktree-read-request), the run's root (stage-runner.ts, browseRoot),   *)
(* and the answer (worktree-browse.ts, fs-roots.ts).                       *)
(*                                                                         *)
(* The worktrees directory is reached through a link, as a temporary       *)
(* directory is on macOS, and the worktree has links in it: to a directory *)
(* of its own, to another run's, to nothing.  Between two system calls of  *)
(* an answer the agent may create, change and delete files.  One request   *)
(* is answered at a time.                                                  *)
(***************************************************************************)
EXTENDS Integers, Sequences, SequencesExt

CONSTANTS
  Asked,        \* the paths asked for, sequences over names and ".."
  MaxEdits      \* bound: what the agent does

BrowseAssumption == MaxEdits \in Nat /\ Asked \subseteq Seq(STRING)

VARIABLES
  conf,         \* nested: the run has a directory with its worktrees in it; held: this node
                \* holds the run
  files,        \* by name: what the agent has made of its files
  edits,
  request,      \* the request that is being answered
  phase,        \* how far the answer is
  found,        \* what its first look found
  reply,
  quiet         \* history: the agent has changed nothing since that first look

vars == <<conf, files, edits, request, phase, found, reply, quiet>>

\* Where the run is, as the node spells it and really; the worktree in it.
RunDir == <<"worktrees", "run">>
RealRun == <<"disk", "run">>
Worktree == IF conf.nested THEN RunDir \o <<"repo">> ELSE RunDir
RealTree == IF conf.nested THEN RealRun \o <<"repo">> ELSE RealRun
Other == <<"disk", "other">>        \* another run's directory
Excluded == {".git", ".dahrk"}
Ignored == {"node_modules"}          \* by the worktree's .gitignore

\* The file system: real paths, sequences of names.
Mutable == {"note", "code"}
Contents == {"absent", "small", "large", "binary"}
At(file) == RealTree \o (IF file = "note" THEN <<"note">> ELSE <<"src", "code">>)
Files == {At(f) : f \in {f \in Mutable : files[f] # "absent"}} \cup {Append(Other, "secret")}
Content(p) == IF \E f \in Mutable : At(f) = p THEN files[CHOOSE f \in Mutable : At(f) = p] ELSE "small"
Dirs == {<<"disk">>, RealRun, RealTree, Append(RealRun, ".dahrk"), Other}
          \cup {Append(RealTree, name) : name \in {"src", ".git", "node_modules"}}
Links == {Append(RealTree, name) : name \in {"in", "out", "broken"}}
Target(link) ==
  CASE Last(link) = "in" -> Append(RealTree, "src")
    [] Last(link) = "out" -> Other
    [] Last(link) = "broken" -> Append(RealTree, "gone")
Places == Files \cup Dirs \cup Links

NoRequest == [read |-> FALSE, absolute |-> FALSE, path |-> <<>>]
NoReply == [reason |-> "none", at |-> <<>>, entries |-> {}]
Reasons == {"none", "ok", "not-found", "not-a-directory", "not-a-file", "too-large", "binary"}

TypeOK ==
  /\ conf \in [nested : BOOLEAN, held : BOOLEAN]
  /\ files \in [Mutable -> Contents]
  /\ edits \in 0..MaxEdits
  /\ request \in [read : BOOLEAN, absolute : BOOLEAN, path : Asked \cup {<<>>}]
  /\ phase \in {"idle", "asked", "looked", "answered"}
  /\ reply.reason \in Reasons /\ (reply.reason = "none" <=> phase # "answered")
  /\ quiet \in BOOLEAN

Init ==
  /\ conf \in [nested : BOOLEAN, held : BOOLEAN]
  /\ files \in [Mutable -> {"absent", "small"}] /\ edits = 0
  /\ request = NoRequest /\ phase = "idle" /\ found = NoReply /\ reply = NoReply /\ quiet = TRUE

-----------------------------------------------------------------------------
(***************************************************************************)
(* Paths.                                                                  *)
(***************************************************************************)

\* Definitions named <Definition>_<Mistake> are mutants: plausible mistakes in
\* the code, in no action of the model, that the properties are tried against.

\* realpath: the link to the worktrees first, then at most one more.
Real(p) ==
  LET q == IF IsPrefix(<<"worktrees">>, p) THEN <<"disk">> \o Tail(p) ELSE p
      link == {n \in 1..Len(q) : SubSeq(q, 1, n) \in Links}
  IN IF link = {} THEN q
     ELSE LET n == CHOOSE n \in link : TRUE IN Target(SubSeq(q, 1, n)) \o SubSeq(q, n + 1, Len(q))

Exists(p) == Real(p) \in Places

\* realish: the deepest ancestor that exists is resolved, what is below it stays as spelt.
Realish(p) ==
  LET known == {n \in 1..Len(p) : Exists(SubSeq(p, 1, n))} IN
  IF known = {} THEN p
  ELSE LET n == CHOOSE k \in known : \A j \in known : j <= k
       IN Real(SubSeq(p, 1, n)) \o SubSeq(p, n + 1, Len(p))

\* isUnder: the root itself is.
Under(root, p) == IsPrefix(root, p)

Root_Parent == Front(Worktree)

\* browseRoot: the run's directory, by name, not the parent of the worktree.
Root == IF Under(RunDir, Worktree) THEN RunDir ELSE Worktree

\* path.resolve, which knows no links.
Resolved(path) ==
  LET after[n \in 0..Len(path)] ==
        IF n = 0 THEN Root
        ELSE LET at == after[n - 1] IN
             IF path[n] # ".." THEN Append(at, path[n]) ELSE IF at = <<>> THEN at ELSE Front(at)
  IN after[Len(path)]

Confined_BySpelling(p) == Under(Root, p)
Confined_RootAsSpelt(p) == Under(Root, Realish(p))

\* resolveBrowsePath: compared after resolution of both.
Confined(p) == Under(Realish(Root), Realish(p))

-----------------------------------------------------------------------------
(***************************************************************************)
(* Answers.                                                                *)
(***************************************************************************)

Refusal(reason) == [NoReply EXCEPT !.reason = reason]
Kind(p) ==
  CASE Real(p) \in Dirs -> "dir"
    [] Real(p) \in Files -> "file"
    [] OTHER -> "nothing"

Names(p) ==
  LET at == Real(p) IN {Last(q) : q \in {q \in Places : Len(q) = Len(at) + 1 /\ Front(q) = at}}

\* ignoredPaths, asked of the worktree that owns the path: the run's directory has none.
Hidden(p) == IF Under(Worktree, p) THEN Ignored ELSE {}

Shown_AnyLink(p, name) == Exists(Append(p, name))

\* A link is what it points at, where that is in the run; one to nothing is left out.
Shown(p, name) ==
  LET target == Append(p, name)
      entry == Append(Real(p), name)
  IN /\ entry \in Places
     /\ entry \in Links => Confined(target)
     /\ Exists(target)

\* listDirectory up to the readdir, and from there.
Opened(p) ==
  CASE Kind(p) = "dir" -> [reason |-> "ok", at |-> p,
                           entries |-> Names(p) \ (Excluded \cup Hidden(p))]
    [] Kind(p) = "file" -> Refusal("not-a-directory")
    [] Kind(p) = "nothing" -> Refusal("not-found")

Listed(look) ==
  [reason |-> "ok", at |-> look.at,
   entries |-> {[name |-> name, kind |-> Kind(Append(look.at, name))] :
                 name \in {name \in look.entries : Shown(look.at, name)}}]

\* readFile up to the stat, and from there.
Checked(p) ==
  CASE Kind(p) = "nothing" -> Refusal("not-found")
    [] Kind(p) = "dir" -> Refusal("not-a-file")
    [] Kind(p) = "file" -> IF Content(Real(p)) = "large" THEN Refusal("too-large")
                           ELSE [NoReply EXCEPT !.reason = "ok", !.at = p]

Text(look) ==
  IF Kind(look.at) # "file" THEN Refusal("not-found")
  ELSE IF Content(Real(look.at)) = "binary" THEN Refusal("binary") ELSE look

Answer(a) == reply' = a /\ phase' = "answered" /\ UNCHANGED found

Ask(read, absolute, path) ==
  /\ phase \in {"idle", "answered"}
  /\ request' = [read |-> read, absolute |-> absolute, path |-> path]
  /\ phase' = "asked" /\ reply' = NoReply /\ found' = NoReply /\ quiet' = TRUE
  /\ UNCHANGED <<conf, files, edits>>

\* BROWSE_NOT_HELD.
Unheld == phase = "asked" /\ ~conf.held /\ Answer(Refusal("not-found"))

Refuse ==
  /\ phase = "asked" /\ conf.held
  /\ request.absolute \/ ~Confined(Resolved(request.path))
  /\ Answer(Refusal("not-found"))

\* The first look: readdir, or stat.
Look ==
  /\ phase = "asked" /\ conf.held
  /\ ~request.absolute /\ Confined(Resolved(request.path))
  /\ LET p == Resolved(request.path)
         first == IF request.read THEN Checked(p) ELSE Opened(p)
     IN IF first.reason # "ok" THEN Answer(first)
        ELSE found' = first /\ phase' = "looked" /\ UNCHANGED reply

Conclude ==
  /\ phase = "looked"
  /\ Answer(IF request.read THEN Text(found) ELSE Listed(found))

Answers == (Unheld \/ Refuse \/ Look \/ Conclude) /\ UNCHANGED <<conf, files, edits, request, quiet>>

\* The agent writes a file, or deletes one.
Edit(file, content) ==
  /\ edits < MaxEdits /\ edits' = edits + 1 /\ quiet' = FALSE
  /\ files' = [files EXCEPT ![file] = content]
  /\ UNCHANGED <<conf, request, phase, found, reply>>

Next ==
  \/ \E read, absolute \in BOOLEAN, path \in Asked : Ask(read, absolute, path)
  \/ Answers
  \/ \E file \in Mutable, content \in Contents : Edit(file, content)

Spec == Init /\ [][Next]_vars

-----------------------------------------------------------------------------
(***************************************************************************)
(* Properties.                                                             *)
(***************************************************************************)

Served == phase = "answered" /\ reply.reason = "ok"

\* What is served is in the run's directory, every entry of a listing too, by whatever links
\* the request or the entry leads (worktree-browse.ts:43-47, stage-runner.ts:753-755).
StaysInTheRun ==
  Served =>
    /\ Under(RealRun, Real(reply.at))
    /\ \A e \in reply.entries : Exists(Append(reply.at, e.name)) =>
         Under(RealRun, Real(Append(reply.at, e.name)))

\* A listing advertises nothing that a request for it is then refused: in a tree at rest,
\* every directory listed can be listed, every file read, or is too large or binary
\* (worktree-browse.ts:117-119).
ListedIsServed ==
  Served /\ ~request.read /\ quiet =>
    \A e \in reply.entries :
      LET p == Append(reply.at, e.name) IN
      /\ Confined(p)
      /\ IF e.kind = "dir" THEN Opened(p).reason = "ok"
         ELSE Checked(p).reason \in {"ok", "too-large"}

\* A held run's file or directory is never refused as if it were not there
\* (worktree-browse.ts:44-46).
RefusalIsTrue ==
  phase = "answered" /\ reply.reason = "not-found" /\ conf.held /\ ~request.absolute /\ quiet =>
    LET p == Resolved(request.path) IN ~(Exists(p) /\ Under(RealRun, Real(p)))
=============================================================================
