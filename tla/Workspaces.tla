----------------------------- MODULE Workspaces -----------------------------
(***************************************************************************)
(* The isolated Git workspaces of agents that write, and the acceptance of *)
(* their changes (collaboration/workspaces.py, the change routes of        *)
(* api/collaboration.py).  A file has parts; a commit and a working copy   *)
(* are what they hold in each part.  A patch has a hunk for each part it   *)
(* changes, with what was there and what will be (a binary file is one     *)
(* part), and a digest is the patches it was computed from, by writer.     *)
(* The agents' tools write their workspaces and people edit the source     *)
(* project without the manager's lock.  Git is external.                   *)
(***************************************************************************)
EXTENDS Integers, FiniteSets, FiniteSetsExt, Functions

CONSTANTS Writers,       \* jobs with a workspace
          Members,       \* those of them that belong to the team
          Parts,         \* parts of files
          FileOf,        \* [Parts -> files]
          AcceptCalls,   \* requests to accept
          MaxFileEdits   \* bound on the edits of files and commits, for TLC

ASSUME WorkspaceSets == Members \subseteq Writers

VARIABLES source,    \* the source project: [commit, head, copy]
          wspace,    \* [Writers -> [has, base, commit, copy]]
          done,      \* writers whose job is "completed"
          seen,      \* digests that were shown to the user
          accepting, \* [AcceptCalls -> [at, digest, patch, read]]
          recorded,  \* digests recorded as accepted
          edits

workspaceVars == <<source, wspace, done, seen, accepting, recorded, edits>>

Contents == 0..1
Blank == [p \in Parts |-> 0]
Artifacts == {"directory", "repo", "branch", "manifest"}
NoWorkspace == [has |-> {}, base |-> Blank, commit |-> 0, copy |-> Blank]
NoAccept == [at |-> "none", digest |-> <<>>, patch |-> <<>>, read |-> <<>>]

\* The manager's lock is free.
Holding == {"captured", "checked", "read"}
Unheld == \A q \in AcceptCalls : accepting[q].at \notin Holding

----------------------------------------------------------------------------
(* GitWorkspaceManager *)

clean == source.copy = source.head

\* _create: a workspace is made in three steps, or is found complete; made
\* is where the process or Git fails (Artifacts: nowhere).  A failure of
\* "worktree add" removes the directory; a crash leaves what there is.
create_workspace(w, made) ==
  /\ Unheld /\ w \notin done /\ wspace[w].has = {} /\ clean
  /\ made \in {{}, {"directory"}, Artifacts \ {"manifest"}, Artifacts}
  /\ wspace' = [wspace EXCEPT ![w] = [has |-> made, base |-> source.head, commit |-> source.commit,
                                      copy |-> source.head]]
  /\ UNCHANGED <<source, done, seen, accepting, recorded, edits>>

\* _validate: the manifest and the worktree it describes are there.
validate(w) == wspace[w].has = Artifacts

\* _diff: what the worktree holds against its base.  Where the code refuses a
\* diff (links, protected files, sizes) the actions below are not taken.
Patch(w) == [p \in {r \in Parts : wspace[w].copy[r] # wspace[w].base[r]} |->
               [old |-> wspace[w].base[p], new |-> wspace[w].copy[p]]]
FilesIn(patch) == {FileOf[p] : p \in DOMAIN patch}

\* _diff_batch: the same base, and no file in two of the patches.
BatchDiffable(ws) ==
  /\ ws # {} /\ \A w \in ws : validate(w)
  /\ \A v, w \in ws : wspace[v].commit = wspace[w].commit
  /\ \A v, w \in ws : v # w => FilesIn(Patch(v)) \cap FilesIn(Patch(w)) = {}

Digest(ws) == [w \in ws |-> Patch(w)]
Combined(digest) ==
  [p \in UNION {DOMAIN digest[w] : w \in DOMAIN digest} |->
     digest[CHOOSE w \in DOMAIN digest : p \in DOMAIN digest[w]][p]]

\* _accept_source_ready
SourceReady(ws) == clean /\ \A w \in ws : wspace[w].commit = source.commit

\* "git apply" looks at the hunks only: the parts they change are as they were
\* when the work began.  It then writes each file of the patch anew, from what
\* it read: fs are those it has written.
Applies(patch) == \A p \in DOMAIN patch : source.copy[p] = patch[p].old
Applied(q, fs) ==
  [p \in Parts |-> IF FileOf[p] \notin fs THEN source.copy[p]
                   ELSE IF p \in DOMAIN accepting[q].patch THEN accepting[q].patch[p].new
                   ELSE accepting[q].read[p]]

\* _discard: validated, then removed in this order; left is what a crash
\* leaves of it ({}: none).
discard(w, left) ==
  /\ Unheld /\ validate(w)
  /\ left \in {{}, {"directory"}, {"directory", "manifest"}, {"directory", "manifest", "branch"}}
  /\ wspace' = [wspace EXCEPT ![w].has = left]
  /\ UNCHANGED <<source, done, seen, accepting, recorded, edits>>

----------------------------------------------------------------------------
(* The routes *)

\* What may be looked at and accepted as a whole.
TeamReview == IF Members \subseteq done THEN {w \in Members : wspace[w].has # {}} ELSE {}
Reviews == {{w} : w \in done} \cup ({TeamReview} \ {{}})
Acceptable(ws) == \/ \E w \in done \ Members : ws = {w}
                  \/ ws # {} /\ ws = TeamReview

changes(ws) ==
  /\ Unheld /\ ws \in Reviews /\ BatchDiffable(ws)
  /\ seen' = seen \cup {Digest(ws)}
  /\ UNCHANGED <<source, wspace, done, accepting, recorded, edits>>

\* accept: a digest already recorded is answered at once; else, under the
\* lock, the diff is taken again and compared, and the source checked; of an
\* empty patch that is all ...
accept(q, digest) ==
  /\ accepting[q].at = "none" /\ digest \in seen \ recorded
  /\ LET ws == DOMAIN digest IN
     Unheld /\ Acceptable(ws) /\ BatchDiffable(ws) /\ Digest(ws) = digest /\ SourceReady(ws)
  /\ accepting' = [accepting EXCEPT ![q] =
       [at |-> IF DOMAIN Combined(digest) = {} THEN "applied" ELSE "captured",
        digest |-> digest, patch |-> Combined(digest), read |-> <<>>]]
  /\ UNCHANGED <<source, wspace, done, seen, recorded, edits>>

\* ... "git apply --check", the source checked again ...
accept_check(q) ==
  /\ accepting[q].at = "captured"
  /\ accepting' = [accepting EXCEPT ![q] =
       IF Applies(@.patch) /\ SourceReady(DOMAIN @.digest) THEN [@ EXCEPT !.at = "checked"] ELSE NoAccept]
  /\ UNCHANGED <<source, wspace, done, seen, recorded, edits>>

\* ... and "git apply": the hunks are matched with the files as they are now,
\* all of them or the patch is refused ...
accept_read(q) ==
  /\ accepting[q].at = "checked"
  /\ accepting' = [accepting EXCEPT ![q] =
       IF Applies(@.patch) THEN [@ EXCEPT !.at = "read", !.read = source.copy] ELSE NoAccept]
  /\ UNCHANGED <<source, wspace, done, seen, recorded, edits>>

\* Mutant: the workspaces are compared again when the patch is applied, and
\* what they hold by then is written.
ApplyCurrent(q, fs) ==
  /\ accepting[q].at = "read" /\ fs = FilesIn(accepting[q].patch)
  /\ LET now == Combined(Digest(DOMAIN accepting[q].digest)) IN
     source' = [source EXCEPT !.copy = [p \in Parts |-> IF p \in DOMAIN now THEN now[p].new ELSE @[p]]]
  /\ accepting' = [accepting EXCEPT ![q].at = "applied"]
  /\ UNCHANGED <<wspace, done, seen, recorded, edits>>

\* ... and the files written one by one: git may be killed at its timeout, or
\* fail, when only fs have been.
accept_write(q, fs) ==
  /\ accepting[q].at = "read" /\ fs \subseteq FilesIn(accepting[q].patch)
  /\ source' = [source EXCEPT !.copy = Applied(q, fs)]
  /\ accepting' = [accepting EXCEPT ![q] =
       IF fs = FilesIn(@.patch) THEN [@ EXCEPT !.at = "applied"] ELSE NoAccept]
  /\ UNCHANGED <<wspace, done, seen, recorded, edits>>

\* The row is written after it, or not: a conflict, a failure of the database.
accept_record(q, written) ==
  /\ accepting[q].at = "applied"
  /\ recorded' = IF written THEN recorded \cup {accepting[q].digest} ELSE recorded
  /\ accepting' = [accepting EXCEPT ![q] = NoAccept]
  /\ UNCHANGED <<source, wspace, done, seen, edits>>

----------------------------------------------------------------------------
(* The agents, the people and the process *)

\* The job ends "completed".
job_completes(w) ==
  /\ w \notin done /\ validate(w) /\ done' = done \cup {w}
  /\ UNCHANGED <<source, wspace, seen, accepting, recorded, edits>>

edit_workspace(w, p) ==
  /\ "repo" \in wspace[w].has /\ edits < MaxFileEdits /\ edits' = edits + 1
  /\ wspace' = [wspace EXCEPT ![w].copy[p] = 1 - @]
  /\ UNCHANGED <<source, done, seen, accepting, recorded>>

edit_source(p) ==
  /\ edits < MaxFileEdits /\ edits' = edits + 1
  /\ source' = [source EXCEPT !.copy[p] = 1 - @]
  /\ UNCHANGED <<wspace, done, seen, accepting, recorded>>

commit_source ==
  /\ ~clean /\ edits < MaxFileEdits /\ edits' = edits + 1
  /\ source' = [source EXCEPT !.commit = @ + 1, !.head = source.copy]
  /\ UNCHANGED <<wspace, done, seen, accepting, recorded>>

\* The process ends while requests are served.
crash ==
  /\ \E q \in AcceptCalls : accepting[q] # NoAccept
  /\ accepting' = [q \in AcceptCalls |-> NoAccept]
  /\ UNCHANGED <<source, wspace, done, seen, recorded, edits>>

----------------------------------------------------------------------------
WorkspacesInit ==
  /\ source = [commit |-> 0, head |-> Blank, copy |-> Blank]
  /\ wspace = [w \in Writers |-> NoWorkspace]
  /\ done = {} /\ seen = {} /\ recorded = {} /\ edits = 0
  /\ accepting = [q \in AcceptCalls |-> NoAccept]

WorkspacesNext ==
  \/ \E w \in Writers, has \in SUBSET Artifacts : create_workspace(w, has) \/ discard(w, has)
  \/ \E w \in Writers : job_completes(w) \/ \E p \in Parts : edit_workspace(w, p)
  \/ \E p \in Parts : edit_source(p)
  \/ commit_source \/ crash
  \/ \E ws \in Reviews : changes(ws)
  \/ \E q \in AcceptCalls :
       \/ \E digest \in seen : accept(q, digest)
       \/ accept_check(q) \/ accept_read(q) \/ \E fs \in SUBSET FilesIn(accepting[q].patch) : accept_write(q, fs)
       \/ \E written \in BOOLEAN : accept_record(q, written)

WorkspacesSpec == WorkspacesInit /\ [][WorkspacesNext]_workspaceVars

----------------------------------------------------------------------------
(* Properties *)

WorkspacesTypeOK ==
  /\ \A w \in Writers : wspace[w].has \subseteq Artifacts /\ wspace[w].commit <= source.commit
  /\ recorded \subseteq seen
  /\ Cardinality({q \in AcceptCalls : accepting[q].at \in Holding}) <= 1

Hunks(digest, p) == {digest[w][p] : w \in {v \in DOMAIN digest : p \in DOMAIN digest[v]}}

\* Acceptance writes a diff that was shown to the user, whatever the agents
\* write meanwhile: once it is applied all of its hunks are there, and what a
\* step of it changes, whole or cut short, goes from what was there when the
\* agents began to what the user saw.  What people write elsewhere is kept, in
\* the files of the patch too.  The exception is what they write while git
\* apply is between reading a file and writing it: that is lost, as accept's
\* docstring warns ("callers must coordinate source writes during the final
\* check/apply interval"; GitWorkspaceManager._accept, _accept_batch).
AcceptedAsReviewed ==
  [][\A q \in AcceptCalls :
       accepting[q].at = "read" /\ accepting'[q].at # "read" =>
         \E digest \in seen : \A p \in Parts :
           /\ accepting'[q].at = "applied" => \A hunk \in Hunks(digest, p) : source'.copy[p] = hunk.new
           /\ source'.copy[p] # source.copy[p] =>
                \/ \E hunk \in Hunks(digest, p) : source.copy[p] = hunk.old /\ source'.copy[p] = hunk.new
                \/ /\ source.copy[p] # accepting[q].read[p]
                   /\ \E w \in DOMAIN digest : FileOf[p] \in FilesIn(digest[w])]_workspaceVars

=============================================================================
