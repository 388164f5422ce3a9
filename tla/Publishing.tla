------------------------------ MODULE Publishing ------------------------------
(***************************************************************************)
(* Publishing one project: PublishingService over the project's git        *)
(* repository, its saved metadata and GitHub, started from the editor      *)
(* bridge (one flag keeps a second run away) or from the command line.     *)
(* A run is at one await at a time; the step that ends the await is the    *)
(* action.  Any await may fail and any process may stop.                   *)
(***************************************************************************)
EXTENDS Naturals

CONSTANTS Publications,    \* runs that may be under way
          Callers,         \* who starts them: "bridge", "command"
          MaxRepositories, \* names createUniqueRepository may try
          MaxCommits,      \* bound: commits of the project
          NoRepository

VARIABLES saved,      \* the project's metadata file: [repo, status, commit]
          origin,     \* the repository git's origin names
          head,       \* the commit HEAD names, 0 before the first
          edited,     \* files differ from HEAD
          onGitHub,   \* repositories that exist, with what GitHub holds of each
          publishing, \* the bridge's flag for this project
          publication  \* each publication: where it is and what it remembers

publishingVars == <<saved, origin, head, edited, onGitHub, publishing, publication>>

Repositories == 1..MaxRepositories
NoMetadata == [repo |-> NoRepository, status |-> "none", commit |-> 0]
Absent == [exists |-> FALSE, pushed |-> 0, pages |-> FALSE, build |-> 0, state |-> "none", served |-> 0, earlier |-> FALSE]
IdlePublication == [at |-> "idle", by |-> "bridge", metadata |-> NoMetadata, origin |-> NoRepository,
                    repo |-> NoRepository, commit |-> 0]

ASSUME PublishingAssumption ==
  /\ Callers \subseteq {"bridge", "command"} /\ NoRepository \notin Repositories
  /\ MaxRepositories \in Nat \ {0} /\ MaxCommits \in Nat \ {0}

DeploymentStatuses == {"none", "preparing", "deploying", "published", "failed"}
Metadata == [repo : Repositories \cup {NoRepository}, status : DeploymentStatuses, commit : 0..MaxCommits]

GitHub == [exists : BOOLEAN, pages : BOOLEAN, earlier : BOOLEAN, state : {"none", "building", "built", "errored"},
           pushed : 0..MaxCommits, build : 0..MaxCommits, served : 0..MaxCommits]
Publication ==
  [at : {"idle", "body", "reading", "connected", "prepared", "naming", "chosen", "saved", "committed", "origin", "pushed",
         "configuring", "polling", "built", "removed"},
   by : {"bridge", "command"}, metadata : Metadata, origin : Repositories \cup {NoRepository},
   repo : Repositories \cup {NoRepository}, commit : 0..MaxCommits]

PublishingTypeOK ==
  /\ saved \in Metadata /\ origin \in Repositories \cup {NoRepository}
  /\ head \in 0..MaxCommits /\ edited \in BOOLEAN /\ publishing \in BOOLEAN
  /\ onGitHub \in [Repositories -> GitHub]
  /\ publication \in [Publications -> Publication]

\* A project with no repository yet, or one whose student already works with GitHub and
\* may have a site there, whose status comes without a commit.
PublishingInit ==
  /\ saved = NoMetadata /\ head = 0 /\ edited = TRUE /\ publishing = FALSE
  /\ origin \in {NoRepository, 1}
  /\ \E site \in {FALSE, origin = 1} :
       onGitHub = [r \in Repositories |-> [Absent EXCEPT !.exists = (r = origin), !.pages = site /\ r = origin,
                     !.earlier = site /\ r = origin, !.state = IF site /\ r = origin THEN "built" ELSE @]]
  /\ publication = [p \in Publications |-> IdlePublication]

Goto(p, at) == publication' = [publication EXCEPT ![p].at = at]
KeepsProject == UNCHANGED <<saved, origin, head, edited, onGitHub>>

(***************************************************************************)
(* The bridge's POST /publish: the flag is read, then the body is awaited, *)
(* then the flag is set.                                                   *)
(***************************************************************************)
AskBridge(p) ==
  /\ publication[p].at = "idle" /\ "bridge" \in Callers /\ ~publishing
  /\ Goto(p, "body") /\ UNCHANGED publishing /\ KeepsProject

Accept(p) == publication[p].at = "body" /\ publishing' = TRUE /\ Goto(p, "reading") /\ KeepsProject

\* `pi-student publish`, another process, which does not know the flag.
AskCommandLine(p) ==
  /\ publication[p].at = "idle" /\ "command" \in Callers
  /\ publication' = [publication EXCEPT ![p].at = "reading", ![p].by = "command"]
  /\ UNCHANGED publishing /\ KeepsProject

(***************************************************************************)
(* publish(): the saved metadata, the state of git, the repository.        *)
(***************************************************************************)
ReadMetadata(p) ==
  /\ publication[p].at = "reading"
  /\ publication' = [publication EXCEPT ![p].at = "connected", ![p].metadata = saved]
  /\ UNCHANGED publishing /\ KeepsProject

\* Project detection, git, the Pages workflow, the scan: files may be written.
Prepare(p) ==
  /\ publication[p].at = "connected"
  /\ publication' = [publication EXCEPT ![p].at = "prepared", ![p].origin = origin]
  /\ edited' \in {edited, TRUE}
  /\ UNCHANGED <<saved, origin, head, onGitHub, publishing>>

UseRepository(p) ==
  LET known == IF publication[p].origin # NoRepository THEN publication[p].origin ELSE publication[p].metadata.repo IN
  /\ publication[p].at = "prepared" /\ known # NoRepository
  /\ publication[p].metadata.repo \in {NoRepository, known}
  /\ onGitHub[known].exists
  /\ publication' = [publication EXCEPT ![p].at = "chosen", ![p].repo = known]
  /\ UNCHANGED publishing /\ KeepsProject

\* Consent given: the first name GitHub does not have yet.
ChooseName(p) ==
  /\ publication[p].at = "prepared" /\ publication[p].origin = NoRepository /\ publication[p].metadata.repo = NoRepository
  /\ \E r \in Repositories :
       /\ ~onGitHub[r].exists /\ \A lower \in 1..(r - 1) : onGitHub[lower].exists
       /\ publication' = [publication EXCEPT ![p].at = "naming", ![p].repo = r]
  /\ UNCHANGED publishing /\ KeepsProject

CreateRepository(p) ==
  /\ publication[p].at = "naming" /\ ~onGitHub[publication[p].repo].exists
  /\ onGitHub' = [onGitHub EXCEPT ![publication[p].repo].exists = TRUE]
  /\ Goto(p, "chosen")
  /\ UNCHANGED <<saved, origin, head, edited, publishing>>

(***************************************************************************)
(* The record, the commit, the push, the site.                             *)
(***************************************************************************)
WriteMetadata(p, at, metadata) ==
  /\ saved' = metadata
  /\ publication' = [publication EXCEPT ![p].at = at, ![p].metadata = metadata]

SavePreparing(p) ==
  /\ publication[p].at = "chosen"
  /\ WriteMetadata(p, "saved", [publication[p].metadata EXCEPT !.repo = publication[p].repo, !.status = "preparing"])
  /\ UNCHANGED <<origin, head, edited, onGitHub, publishing>>

CommitFiles(p) ==
  /\ publication[p].at = "saved"
  /\ (edited \/ head = 0) => head < MaxCommits
  /\ head' = IF edited \/ head = 0 THEN head + 1 ELSE head
  /\ edited' = FALSE
  /\ publication' = [publication EXCEPT ![p].at = "committed", ![p].commit = head']
  /\ UNCHANGED <<saved, origin, onGitHub, publishing>>

EnsureOrigin(p) ==
  /\ publication[p].at = "committed" /\ origin \in {NoRepository, publication[p].repo}
  /\ origin' = publication[p].repo
  /\ Goto(p, "origin")
  /\ UNCHANGED <<saved, head, edited, onGitHub, publishing>>

\* git push sends what HEAD is now; Pages that is on starts a build of it.
Push(p) ==
  /\ publication[p].at = "origin"
  /\ onGitHub' = [onGitHub EXCEPT ![origin].pushed = head]
  /\ Goto(p, "pushed")
  /\ UNCHANGED <<saved, origin, head, edited, publishing>>

SaveDeploying(p) ==
  /\ publication[p].at = "pushed"
  /\ WriteMetadata(p, "configuring", [publication[p].metadata EXCEPT !.status = "deploying"])
  /\ UNCHANGED <<origin, head, edited, onGitHub, publishing>>

ConfigurePages(p) ==
  /\ publication[p].at = "configuring"
  /\ onGitHub' = [onGitHub EXCEPT ![publication[p].repo].pages = TRUE]
  /\ Goto(p, "polling")
  /\ UNCHANGED <<saved, origin, head, edited, publishing>>

\* A version that takes a build that has started for one that is done.
BadBuilt(p) ==
  LET github == onGitHub[publication[p].repo]
      unreported == github.earlier /\ github.build = 0
  IN github.pages /\ (unreported \/ github.build = publication[p].commit)

\* waitForDeployment: the latest build is of this run's commit, or of one that is not
\* reported, and Pages serves it.
Built(p) ==
  LET github == onGitHub[publication[p].repo]
      unreported == github.earlier /\ github.build = 0
  IN github.pages /\ github.state = "built" /\ (unreported \/ github.build = publication[p].commit)

PollBuilt(p) ==
  /\ publication[p].at = "polling" /\ Built(p)
  /\ Goto(p, "built")
  /\ UNCHANGED publishing /\ KeepsProject

SavePublished(p) ==
  /\ publication[p].at = "built"
  /\ saved' = [publication[p].metadata EXCEPT !.status = "published", !.commit = publication[p].commit]
  /\ publication' = [publication EXCEPT ![p] = IdlePublication]
  /\ publishing' = (publishing /\ publication[p].by = "command")
  /\ UNCHANGED <<origin, head, edited, onGitHub>>

(***************************************************************************)
(* A failure: the catch block records it when this run, or one before it,  *)
(* had a deployment, and its own write may fail.                           *)
(***************************************************************************)
Fail(p) ==
  /\ publication[p].at \notin {"idle", "body"}
  /\ saved' \in {saved} \cup {m \in {[publication[p].metadata EXCEPT !.status = "failed"]} : publication[p].metadata.status # "none"}
  /\ publication' = [publication EXCEPT ![p] = IdlePublication]
  /\ publishing' = (publishing /\ publication[p].by = "command")
  /\ UNCHANGED <<origin, head, edited, onGitHub>>

\* removeSite(): Pages is turned off, then the metadata read before is written back
\* without its deployment.
RemovePages(p) ==
  /\ publication[p].at = "idle" /\ "bridge" \in Callers
  /\ saved.repo # NoRepository /\ saved.status # "none"
  /\ onGitHub' = [onGitHub EXCEPT ![saved.repo].pages = FALSE]
  /\ publication' = [publication EXCEPT ![p].at = "removed", ![p].metadata = [saved EXCEPT !.status = "none", !.commit = 0]]
  /\ UNCHANGED <<saved, origin, head, edited, publishing>>

SaveRemoved(p) ==
  /\ publication[p].at = "removed"
  /\ saved' = publication[p].metadata
  /\ publication' = [publication EXCEPT ![p] = IdlePublication]
  /\ UNCHANGED <<origin, head, edited, onGitHub, publishing>>

\* The process stops; a metadata file that was being written is unreadable afterwards.
Writing == {"chosen", "pushed", "built", "removed"}
StopProcess(p) ==
  LET peers == {q \in Publications : q = p \/ (publication[p].by = "bridge" /\ publication[q].by = "bridge")} IN
  /\ publication[p].at # "idle"
  /\ publication' = [q \in Publications |-> IF q \in peers THEN IdlePublication ELSE publication[q]]
  /\ publishing' = (publishing /\ publication[p].by = "command")
  /\ saved' \in {saved} \cup {m \in {NoMetadata} : \E q \in peers : publication[q].at \in Writing}
  /\ UNCHANGED <<origin, head, edited, onGitHub>>

(***************************************************************************)
(* The student and GitHub Pages.                                           *)
(***************************************************************************)
Edit ==
  /\ ~edited /\ head < MaxCommits /\ edited' = TRUE
  /\ UNCHANGED <<saved, origin, head, onGitHub, publishing, publication>>

StartBuild(r) ==
  /\ onGitHub[r].pages /\ onGitHub[r].pushed # onGitHub[r].build
  /\ onGitHub' = [onGitHub EXCEPT ![r].build = onGitHub[r].pushed, ![r].state = "building"]
  /\ UNCHANGED <<saved, origin, head, edited, publishing, publication>>

EndBuild(r) ==
  /\ onGitHub[r].state = "building"
  /\ \E result \in {"built", "errored"} :
       onGitHub' = [onGitHub EXCEPT ![r].state = result,
                      ![r].served = IF result = "built" THEN onGitHub[r].build ELSE @]
  /\ UNCHANGED <<saved, origin, head, edited, publishing, publication>>

PublishingStep(p) ==
  \/ AskBridge(p) \/ Accept(p) \/ AskCommandLine(p) \/ ReadMetadata(p) \/ Prepare(p)
  \/ UseRepository(p) \/ ChooseName(p) \/ CreateRepository(p) \/ SavePreparing(p) \/ CommitFiles(p)
  \/ EnsureOrigin(p) \/ Push(p) \/ SaveDeploying(p) \/ ConfigurePages(p) \/ PollBuilt(p)
  \/ SavePublished(p) \/ Fail(p) \/ RemovePages(p) \/ SaveRemoved(p) \/ StopProcess(p)

PublishingNext ==
  \/ \E p \in Publications : PublishingStep(p)
  \/ Edit \/ \E r \in Repositories : StartBuild(r) \/ EndBuild(r)

PublishingSpec == PublishingInit /\ [][PublishingNext]_publishingVars

(***************************************************************************)
(* Properties                                                              *)
(***************************************************************************)
\* "Saved repository metadata or a valid existing GitHub origin is reused": whatever
\* stopped in between, the repository on record is the one origin names, so the next
\* publish does not stop at "does not match the project's origin remote".
SavedIsOrigin == (saved.repo # NoRepository /\ origin # NoRepository) => saved.repo = origin

\* A project is on record as published only with a commit Pages has built, never on
\* the strength of the build of an earlier push; only a site that was there before and
\* names no commit may be taken for the new one.
PublishedIsServed ==
  saved.status = "published" =>
    onGitHub[saved.repo].served >= saved.commit \/ onGitHub[saved.repo].earlier

\* What is on record of a project is true of GitHub and of the workspace's origin, wherever a publication stopped.
ProjectOnRecord == SavedIsOrigin /\ PublishedIsServed

\* What makes the second inductive: Pages serves the last build that was done, of a commit that
\* was pushed, and a publication that has come to "built" is served.
SitesFollowHead ==
  \A r \in Repositories :
    LET github == onGitHub[r]
    IN  /\ github.served <= github.build /\ github.build <= github.pushed /\ github.pushed <= head
        /\ github.state = "built" => github.served = github.build

Recorded == {"saved", "committed", "origin", "pushed", "configuring", "polling", "built"}

NamesRepository(run) ==
  /\ run.at \in {"idle", "body", "reading"} => run.metadata.status = "none"
  /\ run.metadata.status # "none" => run.metadata.repo # NoRepository
  /\ run.at \in {"naming", "chosen"} \cup Recorded => run.repo # NoRepository
  /\ run.at \in Recorded => run.metadata.repo = run.repo
  /\ run.at = "removed" => run.metadata.status = "none"
  /\ run.at = "built" => onGitHub[run.repo].served >= run.commit \/ onGitHub[run.repo].earlier

NamedRepository ==
  /\ saved.status # "none" => saved.repo # NoRepository
  /\ \A p \in Publications : NamesRepository(publication[p])

ServedInv == PublishingTypeOK /\ SitesFollowHead /\ NamedRepository /\ PublishedIsServed

\* What makes the first inductive, while no two publications are under way: nobody else writes
\* what the publication has read.
FollowsRecord(run) ==
  /\ run.at \notin {"idle", "body", "reading"} => run.metadata.repo = saved.repo
  /\ run.at = "prepared" => run.origin = origin
  /\ run.at = "naming" => origin = NoRepository /\ saved.repo = NoRepository
  /\ run.at = "chosen" => {origin, saved.repo} \subseteq {NoRepository, run.repo}

ReadIsCurrent == \A p \in Publications : FollowsRecord(publication[p])

PublishingInv == ServedInv /\ ReadIsCurrent /\ SavedIsOrigin
=============================================================================
